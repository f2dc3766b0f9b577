------------------------- MODULE NavigationContract -------------------------
(***************************************************************************)
(* What a navigation adapter promises the core (adapters/navigation.py,    *)
(* and what core.py relies on): of each goal submitted it reports          *)
(* GOAL_ACCEPTED at most once, and exactly one terminal event, after which *)
(* the goal is over, unless the event is CANCEL_FAILED.                    *)
(* ExecutionLifecycle's navigation answers are the steps of this           *)
(* specification; RealNavigationAdapter implements it.                     *)
(***************************************************************************)

CONSTANTS
  Handles,  \* generation handles; each is submitted at most once
  MayLose   \* BOOLEAN: a future of the action client may fail

VARIABLES
  goal,         \* goal status by handle, as in ExecutionLifecycle
  cancelAsked,  \* goals whose cancellation was asked for while they were open
  told          \* the terminal event of each handle, or "none"

contractVars == <<goal, cancelAsked, told>>

GoalStatuses == { "none", "sent", "accepted", "orphaned", "over" }

TerminalEvents ==
  { "GOAL_REJECTED", "SUCCEEDED", "FAILED", "CANCEL_CONFIRMED", "CANCEL_FAILED" }

ContractInit ==
  /\ goal = [h \in Handles |-> "none"]
  /\ cancelAsked = {}
  /\ told = [h \in Handles |-> "none"]

Tell(h, event, status) ==
  /\ told' = [told EXCEPT ![h] = event]
  /\ goal' = [goal EXCEPT ![h] = status]

Submit(h) ==
  /\ goal[h] = "none"
  /\ goal' = [goal EXCEPT ![h] = "sent"]
  /\ UNCHANGED <<cancelAsked, told>>

Cancel(h) ==
  /\ goal[h] \in {"sent", "accepted"}
  /\ cancelAsked' = cancelAsked \cup {h}
  /\ UNCHANGED <<goal, told>>

Accept(h) ==
  /\ goal[h] = "sent"
  /\ goal' = [goal EXCEPT ![h] = "accepted"]
  /\ UNCHANGED <<cancelAsked, told>>

\* Also at once, when the goal could not be sent.
Reject(h) ==
  /\ goal[h] \in {"none", "sent"}
  /\ Tell(h, "GOAL_REJECTED", "over")
  /\ UNCHANGED cancelAsked

Finish(h) ==
  /\ goal[h] = "accepted"
  /\ \E event \in {"SUCCEEDED", "FAILED"} : Tell(h, event, "over")
  /\ UNCHANGED cancelAsked

ConfirmCancel(h) ==
  /\ goal[h] = "accepted"
  /\ h \in cancelAsked
  /\ Tell(h, "CANCEL_CONFIRMED", "over")
  /\ UNCHANGED cancelAsked

\* The goal may be over or go on unheard.  Also at once, from within the request.
FailCancel(h) ==
  /\ goal[h] = "accepted"
  /\ \E status \in {"orphaned", "over"} : Tell(h, "CANCEL_FAILED", status)
  /\ cancelAsked' = cancelAsked \cup {h}

OrphanEnds(h) ==
  /\ goal[h] = "orphaned"
  /\ goal' = [goal EXCEPT ![h] = "over"]
  /\ UNCHANGED <<cancelAsked, told>>

\* A future failed: the adapter gives the goal up, whatever the Facade does.
Lose(h) ==
  /\ MayLose
  /\ goal[h] \in {"none", "sent", "accepted"}
  /\ \E event \in {"GOAL_REJECTED", "FAILED"} : Tell(h, event, "orphaned")
  /\ UNCHANGED cancelAsked

ContractNext ==
  \E h \in Handles :
    \/ Submit(h)
    \/ Cancel(h)
    \/ Accept(h)
    \/ Reject(h)
    \/ Finish(h)
    \/ ConfirmCancel(h)
    \/ FailCancel(h)
    \/ OrphanEnds(h)
    \/ Lose(h)

ContractSpec == ContractInit /\ [][ContractNext]_contractVars
=============================================================================
