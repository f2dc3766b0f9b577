------------------------- MODULE PhysicalCompletion -------------------------
(***************************************************************************)
(* DemoPhysicalCompletionNavigationAdapter (demo_pc_offline_runner.py):    *)
(* the PC showcase's navigation adapter.  It cancels its own goal as soon  *)
(* as a brush reaches a leaf pile, and passes the end of that goal on to   *)
(* the core as SUCCEEDED.                                                  *)
(*                                                                         *)
(* It is a RealNavigationAdapter with another event sink: each of its      *)
(* steps is a step of that adapter, and the terminal event told in it      *)
(* (told) goes through _on_inner_event in the same step (heard).           *)
(***************************************************************************)
EXTENDS RealNavigationAdapter

VARIABLES
  active,     \* _active_handle, or NoHandle
  latched,    \* _physical_completion_handle, or NoHandle
  heard,      \* by handle: the terminal event the core was told, or "none"
  reached     \* history: handles that were latched

physVars == <<navVars, active, latched, heard, reached>>

PhysicalInit ==
  /\ AdapterInit
  /\ active = NoHandle
  /\ latched = NoHandle
  /\ heard = [h \in Handles |-> "none"]
  /\ reached = {}

\* The payload of FAILED says that the goal was aborted.  (When the result future
\* raises there is no payload, and the record has no result.)
Aborted(h) == record'[h].result_status = "ABORTED"

\* Mutant: every end of a latched goal is a success.
MappedAlways(h, event, current, latch) ==
  IF h = current /\ h = latch THEN "SUCCEEDED" ELSE event

\* Mutant: the goal need not be the one that was latched.
MappedForAny(h, event, current, latch) ==
  IF h = current
       /\ (event = "CANCEL_CONFIRMED" \/ (event = "FAILED" /\ Aborted(h)))
  THEN "SUCCEEDED" ELSE event

\* What _on_inner_event passes on.
Mapped(h, event, current, latch) ==
  IF /\ h = current
     /\ h = latch
     /\ event = "CANCEL_CONFIRMED" \/ (event = "FAILED" /\ Aborted(h))
  THEN "SUCCEEDED" ELSE event

Ends(h) == told'[h] # told[h]

\* Mutant: the end of any goal clears the active handle.
PassOnClearing(current, latch) ==
  /\ active' = IF \E h \in Handles : Ends(h) THEN NoHandle ELSE current
  /\ heard' = [h \in Handles |->
                 IF Ends(h) THEN Mapped(h, told'[h], current, latch) ELSE heard[h]]

\* _on_inner_event, with the goal that is active and the one that is latched then.
PassOn(current, latch) ==
  /\ active' = IF \E h \in Handles : h = current /\ Ends(h) THEN NoHandle ELSE current
  /\ heard' = [h \in Handles |->
                 IF Ends(h) THEN Mapped(h, told'[h], current, latch) ELSE heard[h]]

\* submit_goal: the latch is the new goal's own, even while another is active.
PhysicalSubmitGoal(h) ==
  /\ SubmitGoal(h)
  /\ latched' = NoHandle
  /\ PassOn(h, NoHandle)
  /\ UNCHANGED reached

\* cancel_goal, by the core.
PhysicalCancelGoal(h) ==
  /\ CancelGoal(h)
  /\ PassOn(active, latched)
  /\ UNCHANGED <<latched, reached>>

\* The latch is set once.
Latch(h) ==
  /\ latched = NoHandle
  /\ latched' = h
  /\ reached' = reached \cup {h}

\* _on_physical_poses with a brush within reach of a pile; whether it is within reach
\* is up to the simulator.  The resolver refuses every task but 30, so the monitor is
\* enabled whenever a goal is active.
OnPhysicalPoses(h) ==
  /\ sink = NoHandle
  /\ active = h
  /\ Latch(h)
  /\ CancelGoal(h)
  /\ PassOn(h, h)

PhysicalCallback(h) ==
  /\ CallbackRuns(h)
  /\ PassOn(active, latched)
  /\ UNCHANGED <<latched, reached>>

FacadeActs(h) ==
  /\ FacadeDecides(h) \/ FacadeEnds(h) \/ FacadeAnswersCancel(h)
  /\ UNCHANGED <<active, latched, heard, reached>>

PhysicalNext ==
  \E h \in Handles :
    \/ PhysicalSubmitGoal(h)
    \/ PhysicalCancelGoal(h)
    \/ OnPhysicalPoses(h)
    \/ PhysicalCallback(h)
    \/ FacadeActs(h)

PhysicalSpec == PhysicalInit /\ [][PhysicalNext]_physVars

\* The fairness of FairAdapterSpec; that a brush ever reaches a pile is not assumed.
FacadeAnswers(h) ==
  FacadeActs(h) /\ (FacadeDecides(h) \/ FacadeAnswersCancel(h) \/ facade[h] = "canceling")

FairPhysicalSpec ==
  /\ PhysicalSpec
  /\ \A h \in Handles :
       WF_physVars(PhysicalCallback(h)) /\ WF_physVars(FacadeAnswers(h))

-----------------------------------------------------------------------------
\* The type invariant.
PhysicalTypeOK ==
  /\ active \in Handles \cup {NoHandle}
  /\ latched \in Handles \cup {NoHandle}
  /\ heard \in [Handles -> {"none"} \cup Contract!TerminalEvents]
  /\ reached \subseteq Handles

\* A success the core is told of is one of the goal, or a brush had reached a pile
\* under that same goal and it has been stopped since.
CompletionIsEarned ==
  \A h \in Handles :
    heard[h] = "SUCCEEDED" =>
      \/ facade[h] = "SUCCEEDED"
      \/ h \in reached /\ facade[h] \in {"CANCELED", "ABORTED"}

\* Of the goal it submitted last the core never hears that a cancellation was carried
\* out which the adapter asked for: that is a success.
OwnCancelIsSuccess ==
  [][\A h \in Handles :
       heard[h] = "none" /\ heard'[h] = "CANCEL_CONFIRMED" /\ active = h =>
         h \notin reached']_physVars

\* The wrapped adapter still keeps the promise of navigation.py, with the monitor as a
\* second party that may ask for cancellations: one terminal event, and the goal is over
\* when it says so.
PhysicalContract == INSTANCE NavigationContract
                      WITH goal <- goalStatus, cancelAsked <- cancelsAsked,
                           told <- heard, MayLose <- FuturesMayRaise

KeepsPromise == PhysicalContract!ContractSpec

\* A goal under which a brush reached a pile is a success in the end, unless it was
\* rejected, its cancellation failed or a future raised, or another was submitted.
ReachedGoalSucceeds ==
  \A h \in Handles :
    latched = h ~>
      \/ heard[h] \in {"SUCCEEDED", "GOAL_REJECTED", "CANCEL_FAILED"}
      \/ h \in raised
      \/ latched # h

(***************************************************************************)
(* The inductive invariant, with AdapterIInv.                              *)
(***************************************************************************)
\* What the core heard is what the adapter told, but for the ends of a latched goal.
HeardFits(h) ==
  /\ heard[h] = "none" <=> told[h] = "none"
  /\ heard[h] # told[h] =>
       /\ heard[h] = "SUCCEEDED"
       /\ h \in reached
       /\ facade[h] \in {"CANCELED", "ABORTED"}

\* The active goal is open, and latched if a brush reached a pile under it.
MonitorFits ==
  /\ reached \subseteq submitted
  /\ active # NoHandle => active \in submitted /\ told[active] = "none"
  /\ active # NoHandle /\ active \in reached => latched = active
  /\ latched # NoHandle => latched \in reached

\* From it follow CompletionIsEarned, OwnCancelIsSuccess and KeepsPromise.
PhysicalIInv ==
  /\ PhysicalTypeOK
  /\ MonitorFits
  /\ \A h \in Handles : HeardFits(h)

\* What ReachedGoalSucceeds rests on, with NoGoalIsForgotten: of a goal under which a brush
\* reached a pile the cancellation is asked for.
ReachedIsCanceled == reached \subseteq cancelsAsked

=============================================================================
