----------------------- MODULE RealNavigationAdapter ------------------------
(***************************************************************************)
(* RealNavigationAdapter (adapters/real_navigation.py): one record for     *)
(* each goal, fed by three futures of the ROS action client (goal          *)
(* response, result, cancel response) that complete in any order.          *)
(*                                                                         *)
(* Callbacks run one at a time, but the event sink is called from inside   *)
(* them and the core may cancel the goal from there.  That only matters    *)
(* for GOAL_ACCEPTED, the one event after which the callback goes on, so   *)
(* _on_goal_response is two actions with the sink between them, while      *)
(* which no other callback runs.                                           *)
(***************************************************************************)
EXTENDS FiniteSets

CONSTANTS
  Handles,         \* generation handles; each is submitted at most once
  NoHandle,
  FuturesMayRaise  \* BOOLEAN: calls and futures of the action client may raise

ASSUME AdapterAssumption ==
  /\ NoHandle \notin Handles
  /\ FuturesMayRaise \in BOOLEAN

(***************************************************************************)
(* A goal in the Facade: not sent, not yet decided on, rejected, running,  *)
(* running with a cancellation granted, or ended in one of three ways.     *)
(***************************************************************************)
RunningStates == { "deciding", "executing", "canceling" }
ResultStates  == { "SUCCEEDED", "ABORTED", "CANCELED" }
FacadeStates  == {"none", "rejected"} \cup RunningStates \cup ResultStates

Futures == { "send", "result", "cancel" }
Replies == { "none", "asked", "valid", "invalid" }

\* _NavigationGoalRecord; cancel_response is received and valid in one.
Records ==
  [ goal_handle: BOOLEAN,
    cancel_requested: BOOLEAN,
    cancel_started: BOOLEAN,
    cancel_response: {"none", "valid", "invalid"},
    result_status: {"none"} \cup ResultStates ]

NewRecord ==
  [ goal_handle |-> FALSE,
    cancel_requested |-> FALSE,
    cancel_started |-> FALSE,
    cancel_response |-> "none",
    result_status |-> "none" ]

VARIABLES
  submitted,  \* handles passed to submit_goal
  record,     \* by handle
  told,       \* the terminal event emitted for each handle (terminal_emitted)
  awaits,     \* futures with a callback of the adapter that has not run
  sink,       \* the handle whose GOAL_ACCEPTED is in the event sink, or NoHandle
  facade,     \* by handle
  reply,      \* by handle: the cancel request and the Facade's response to it
  raised      \* history: handles with a future that raised

adapterVars == <<submitted, record, told, awaits, sink, raised>>
facadeVars  == <<facade, reply>>
navVars     == <<adapterVars, facadeVars>>

AdapterInit ==
  /\ submitted = {}
  /\ record = [h \in Handles |-> NewRecord]
  /\ told = [h \in Handles |-> "none"]
  /\ awaits = [h \in Handles |-> {}]
  /\ sink = NoHandle
  /\ facade = [h \in Handles |-> "none"]
  /\ reply = [h \in Handles |-> "none"]
  /\ raised = {}

\* Mutant: the guard on terminal_emitted is lost.
TellAgain(h, event) ==
  told' = IF event = "none" THEN told ELSE [told EXCEPT ![h] = event]

\* _take_terminal_locked: the first terminal event is the only one.
Tell(h, event) ==
  told' = IF event = "none" \/ told[h] # "none" THEN told
          ELSE [told EXCEPT ![h] = event]

\* A call or a future of the action client failed.
Raises(h) ==
  /\ FuturesMayRaise
  /\ raised' = raised \cup {h}

(***************************************************************************)
(* submit_goal.                                                            *)
(***************************************************************************)
GoalSent(h) ==
  /\ facade' = [facade EXCEPT ![h] = "deciding"]
  /\ awaits' = [awaits EXCEPT ![h] = {"send"}]
  /\ UNCHANGED <<told, raised>>

\* The action server is not ready, or send_goal_async raised.
GoalNotSent(h) ==
  /\ Tell(h, "GOAL_REJECTED")
  /\ UNCHANGED <<facade, awaits, raised>>

\* The goal was sent but its future is missing or takes no callback.
GoalSentUnheard(h) ==
  /\ Raises(h)
  /\ facade' = [facade EXCEPT ![h] = "deciding"]
  /\ Tell(h, "GOAL_REJECTED")
  /\ UNCHANGED awaits

SubmitGoal(h) ==
  /\ h \notin submitted
  /\ submitted' = submitted \cup {h}
  /\ GoalSent(h) \/ GoalNotSent(h) \/ GoalSentUnheard(h)
  /\ UNCHANGED <<record, sink, reply>>

(***************************************************************************)
(* cancel_goal and _start_cancel.  `rec` is the record so far.             *)
(***************************************************************************)
MayStartCancel(h, rec) ==
  /\ told[h] = "none"
  /\ rec.cancel_requested
  /\ ~rec.cancel_started
  /\ rec.goal_handle

CancelSent(h, rec) ==
  /\ record' = [record EXCEPT ![h] = [rec EXCEPT !.cancel_started = TRUE]]
  /\ reply' = [reply EXCEPT ![h] = "asked"]
  /\ UNCHANGED <<told, raised>>

\* cancel_goal_async raised, or its future is missing or takes no callback.
CancelNotHeard(h, rec) ==
  /\ Raises(h)
  /\ record' = [record EXCEPT ![h] = [rec EXCEPT !.cancel_started = TRUE,
                                                 !.cancel_response = "invalid"]]
  /\ reply' \in {reply, [reply EXCEPT ![h] = "asked"]}
  /\ Tell(h, "CANCEL_FAILED")

\* `futures` are those listened to by now.
StartCancel(h, rec, futures) ==
  IF MayStartCancel(h, rec)
  THEN \/ /\ CancelSent(h, rec)
          /\ awaits' = [awaits EXCEPT ![h] = futures \cup {"cancel"}]
       \/ /\ CancelNotHeard(h, rec)
          /\ awaits' = [awaits EXCEPT ![h] = futures]
  ELSE /\ record' = [record EXCEPT ![h] = rec]
       /\ awaits' = [awaits EXCEPT ![h] = futures]
       /\ UNCHANGED <<reply, told, raised>>

\* A goal that has had its terminal event is not canceled any more.
CancelGoal(h) ==
  /\ h \in submitted
  /\ told[h] = "none"
  /\ StartCancel(h, [record[h] EXCEPT !.cancel_requested = TRUE], awaits[h])
  /\ UNCHANGED <<submitted, sink, facade>>

(***************************************************************************)
(* _on_goal_response, up to and after the event sink.                      *)
(***************************************************************************)
Runs(h, future) ==
  /\ sink = NoHandle
  /\ future \in awaits[h]

Done(h, future) == awaits' = [awaits EXCEPT ![h] = @ \ {future}]

GoalResponse(h) ==
  /\ Runs(h, "send")
  /\ facade[h] # "deciding"
  /\ Done(h, "send")
  /\ \/ /\ facade[h] # "rejected"
        /\ told[h] = "none"
        /\ record' = [record EXCEPT ![h].goal_handle = TRUE]
        /\ sink' = h
        /\ UNCHANGED <<told, raised>>
     \/ /\ facade[h] = "rejected"
        /\ Tell(h, "GOAL_REJECTED")
        /\ UNCHANGED <<record, sink, raised>>
     \/ /\ Raises(h)
        /\ Tell(h, "GOAL_REJECTED")
        /\ UNCHANGED <<record, sink>>
  /\ UNCHANGED <<submitted, facadeVars>>

\* Mutant: a cancellation asked for before the acceptance is forgotten.
AfterAcceptedWithoutCancel(h) ==
  /\ sink = h
  /\ sink' = NoHandle
  /\ awaits' = IF told[h] = "none"
               THEN [awaits EXCEPT ![h] = @ \cup {"result"}] ELSE awaits
  /\ UNCHANGED <<submitted, record, told, raised, facadeVars>>

AfterAccepted(h) ==
  /\ sink = h
  /\ sink' = NoHandle
  /\ \/ /\ told[h] = "none"
        /\ StartCancel(h, record[h], awaits[h] \cup {"result"})
     \/ /\ told[h] # "none"
        /\ UNCHANGED <<record, told, awaits, reply, raised>>
     \/ /\ Raises(h)
        /\ Tell(h, "FAILED")
        /\ UNCHANGED <<record, awaits, reply>>
  /\ UNCHANGED <<submitted, facade>>

(***************************************************************************)
(* _on_result and _on_cancel_response.                                     *)
(***************************************************************************)

\* Mutant: every result of a goal being canceled waits for that response.
ResultEventAfterCancel(rec, status) ==
  IF rec.cancel_requested /\ rec.cancel_response = "none" THEN "none"
  ELSE IF status = "CANCELED" /\ rec.cancel_requested THEN "CANCEL_CONFIRMED"
  ELSE IF status = "SUCCEEDED" THEN "SUCCEEDED" ELSE "FAILED"

\* The event for a result, or "none" while the response to the cancel request
\* is still to come.
ResultEvent(rec, status) ==
  IF status = "CANCELED" /\ rec.cancel_requested
  THEN [none |-> "none", valid |-> "CANCEL_CONFIRMED",
        invalid |-> "CANCEL_FAILED"][rec.cancel_response]
  ELSE IF status = "SUCCEEDED" THEN "SUCCEEDED" ELSE "FAILED"

Result(h) ==
  /\ Runs(h, "result")
  /\ facade[h] \in ResultStates
  /\ Done(h, "result")
  /\ \/ /\ record' = [record EXCEPT ![h].result_status = facade[h]]
        /\ Tell(h, ResultEvent(record[h], facade[h]))
        /\ UNCHANGED raised
     \/ /\ Raises(h)
        /\ Tell(h, "FAILED")
        /\ UNCHANGED record
  /\ UNCHANGED <<submitted, sink, facadeVars>>

\* A natural end is left to _on_result.
CancelEvent(rec, response) ==
  IF response = "invalid" THEN "CANCEL_FAILED"
  ELSE IF rec.result_status = "CANCELED" THEN "CANCEL_CONFIRMED"
  ELSE "none"

CancelResponse(h) ==
  /\ Runs(h, "cancel")
  /\ reply[h] \in {"valid", "invalid"}
  /\ Done(h, "cancel")
  /\ \E response \in {reply[h], "invalid"} :
       /\ IF response = reply[h] THEN UNCHANGED raised ELSE Raises(h)
       /\ record' = [record EXCEPT ![h].cancel_response = response]
       /\ Tell(h, CancelEvent(record[h], response))
  /\ UNCHANGED <<submitted, sink, facadeVars>>

(***************************************************************************)
(* The Facade.  A response to a cancel request is valid when it names the  *)
(* goal among those being canceled.  A goal may also be canceled by        *)
(* somebody else, and may end in any way while it is being canceled.       *)
(***************************************************************************)
FacadeDecides(h) ==
  /\ facade[h] = "deciding"
  /\ \E state \in {"executing", "rejected"} : facade' = [facade EXCEPT ![h] = state]
  /\ UNCHANGED <<adapterVars, reply>>

FacadeEnds(h) ==
  /\ \/ facade[h] = "executing" /\ facade' = [facade EXCEPT ![h] = "canceling"]
     \/ /\ facade[h] \in {"executing", "canceling"}
        /\ \E state \in ResultStates :
             /\ state = "CANCELED" => facade[h] = "canceling"
             /\ facade' = [facade EXCEPT ![h] = state]
  /\ UNCHANGED <<adapterVars, reply>>

FacadeAnswersCancel(h) ==
  /\ reply[h] = "asked"
  /\ \/ /\ facade[h] \in {"executing", "canceling"}
        /\ facade' = [facade EXCEPT ![h] = "canceling"]
        /\ reply' = [reply EXCEPT ![h] = "valid"]
     \/ /\ reply' = [reply EXCEPT ![h] = "invalid"]
        /\ UNCHANGED facade
  /\ UNCHANGED adapterVars

AdapterNext ==
  \E h \in Handles :
    \/ SubmitGoal(h)
    \/ CancelGoal(h)
    \/ GoalResponse(h)
    \/ AfterAccepted(h)
    \/ Result(h)
    \/ CancelResponse(h)
    \/ FacadeDecides(h)
    \/ FacadeEnds(h)
    \/ FacadeAnswersCancel(h)

AdapterSpec == AdapterInit /\ [][AdapterNext]_navVars

(***************************************************************************)
(* Fairness.  The executor runs the callbacks of completed futures and a   *)
(* callback that has called the sink goes on.  The Facade decides on goals *)
(* and cancel requests, and a goal being canceled comes to an end; a goal  *)
(* that is not may run for ever.                                           *)
(***************************************************************************)
CallbackRuns(h) ==
  GoalResponse(h) \/ AfterAccepted(h) \/ Result(h) \/ CancelResponse(h)

FacadeResponds(h) ==
  \/ FacadeDecides(h)
  \/ FacadeAnswersCancel(h)
  \/ facade[h] = "canceling" /\ FacadeEnds(h)

FairAdapterSpec ==
  /\ AdapterSpec
  /\ \A h \in Handles : WF_navVars(CallbackRuns(h)) /\ WF_navVars(FacadeResponds(h))

-----------------------------------------------------------------------------
(***************************************************************************)
(* The promise of navigation.py.  A goal is accepted or over when its      *)
(* event says so; one that the Facade still runs after its terminal event  *)
(* is orphaned.                                                            *)
(***************************************************************************)
goalStatus ==
  [h \in Handles |->
     IF h \notin submitted THEN "none"
     ELSE IF told[h] = "none"
       THEN IF record[h].goal_handle THEN "accepted" ELSE "sent"
     ELSE IF facade[h] \in RunningStates THEN "orphaned" ELSE "over"]

cancelsAsked == { h \in Handles : record[h].cancel_requested }

Contract == INSTANCE NavigationContract
              WITH goal <- goalStatus, cancelAsked <- cancelsAsked,
                   MayLose <- FuturesMayRaise

\* The adapter keeps its promise in every order of the three futures and of
\* cancellations from inside and outside the event sink: acceptance first, one
\* terminal event, CANCEL_CONFIRMED only for a goal that is over.
ImplementsContract == Contract!ContractSpec

\* The type invariant.
AdapterTypeOK ==
  /\ submitted \subseteq Handles
  /\ record \in [Handles -> Records]
  /\ told \in [Handles -> {"none"} \cup Contract!TerminalEvents]
  /\ awaits \in [Handles -> SUBSET Futures]
  /\ sink \in Handles \cup {NoHandle}
  /\ facade \in [Handles -> FacadeStates]
  /\ reply \in [Handles -> Replies]
  /\ raised \subseteq Handles

\* What the adapter reports of a goal is what became of it in the Facade: a
\* confirmed cancellation stopped the goal and was asked for by the core, and a
\* goal stopped by somebody else is a failure.
EventMatchesResult ==
  \A h \in Handles :
    /\ told[h] = "SUCCEEDED" => facade[h] = "SUCCEEDED"
    /\ told[h] = "CANCEL_CONFIRMED" =>
         facade[h] = "CANCELED" /\ reply[h] = "valid" /\ record[h].cancel_requested
    /\ told[h] = "FAILED" /\ h \notin raised =>
         \/ facade[h] = "ABORTED"
         \/ facade[h] = "CANCELED" /\ ~record[h].cancel_started

\* A goal that runs on unheard was reported as CANCEL_FAILED, unless a future of
\* the action client raised.
OnlyFailedCancelOrphans ==
  \A h \in Handles :
    goalStatus[h] = "orphaned" => told[h] = "CANCEL_FAILED" \/ h \in raised

\* Every cancellation is answered, in whatever state of the goal it is asked for
\* (before the acceptance, inside its event, after the goal's own end).
CancelIsAnswered ==
  \A h \in Handles : record[h].cancel_requested ~> told[h] # "none"

\* A goal that ended is reported as ended.
EndIsReported ==
  \A h \in Handles : facade[h] \in ResultStates \cup {"rejected"} ~> told[h] # "none"

(***************************************************************************)
(* The inductive invariant: what one goal's record, futures and terminal   *)
(* event say of each other and of the goal in the Facade.                  *)
(***************************************************************************)
NotSubmittedYet(h) ==
  /\ record[h] = NewRecord
  /\ told[h] = "none"
  /\ awaits[h] = {}
  /\ facade[h] = "none"
  /\ reply[h] = "none"

RecordFits(h) ==
  /\ "send" \in awaits[h] =>
       ~record[h].goal_handle /\ told[h] = "none" /\ facade[h] # "none"
  /\ awaits[h] \cap {"result", "cancel"} # {} \/ sink = h => record[h].goal_handle
  /\ record[h].goal_handle => facade[h] \notin {"none", "deciding", "rejected"}
  /\ "cancel" \in awaits[h] => record[h].cancel_requested
  /\ record[h].cancel_started => record[h].cancel_requested
  /\ reply[h] # "none" => record[h].cancel_started
  /\ record[h].cancel_response = "valid" => reply[h] = "valid"
  /\ record[h].result_status # "none" => facade[h] = record[h].result_status

EventFits(h) ==
  /\ told[h] = "GOAL_REJECTED" /\ h \notin raised => facade[h] \in {"none", "rejected"}
  /\ told[h] = "FAILED" /\ h \notin raised =>
       \/ facade[h] = "ABORTED"
       \/ facade[h] = "CANCELED" /\ ~record[h].cancel_started
  /\ told[h] = "SUCCEEDED" => facade[h] = "SUCCEEDED"
  /\ told[h] = "CANCEL_CONFIRMED" =>
       facade[h] = "CANCELED" /\ reply[h] = "valid" /\ record[h].cancel_requested

\* From it follow EventMatchesResult, OnlyFailedCancelOrphans, and that every step
\* of the adapter is a step of its promise.
AdapterIInv ==
  /\ AdapterTypeOK
  /\ \A h \in Handles :
       /\ h \notin submitted => NotSubmittedYet(h)
       /\ RecordFits(h)
       /\ EventFits(h)

(***************************************************************************)
(* What EndIsReported and CancelIsAnswered rest on: a goal that has not    *)
(* had its terminal event has a callback still to run that leads to it.    *)
(***************************************************************************)
IsWatched(h) ==
  /\ record[h].goal_handle \/ "send" \in awaits[h]
  /\ record[h].goal_handle /\ sink # h =>
       \/ "result" \in awaits[h]
       \/ /\ record[h].result_status = "CANCELED" /\ record[h].cancel_requested
          /\ record[h].cancel_response = "none"
  /\ record[h].goal_handle /\ record[h].cancel_requested /\ sink # h =>
       record[h].cancel_started
  /\ record[h].cancel_response # "invalid"
  /\ record[h].cancel_started =>
       \/ record[h].cancel_response = "valid"
       \/ /\ record[h].cancel_response = "none"
          /\ "cancel" \in awaits[h] /\ reply[h] # "none"

\* A request that was granted has the Facade end the goal.
Watched(h) ==
  /\ h \in submitted /\ told[h] = "none" => IsWatched(h)
  /\ reply[h] = "valid" => facade[h] \in {"canceling"} \cup ResultStates

WatchIInv == \A h \in Handles : Watched(h)

\* No goal is forgotten: until it has had its terminal event a future is listened to that
\* the Facade completes, and of a goal whose cancellation was asked for it is one that
\* ends with the cancellation.
NoGoalIsForgotten ==
  \A h \in submitted :
    told[h] = "none" =>
      \/ "send" \in awaits[h] /\ facade[h] # "none"
      \/ sink = h
      \/ /\ ~record[h].cancel_requested
         /\ "result" \in awaits[h]
      \/ "cancel" \in awaits[h] /\ reply[h] # "none"
      \/ /\ "result" \in awaits[h]
         /\ facade[h] \in {"canceling"} \cup ResultStates

=============================================================================
