----------------------------- MODULE HilBridge ------------------------------
(***************************************************************************)
(* Navigation over HTTP: HilNavigationAdapter on the J6                    *)
(* (demo_hil_navigation_runner.py) turns the core's calls into numbered    *)
(* events, and HilPcExecutionBridge on the PC                              *)
(* (demo_hil_pc_execution_bridge.py) polls them, has its own mission       *)
(* manager execute each SUBMIT_GOAL and posts the result back.             *)
(*                                                                         *)
(* The bridge has two threads.  The network thread alternates one post     *)
(* with one poll and does one request at a time; the ROS thread starts     *)
(* executions and hears of their end.  A request may be lost, its response *)
(* may be lost, and it may arrive after the client gave up.  Either        *)
(* process may be restarted and keeps nothing.                             *)
(***************************************************************************)
EXTENDS Naturals, Sequences, FiniteSets

CONSTANTS
  Requests,       \* nav_request_ids; a restarted J6 uses the same ones again
  None,
  HistorySize,    \* MAX_EVENT_HISTORY
  ProcessedSize,  \* MAX_PROCESSED_EVENT_IDS
  MaxEvents,      \* bound: events in one life of the J6
  MaxLate,        \* bound: late results under way at once
  MaxRestarts     \* bound: restarts of the two processes

Lives == 1..MaxRestarts + 1

\* The terminal events the bridge posts, of all in TERMINAL_EVENTS.
Outcomes == { "SUCCEEDED", "FAILED" }

\* The life of the J6 in which a request was submitted is kept with everything
\* that comes of it; it is no field of the messages and no step depends on it.
Events ==
  [ event_id: Nat, operation: {"SUBMIT_GOAL", "CANCEL_GOAL"},
    nav_request_id: Requests, life: Lives ]
ExecutionRequests == [ event_id: Nat, nav_request_id: Requests, life: Lives ]
Results == [ nav_request_id: Requests, event: Outcomes, life: Lives ]

Records == [ cancel_requested: BOOLEAN, terminal_event: {"none"} \cup Outcomes ]

ASSUME HilAssumption ==
  /\ HistorySize \in Nat \ {0}
  /\ ProcessedSize \in Nat \ {0}
  /\ MaxEvents \in Nat
  /\ MaxLate \in Nat
  /\ MaxRestarts \in Nat
  /\ None \notin Records \cup ExecutionRequests

VARIABLES
  \* The J6.
  record,      \* by request: None until submitted, then its _NavigationRecord
  nextEventId,
  history,     \* the retained events; their ids are unique, so a set will do
  delivering,  \* _result_queue: what the ROS thread has to tell the core
  told,        \* by request: what the core was told
  \* The PC, ROS thread and queues shared with it.
  executions,  \* _execution_queue
  active,      \* the request of _active_execution, or None
  results,     \* _result_queue
  \* The PC, network thread.
  thread,      \* what it does next
  batch,       \* events of the last poll that are still to be processed
  lastEventId,
  processed,   \* _processed_event_order; _processed_event_ids is its range
  late,        \* results posted that the client gave up on, still under way
  \* History.
  j6Life, pcLife,
  lastStarted, \* the greatest event id executed in this life of the PC
  outcomes     \* what executions, or failed starts, came to

j6Vars   == <<record, nextEventId, history, delivering, told>>
rosVars  == <<executions, active>>
netVars  == <<thread, batch, lastEventId, processed>>
lifeVars == <<j6Life, pcLife>>
hilVars  == <<j6Vars, rosVars, results, netVars, late, lifeVars, lastStarted, outcomes>>

J6Init ==
  /\ record = [r \in Requests |-> None]
  /\ nextEventId = 1
  /\ history = {}
  /\ delivering = <<>>
  /\ told = [r \in Requests |-> "none"]

PcInit ==
  /\ executions = <<>>
  /\ active = None
  /\ results = <<>>
  /\ thread = "post"
  /\ batch = {}
  /\ lastEventId = 0
  /\ processed = <<>>
  /\ lastStarted = 0

HilInit ==
  /\ J6Init
  /\ PcInit
  /\ late = {}
  /\ j6Life = 1
  /\ pcLife = 1
  /\ outcomes = {}

(***************************************************************************)
(* The J6.  The core submits a goal once in a life of the process.         *)
(***************************************************************************)

\* _append_event_locked: the oldest event gives way, polled or not.
AppendEvent(operation, r) ==
  /\ nextEventId <= MaxEvents
  /\ nextEventId' = nextEventId + 1
  /\ history' =
       { e \in history : e.event_id + HistorySize > nextEventId }
         \cup {[event_id |-> nextEventId, operation |-> operation,
                nav_request_id |-> r, life |-> j6Life]}

SubmitGoal(r) ==
  /\ record[r] = None
  /\ record' = [record EXCEPT ![r] =
                  [cancel_requested |-> FALSE, terminal_event |-> "none"]]
  /\ AppendEvent("SUBMIT_GOAL", r)
  /\ UNCHANGED <<delivering, told, rosVars, results, netVars, late, lifeVars,
                 lastStarted, outcomes>>

CancelGoal(r) ==
  /\ record[r] # None
  /\ ~record[r].cancel_requested
  /\ record[r].terminal_event = "none"
  /\ record' = [record EXCEPT ![r].cancel_requested = TRUE]
  /\ AppendEvent("CANCEL_GOAL", r)
  /\ UNCHANGED <<delivering, told, rosVars, results, netVars, late, lifeVars,
                 lastStarted, outcomes>>

\* Mutant: a repeated result is queued again.
QueueResultAgain(result) ==
  LET r == result.nav_request_id IN
  /\ record' = IF record[r] = None THEN record
               ELSE [record EXCEPT ![r].terminal_event = result.event]
  /\ delivering' = IF record[r] = None THEN delivering ELSE Append(delivering, result)

\* queue_result, for the terminal events the bridge posts: a new one is queued.
QueueResult(result) ==
  LET r == result.nav_request_id IN
  IF record[r] # None /\ record[r].terminal_event = "none"
  THEN /\ record' = [record EXCEPT ![r].terminal_event = result.event]
       /\ delivering' = Append(delivering, result)
  ELSE UNCHANGED <<record, delivering>>

\* Its answer: 202 if queued now or before, 400 for an unknown request and for one
\* that is terminal with another event.
Accepted(result) ==
  LET r == result.nav_request_id IN
  /\ record[r] # None
  /\ record[r].terminal_event \in {"none", result.event}

\* drain_result_queue, one event at a time.
Deliver ==
  /\ delivering # <<>>
  /\ told' = [told EXCEPT ![Head(delivering).nav_request_id] = Head(delivering).event]
  /\ delivering' = Tail(delivering)
  /\ UNCHANGED <<record, nextEventId, history, rosVars, results, netVars, late,
                 lifeVars, lastStarted, outcomes>>

(***************************************************************************)
(* The network thread: poll_once.                                          *)
(***************************************************************************)
\* get_events_after.
EventsAfter == { e \in history : e.event_id > lastEventId }

PollHeard ==
  /\ thread = "poll"
  /\ batch' = EventsAfter
  /\ thread' = IF batch' = {} THEN "post" ELSE "process"
  /\ UNCHANGED <<j6Vars, rosVars, results, lastEventId, processed, late,
                 lifeVars, lastStarted, outcomes>>

PollFails ==
  /\ thread = "poll"
  /\ thread' = "post"
  /\ UNCHANGED <<j6Vars, rosVars, results, batch, lastEventId, processed,
                 late, lifeVars, lastStarted, outcomes>>

\* Mutant: the batch is not sorted, here the newest event comes first.
Newest(e) == \A other \in batch : e.event_id >= other.event_id

\* poll_once sorts the batch.
Earliest(e) == \A other \in batch : e.event_id <= other.event_id

IsProcessed(id) == \E i \in 1..Len(processed) : processed[i] = id

\* _remember_event_id.
Remember(id) ==
  processed' = IF Len(processed) >= ProcessedSize THEN Append(Tail(processed), id)
               ELSE Append(processed, id)

\* _process_event.  A CANCEL_GOAL is remembered and has no other effect.
ProcessEvent ==
  /\ thread = "process"
  /\ \E e \in batch :
       /\ Earliest(e)
       /\ batch' = batch \ {e}
       /\ lastEventId' = IF e.event_id > lastEventId THEN e.event_id ELSE lastEventId
       /\ \/ IsProcessed(e.event_id) /\ UNCHANGED <<processed, executions>>
          \/ /\ ~IsProcessed(e.event_id)
             /\ Remember(e.event_id)
             /\ executions' =
                  IF e.operation = "SUBMIT_GOAL"
                  THEN Append(executions, [event_id |-> e.event_id, life |-> e.life,
                                           nav_request_id |-> e.nav_request_id])
                  ELSE executions
  /\ thread' = IF batch' = {} THEN "post" ELSE "process"
  /\ UNCHANGED <<j6Vars, active, results, late, lifeVars, lastStarted, outcomes>>

(***************************************************************************)
(* The network thread: post_one_result.                                    *)
(***************************************************************************)
NothingToPost ==
  /\ thread = "post"
  /\ results = <<>>
  /\ thread' = "poll"
  /\ UNCHANGED <<j6Vars, rosVars, results, batch, lastEventId, processed, late,
                 lifeVars, lastStarted, outcomes>>

\* Mutant: a result that could not be posted is dropped.
Drop == results' = Tail(results)

\* Mutant: a result that could not be posted is tried again first.
RetainFirst == UNCHANGED results

\* A result that is not answered 202 goes to the end of the queue.  (Another result
\* that is queued meanwhile could as well have been queued before.)
Retain == results' = Append(Tail(results), Head(results))

Posted(result) ==
  /\ thread = "post"
  /\ results # <<>>
  /\ result = Head(results)
  /\ thread' = "poll"
  /\ UNCHANGED <<rosVars, batch, lastEventId, processed, lifeVars, nextEventId,
                 history, told, lastStarted, outcomes>>

\* The response arrives in time.
PostHeard(result) ==
  /\ Posted(result)
  /\ QueueResult(result)
  /\ \/ Accepted(result) /\ results' = Tail(results)
     \/ ~Accepted(result) /\ Retain
  /\ UNCHANGED late

\* It does not: the request is lost, or its response is, or it arrives later.
PostUnheard(result) ==
  /\ Posted(result)
  /\ Retain
  /\ \/ UNCHANGED <<record, delivering, late>>
     \/ QueueResult(result) /\ UNCHANGED late
     \/ /\ Cardinality(late) < MaxLate
        /\ late' = late \cup {result}
        /\ UNCHANGED <<record, delivering>>

LatePostArrives(result) ==
  /\ result \in late
  /\ late' = late \ {result}
  /\ QueueResult(result)
  /\ UNCHANGED <<nextEventId, history, told, rosVars, results, netVars, lifeVars,
                 lastStarted, outcomes>>

(***************************************************************************)
(* The ROS thread of the bridge.  The PC's mission manager is external: it *)
(* accepts the task or not, and ends it somehow.                           *)
(***************************************************************************)
ResultOf(request, event) ==
  [nav_request_id |-> request.nav_request_id, event |-> event, life |-> request.life]

\* Mutant: every end of the PC's execution is reported as its success.
QueueSuccess(request, event) ==
  /\ results' = Append(results, ResultOf(request, "SUCCEEDED"))
  /\ outcomes' = outcomes \cup {ResultOf(request, event)}

\* _queue_terminal_result.
QueueTerminalResult(request, event) ==
  /\ results' = Append(results, ResultOf(request, event))
  /\ outcomes' = outcomes \cup {ResultOf(request, event)}

TakeNext ==
  /\ executions # <<>>
  /\ executions' = Tail(executions)
  /\ lastStarted' = Head(executions).event_id

\* drain_execution_queue.
DrainExecutionQueue ==
  /\ active = None
  /\ TakeNext
  /\ \/ active' = Head(executions) /\ UNCHANGED <<results, outcomes>>
     \/ QueueTerminalResult(Head(executions), "FAILED") /\ UNCHANGED active
  /\ UNCHANGED <<j6Vars, netVars, late, lifeVars>>

\* on_task_status with the final status of the active execution.
OnTaskStatus ==
  /\ active # None
  /\ active' = None
  /\ \E event \in Outcomes : QueueTerminalResult(active, event)
  /\ UNCHANGED <<j6Vars, executions, netVars, late, lifeVars, lastStarted>>

(***************************************************************************)
(* Restarts.  The connections of a process end with it.                    *)
(***************************************************************************)
MayRestart == j6Life + pcLife < 2 + MaxRestarts

RestartJ6 ==
  /\ MayRestart
  /\ j6Life' = j6Life + 1
  /\ record' = [r \in Requests |-> None]
  /\ nextEventId' = 1
  /\ history' = {}
  /\ delivering' = <<>>
  /\ told' = [r \in Requests |-> "none"]
  /\ late' = {}
  /\ UNCHANGED <<rosVars, results, netVars, pcLife, lastStarted, outcomes>>

RestartPc ==
  /\ MayRestart
  /\ pcLife' = pcLife + 1
  /\ executions' = <<>>
  /\ active' = None
  /\ results' = <<>>
  /\ thread' = "post"
  /\ batch' = {}
  /\ lastEventId' = 0
  /\ processed' = <<>>
  /\ lastStarted' = 0
  /\ UNCHANGED <<j6Vars, late, j6Life, outcomes>>

HilNext ==
  \/ \E r \in Requests : SubmitGoal(r) \/ CancelGoal(r)
  \/ Deliver
  \/ PollHeard
  \/ PollFails
  \/ ProcessEvent
  \/ NothingToPost
  \/ \E result \in Results :
       PostHeard(result) \/ PostUnheard(result) \/ LatePostArrives(result)
  \/ DrainExecutionQueue
  \/ OnTaskStatus
  \/ RestartJ6
  \/ RestartPc

HilSpec == HilInit /\ [][HilNext]_hilVars

(***************************************************************************)
(* Fairness.  Both executors run their timers and the network thread goes  *)
(* on.  The network works now and then: who polls again and again is       *)
(* answered one time, and so is each result posted again and again.  The   *)
(* PC's mission manager ends what it accepted.  Nobody is restarted for    *)
(* ever (MaxRestarts).                                                     *)
(***************************************************************************)
NetworkThread ==
  \/ PollHeard
  \/ PollFails
  \/ ProcessEvent
  \/ NothingToPost
  \/ \E result \in Results : PostHeard(result) \/ PostUnheard(result)

CurrentPostHeard(r) ==
  \E event \in Outcomes :
    PostHeard([nav_request_id |-> r, event |-> event, life |-> j6Life])

FairHilSpec ==
  /\ HilSpec
  /\ WF_hilVars(Deliver)
  /\ WF_hilVars(DrainExecutionQueue)
  /\ WF_hilVars(OnTaskStatus)
  /\ WF_hilVars(NetworkThread)
  /\ SF_hilVars(PollHeard)
  /\ \A r \in Requests : SF_hilVars(CurrentPostHeard(r))

-----------------------------------------------------------------------------
\* The type invariant.
HilTypeOK ==
  /\ record \in [Requests -> Records \cup {None}]
  /\ nextEventId \in Nat \ {0}
  /\ history \subseteq { e \in Events : e.event_id + HistorySize >= nextEventId }
  /\ delivering \in Seq(Results)
  /\ told \in [Requests -> {"none"} \cup Outcomes]
  /\ executions \in Seq(ExecutionRequests)
  /\ active \in ExecutionRequests \cup {None}
  /\ results \in Seq(Results)
  /\ thread \in {"post", "poll", "process"}
  /\ batch \subseteq Events
  /\ lastEventId \in Nat
  /\ processed \in Seq(Nat) /\ Len(processed) <= ProcessedSize
  /\ late \subseteq Results
  /\ j6Life \in Lives
  /\ pcLife \in Lives
  /\ lastStarted \in Nat
  /\ outcomes \subseteq Results

\* What the core is told of a goal is what an execution of it came to, whatever was
\* lost, late or repeated on the way.  After a restart of the J6 it may be one of an
\* earlier goal of the same name.
ResultIsEarned ==
  \A r \in Requests :
    told[r] # "none" =>
      \E life \in 1..j6Life :
        [nav_request_id |-> r, event |-> told[r], life |-> life] \in outcomes

\* A goal is answered once: however often a result is posted, and although a goal
\* is executed again after a restart of the PC, the core hears one terminal event.
OneAnswerPerGoal ==
  \A i \in 1..Len(delivering) :
    /\ told[delivering[i].nav_request_id] = "none"
    /\ \A j \in 1..Len(delivering) :
         delivering[j].nav_request_id = delivering[i].nav_request_id => i = j

\* The bridge has the request r of the J6's present life in its hands.
InHand(r) ==
  \/ \E i \in 1..Len(executions) : executions[i].nav_request_id = r
  \/ active # None /\ active.nav_request_id = r
  \/ \E i \in 1..Len(results) : results[i].nav_request_id = r

\* No goal falls between poll, queue, execution and retries: one whose submission
\* the runner still has is either to be polled, or in the bridge's hands, or
\* answered, after any number of failed polls and posts and restarts of the PC.
NothingIsLost ==
  j6Life = 1 =>
    \A e \in history :
      e.operation = "SUBMIT_GOAL" =>
        \/ e.event_id > lastEventId
        \/ InHand(e.nav_request_id)
        \/ record[e.nav_request_id].terminal_event # "none"

(***************************************************************************)
(* The inductive invariant.                                                *)
(***************************************************************************)
\* Everything comes from the present life of the J6 or an earlier one, and every
\* result from an execution.
Origins ==
  /\ \A e \in history : e.life = j6Life /\ record[e.nav_request_id] # None
  /\ \A e \in batch : e.life <= j6Life
  /\ \A i \in 1..Len(executions) : executions[i].life <= j6Life
  /\ active # None => active.life <= j6Life
  /\ \A i \in 1..Len(results) : results[i] \in outcomes
  /\ \A i \in 1..Len(delivering) : delivering[i] \in outcomes
  /\ late \subseteq outcomes
  /\ \A result \in outcomes : result.life <= j6Life
  /\ ResultIsEarned

\* A goal that is being answered, or was, is terminal with that answer.
Answers ==
  /\ \A i \in 1..Len(delivering) :
       LET r == delivering[i].nav_request_id IN
       record[r] # None /\ record[r].terminal_event = delivering[i].event
  /\ \A r \in Requests :
       told[r] # "none" => record[r] # None /\ record[r].terminal_event = told[r]
  /\ OneAnswerPerGoal

\* The bridge has processed events up to lastEventId and executed those up to
\* lastStarted; what it has still to process or execute comes after, in order.
InSequence ==
  /\ lastStarted <= lastEventId
  /\ \A i \in 1..Len(processed) : processed[i] <= lastEventId
  /\ \A i \in 1..Len(executions) :
       lastStarted < executions[i].event_id /\ executions[i].event_id <= lastEventId
  /\ \A i, j \in 1..Len(executions) :
       i < j => executions[i].event_id < executions[j].event_id
  /\ \A e \in batch : lastEventId < e.event_id
  /\ \A e, other \in batch : e.event_id = other.event_id => e = other

\* Unless the J6 was restarted, the batch has every event up to its last one that
\* the runner still has, and the runner's next event is new to the bridge.
BatchIsComplete ==
  j6Life = 1 =>
    /\ lastEventId < nextEventId
    /\ \A e \in batch : e.event_id < nextEventId
    /\ \A e \in batch, other \in history :
         lastEventId < other.event_id /\ other.event_id <= e.event_id =>
           other \in batch

\* The events have different ids, and the next one is free.
EventsAreNumbered ==
  /\ \A e \in history : 0 < e.event_id /\ e.event_id < nextEventId
  /\ \A e, other \in history : e.event_id = other.event_id => e = other

\* From it follow ResultIsEarned, OneAnswerPerGoal, NothingIsLost and RunsInOrder.
HilIInv ==
  /\ HilTypeOK
  /\ Origins
  /\ Answers
  /\ InSequence
  /\ EventsAreNumbered
  /\ BatchIsComplete
  /\ NothingIsLost

\* In one life of the bridge requests are executed in the order of their events and
\* each once, even if the J6 is restarted and counts its events again.
RunsInOrder ==
  [][Len(executions') < Len(executions) /\ pcLife' = pcLife =>
       lastStarted' > lastStarted]_hilVars

\* A goal is answered in the end, unless the J6 was restarted or forgot the
\* submission: neither the bridge's restarts nor a result that is refused for ever
\* hold it up.
SubmitIsAnswered ==
  \A r \in Requests :
    record[r] # None ~>
      \/ told[r] # "none"
      \/ j6Life > 1
      \/ ~\E e \in history : e.operation = "SUBMIT_GOAL" /\ e.nav_request_id = r

(***************************************************************************)
(* What SubmitIsAnswered rests on, beside NothingIsLost and the fairness   *)
(* of the network and of the executors.                                    *)
(***************************************************************************)
\* An answer the runner has accepted is on its way to the core, between the HTTP thread
\* and the ROS thread, until the core was told it.
AnswerIsOnItsWay ==
  \A r \in Requests :
    record[r] # None /\ record[r].terminal_event # "none" =>
      \/ told[r] = record[r].terminal_event
      \/ \E i \in 1..Len(delivering) : delivering[i].nav_request_id = r

\* The network thread is never left with a batch it cannot go on with.
NetworkGoesOn ==
  /\ thread = "process" <=> batch # {}
  /\ thread = "process" => \E e \in batch : Earliest(e)

Queued(result) == \E i \in 1..Len(results) : results[i] = result

\* The bridge lets go of a result only when the runner has it, or had the same one, or at
\* the end of its own life.
NoResultIsDropped ==
  [][\A result \in Results :
       Queued(result) /\ ~Queued(result)' =>
         \/ pcLife' # pcLife
         \/ /\ record'[result.nav_request_id] # None
            /\ record'[result.nav_request_id].terminal_event = result.event]_hilVars
=============================================================================
