---------------------------- MODULE MissionCore -----------------------------
(***************************************************************************)
(* MissionManagerCore: commands, their records and published statuses, the *)
(* queue of waiting missions and the emergency-stop latch, on top of the   *)
(* execution life cycle.  Each action is one whole handler of core.py: a   *)
(* step of ExecutionLifecycle together with everything the handler writes  *)
(* to the stores and the queue, so MissionCore implements                  *)
(* ExecutionLifecycle with the queue deciding which mission comes next.    *)
(***************************************************************************)
EXTENDS ExecutionLifecycle, Sequences, FiniteSets

CONSTANTS
  Commands,       \* command_ids; each is submitted at most once
  NoCommand,      \* None
  QueueCapacity   \* MissionQueue's max_size

ASSUME CommandsAssumption ==
  /\ NoCommand \notin Commands
  /\ IsFiniteSet(Commands)
  /\ Cardinality(Commands) <= MaxExecutions   \* no mission is held up by the bound
  /\ QueueCapacity \in Nat \ {0}

RecordStates == { "absent", "QUEUED", "APPLIED", "TERMINAL" }

\* ExternalTaskState, as far as the core writes it; "absent" before the first.
StatusStates ==
  { "absent", "ACCEPTED", "REJECTED", "QUEUED", "WAITING_TARGET", "NAVIGATING",
    "CANCELING", "PAUSED", "SAFETY_BLOCKED", "SUCCEEDED", "FAILED", "CANCELED",
    "EMERGENCY_STOPPED" }

\* Terminal in one of the two scopes: EMERGENCY_STOPPED only in that of executions.
FinalStatuses ==
  { "REJECTED", "SUCCEEDED", "FAILED", "CANCELED", "EMERGENCY_STOPPED" }

VARIABLES
  record,          \* CommandRecordStore: record state by command
  status,          \* latest command-scope status by command
  queue,           \* MissionQueue: waiting commands, head first
  mission,         \* _active_mission's command
  expired,         \* commands whose stamp + valid_for has passed
  pendingReset,    \* _pending_reset_command
  resetsAsked,     \* reset calls the Safety service has not answered
  safetyLatched,   \* the Safety service holds the emergency stop
  estopSinceReset, \* history: an ESTOP was accepted after the pending RESET
  alive            \* no handler has raised out of the executor

storeVars == <<record, status, queue, mission, expired>>
resetVars == <<pendingReset, resetsAsked, safetyLatched, estopSinceReset>>
coreAllVars == <<vars, storeVars, resetVars, alive>>

CoreInit ==
  /\ Init
  /\ record = [c \in Commands |-> "absent"]
  /\ status = [c \in Commands |-> "absent"]
  /\ queue = <<>>
  /\ mission = NoCommand
  /\ expired = {}
  /\ pendingReset = NoCommand
  /\ resetsAsked = 0
  /\ safetyLatched = FALSE
  /\ estopSinceReset = FALSE
  /\ alive = TRUE

(***************************************************************************)
(* Statuses.                                                               *)
(***************************************************************************)

\* What _write_running_status publishes for an active execution.
ExternalState(state) ==
  IF state \in MovingStates \cup {"FINALIZING"} THEN "NAVIGATING" ELSE state

\* The status _finish_execution publishes for a terminal effect.
FinalState(effects) ==
  CASE "TERMINAL_SUCCEEDED" \in effects         -> "SUCCEEDED"
    [] "TERMINAL_CANCELED" \in effects          -> "CANCELED"
    [] "TERMINAL_EMERGENCY_STOPPED" \in effects -> "EMERGENCY_STOPPED"
    [] OTHER                                    -> "FAILED"

(***************************************************************************)
(* The stores and the queue after a handler.  `records`, `statuses` and    *)
(* `waiting` are what the handler has written before; `next` is the choice *)
(* of the lifecycle step, which the queue's content determines here.       *)
(***************************************************************************)

\* MissionQueue.expire: one pass over the items, front to back.
Kept(waiting, late) ==
  LET kept[n \in 0..Len(waiting)] ==
        IF n = 0 THEN <<>>
        ELSE IF waiting[n] \in late THEN kept[n - 1]
        ELSE Append(kept[n - 1], waiting[n])
  IN kept[Len(waiting)]

\* _activate_next: the head is resolved, then pop_next drops every expired item
\* and hands out the first that is left.  If that is not the head that was
\* resolved the handler raises, and the mission it took out is lost.
ActivateNext(records, statuses, waiting, next) ==
  LET valid     == Kept(waiting, expired)
      activates == valid # <<>> /\ valid[1] = waiting[1]
  IN
  /\ (next # "none") <=> activates
  /\ queue' = IF valid = <<>> THEN <<>> ELSE Tail(valid)
  /\ alive' = (valid # <<>> => activates)
  /\ IF activates
     THEN /\ mission' = valid[1]
          /\ record' = [records EXCEPT ![valid[1]] = "APPLIED"]
          /\ status' = [statuses EXCEPT ![valid[1]] = ExternalState(ctx'.state)]
     ELSE /\ mission' = NoCommand
          /\ record' = records
          /\ status' = statuses

\* Mutant: the queue is only advanced after a success.
FollowAdvancingOnSuccess(event, records, statuses, waiting, next) ==
  LET d == Transition(ctx, event) IN
  IF "TERMINAL_SUCCEEDED" \in d.effects
  THEN ActivateNext([records EXCEPT ![mission] = "TERMINAL"],
                    [statuses EXCEPT ![mission] = "SUCCEEDED"], waiting, next)
  ELSE IF d.effects \cap TerminalEffects # {}
  THEN /\ next = "none"
       /\ record' = [records EXCEPT ![mission] = "TERMINAL"]
       /\ status' = [statuses EXCEPT ![mission] = FinalState(d.effects)]
       /\ queue' = waiting
       /\ mission' = NoCommand
       /\ UNCHANGED alive
  ELSE /\ record' = records
       /\ status' = IF d.accepted /\ mission # NoCommand
                    THEN [statuses EXCEPT ![mission] = ExternalState(ctx'.state)]
                    ELSE statuses
       /\ queue' = waiting
       /\ UNCHANGED <<mission, alive>>

\* Mutant: the running status is only published when there are effects.
FollowPublishingEffects(event, records, statuses, waiting, next) ==
  LET d == Transition(ctx, event) IN
  IF d.effects \cap TerminalEffects # {}
  THEN ActivateNext([records EXCEPT ![mission] = "TERMINAL"],
                    [statuses EXCEPT ![mission] = FinalState(d.effects)],
                    waiting, next)
  ELSE /\ record' = records
       /\ status' = IF d.effects # {} /\ mission # NoCommand
                    THEN [statuses EXCEPT ![mission] = ExternalState(ctx'.state)]
                    ELSE statuses
       /\ queue' = waiting
       /\ UNCHANGED <<mission, alive>>

\* What applying `event` to the active execution writes.
Follow(event, records, statuses, waiting, next) ==
  LET d == Transition(ctx, event) IN
  IF d.effects \cap TerminalEffects # {}
  THEN ActivateNext([records EXCEPT ![mission] = "TERMINAL"],
                    [statuses EXCEPT ![mission] = FinalState(d.effects)],
                    waiting, next)
  ELSE /\ record' = records
       /\ status' = IF d.accepted /\ mission # NoCommand
                    THEN [statuses EXCEPT ![mission] = ExternalState(ctx'.state)]
                    ELSE statuses
       /\ queue' = waiting
       /\ UNCHANGED <<mission, alive>>

(***************************************************************************)
(* submit_command of a mission.  Validation and deduplication only let a   *)
(* new, unexpired command through to here.                                 *)
(***************************************************************************)
IsNew(c) == alive /\ record[c] = "absent"

MissionRejected(c) ==
  /\ IsNew(c)
  /\ Len(queue) >= QueueCapacity
  /\ record' = [record EXCEPT ![c] = "TERMINAL"]
  /\ status' = [status EXCEPT ![c] = "REJECTED"]
  /\ UNCHANGED <<vars, queue, mission, expired, resetVars, alive>>

\* Mutants: the capacity is checked one item late; the queue is a stack.
MissionQueuedOverCapacity(c) ==
  /\ IsNew(c)
  /\ Len(queue) <= QueueCapacity
  /\ active # 0
  /\ record' = [record EXCEPT ![c] = "QUEUED"]
  /\ status' = [status EXCEPT ![c] = "QUEUED"]
  /\ queue' = Append(queue, c)
  /\ UNCHANGED <<vars, mission, expired, resetVars, alive>>

MissionQueuedInFront(c) ==
  /\ IsNew(c)
  /\ Len(queue) < QueueCapacity
  /\ active # 0
  /\ record' = [record EXCEPT ![c] = "QUEUED"]
  /\ status' = [status EXCEPT ![c] = "QUEUED"]
  /\ queue' = <<c>> \o queue
  /\ UNCHANGED <<vars, mission, expired, resetVars, alive>>

MissionQueued(c) ==
  /\ IsNew(c)
  /\ Len(queue) < QueueCapacity
  /\ active # 0
  /\ record' = [record EXCEPT ![c] = "QUEUED"]
  /\ status' = [status EXCEPT ![c] = "QUEUED"]
  /\ queue' = Append(queue, c)
  /\ UNCHANGED <<vars, mission, expired, resetVars, alive>>

\* No execution is active: the queue is advanced at once, in any manager mode.
MissionStarted(c) ==
  /\ IsNew(c)
  /\ Len(queue) < QueueCapacity
  /\ \E next \in NextMission :
       /\ Start(next)
       /\ ActivateNext([record EXCEPT ![c] = "QUEUED"],
                       [status EXCEPT ![c] = "QUEUED"],
                       Append(queue, c), next)
  /\ UNCHANGED <<expired, resetVars>>

\* stamp + valid_for of a waiting mission passes.
Expire(c) ==
  /\ alive
  /\ record[c] = "QUEUED"
  /\ expired' = expired \cup {c}
  /\ UNCHANGED <<vars, record, status, queue, mission, resetVars, alive>>

(***************************************************************************)
(* submit_command of a control (_submit_control).                          *)
(***************************************************************************)

\* _mark_control_applied or _reject_control: the control's own record and
\* status, given those of the other commands.
ControlRecords(c, accepted, records) ==
  [records EXCEPT ![c] = IF accepted THEN "APPLIED" ELSE "TERMINAL"]

ControlStatuses(c, accepted, statuses) ==
  [statuses EXCEPT ![c] = IF accepted THEN "ACCEPTED" ELSE "REJECTED"]

SubmitPause(c) ==
  LET accepted == Transition(ctx, "PAUSE_REQUESTED").accepted IN
  /\ IsNew(c)
  /\ Pause
  /\ Follow("PAUSE_REQUESTED", ControlRecords(c, accepted, record),
            ControlStatuses(c, accepted, status), queue, "none")
  /\ UNCHANGED <<expired, resetVars>>

SubmitResume(c) ==
  /\ IsNew(c)
  /\ \E resolved \in BOOLEAN : Resume(resolved)
  /\ Follow("RESUME_ALLOWED", ControlRecords(c, TRUE, record),
            ControlStatuses(c, TRUE, status), queue, "none")
  /\ UNCHANGED <<expired, resetVars>>

ResumeRejected(c) ==
  /\ IsNew(c)
  /\ ~Transition(ctx, "RESUME_ALLOWED").accepted
  /\ record' = ControlRecords(c, FALSE, record)
  /\ status' = ControlStatuses(c, FALSE, status)
  /\ UNCHANGED <<vars, queue, mission, expired, resetVars, alive>>

\* _clear_waiting_queue, before the event of STOP or ESTOP is applied.
Cleared(f, value) ==
  [c \in Commands |->
     IF \E i \in DOMAIN queue : queue[i] = c THEN value ELSE f[c]]

SubmitStop(c) ==
  LET accepted == Transition(ctx, "STOP_REQUESTED").accepted IN
  /\ IsNew(c)
  /\ Stop
  /\ Follow("STOP_REQUESTED",
            ControlRecords(c, accepted, Cleared(record, "TERMINAL")),
            ControlStatuses(c, accepted, Cleared(status, "CANCELED")),
            <<>>, "none")
  /\ UNCHANGED <<expired, resetVars>>

SubmitEstop(c) ==
  LET d == Transition(ctx, "ESTOP_REQUESTED") IN
  /\ IsNew(c)
  /\ Estop
  /\ Follow("ESTOP_REQUESTED",
            ControlRecords(c, d.accepted, Cleared(record, "TERMINAL")),
            ControlStatuses(c, d.accepted, Cleared(status, "CANCELED")),
            <<>>, "none")
  /\ safetyLatched' = (safetyLatched \/ "REQUEST_SAFETY_ESTOP" \in d.effects)
  /\ estopSinceReset' = TRUE
  /\ UNCHANGED <<expired, pendingReset, resetsAsked>>

\* RESET_ESTOP only asks Safety; the latch is left when Safety has answered.
SubmitReset(c) ==
  LET accepted == Transition(ctx, "RESET_ESTOP_ALLOWED").accepted IN
  /\ IsNew(c)
  /\ record' = ControlRecords(c, accepted, record)
  /\ status' = ControlStatuses(c, accepted, status)
  /\ IF accepted
     THEN /\ pendingReset' = c
          /\ resetsAsked' = resetsAsked + 1
          /\ estopSinceReset' = FALSE
     ELSE UNCHANGED <<pendingReset, resetsAsked, estopSinceReset>>
  /\ UNCHANGED <<vars, queue, mission, expired, safetyLatched, alive>>

(***************************************************************************)
(* Answers to a reset.  An answer nobody waits for is dropped.             *)
(***************************************************************************)
FinishReset(final) ==
  /\ record' = [record EXCEPT ![pendingReset] = "TERMINAL"]
  /\ status' = [status EXCEPT ![pendingReset] = final]
  /\ alive' = TRUE

\* Mutant: the command of a failed reset stays the pending one.
ResetFailsKeepingCommand ==
  /\ alive /\ resetsAsked > 0
  /\ resetsAsked' = resetsAsked - 1
  /\ IF pendingReset # NoCommand
     THEN FinishReset("FAILED")
     ELSE UNCHANGED <<record, status, alive>>
  /\ UNCHANGED <<vars, queue, mission, expired, pendingReset, safetyLatched,
                 estopSinceReset>>

ResetFails ==
  /\ alive /\ resetsAsked > 0
  /\ resetsAsked' = resetsAsked - 1
  /\ pendingReset' = NoCommand
  /\ IF pendingReset # NoCommand
     THEN FinishReset("FAILED")
     ELSE UNCHANGED <<record, status, alive>>
  /\ UNCHANGED <<vars, queue, mission, expired, safetyLatched, estopSinceReset>>

\* Mutant: the latch is left as soon as the reset is allowed by Safety.
ResetUnlatchesUnchecked ==
  /\ alive /\ resetsAsked > 0
  /\ resetsAsked' = resetsAsked - 1
  /\ pendingReset' = NoCommand
  /\ safetyLatched' = FALSE
  /\ IF pendingReset = NoCommand
     THEN UNCHANGED <<vars, record, status, alive>>
     ELSE /\ ctx' = [ctx EXCEPT !.manager_mode = "NORMAL"]
          /\ UNCHANGED <<active, generation, gate, frozen, started, worldVars>>
          /\ FinishReset("SUCCEEDED")
  /\ UNCHANGED <<queue, mission, expired, estopSinceReset>>

\* The handler raises when the manager is no longer latched and idle.
ResetSucceeds ==
  /\ alive /\ resetsAsked > 0
  /\ resetsAsked' = resetsAsked - 1
  /\ pendingReset' = NoCommand
  /\ safetyLatched' = FALSE
  /\ IF pendingReset = NoCommand
     THEN UNCHANGED <<vars, record, status, alive>>
     ELSE IF Transition(ctx, "RESET_ESTOP_ALLOWED").accepted
     THEN ResetSucceeded /\ FinishReset("SUCCEEDED")
     ELSE alive' = FALSE /\ UNCHANGED <<vars, record, status>>
  /\ UNCHANGED <<queue, mission, expired, estopSinceReset>>

(***************************************************************************)
(* The adapters' answers and the target resolver, as in the life cycle.    *)
(***************************************************************************)
NavigationAnswered(h) ==
  /\ alive
  /\ \E next \in NextMission :
       LET Follows(event) ==
             IF h = gate THEN Follow(event, record, status, queue, next)
             ELSE UNCHANGED <<record, status, queue, mission, alive>>
       IN \/ GoalAccepted(h, next) /\ Follows("NAV_GOAL_ACCEPTED")
          \/ GoalRejected(h, next) /\ Follows("NAV_GOAL_REJECTED")
          \/ GoalSucceeded(h, next) /\ Follows("NAV_SUCCEEDED")
          \/ GoalFailed(h, next) /\ Follows("NAV_FAILED")
          \/ CancelConfirmed(h, next) /\ Follows("NAV_CANCEL_CONFIRMED")
          \/ CancelFailed(h, next) /\ Follows("NAV_CANCEL_FAILED")
  /\ UNCHANGED <<expired, resetVars>>

LeaseAnswered(e) ==
  /\ alive
  /\ \E next \in NextMission :
       LET Follows(event) ==
             IF e = active THEN Follow(event, record, status, queue, next)
             ELSE UNCHANGED <<record, status, queue, mission, alive>>
       IN \/ LeaseAcquired(e, next) /\ Follows("LEASE_ACQUIRED")
          \/ LeaseAcquireFailed(e, next) /\ Follows("LEASE_ACQUIRE_FAILED")
          \/ LeaseReleased(e, next) /\ Follows("LEASE_RELEASED")
          \/ LeaseReleaseFailed(e, next) /\ Follows("LEASE_RELEASE_FAILED")
  /\ UNCHANGED <<expired, resetVars>>

TargetAppears ==
  /\ alive
  /\ TargetResolved
  /\ Follow("GOAL_PREPARED", record, status, queue, "none")
  /\ UNCHANGED <<expired, resetVars>>

TargetTimesOut ==
  /\ alive
  /\ \E next \in NextMission :
       /\ TargetWaitExpires(next)
       /\ Follow("TARGET_WAIT_TIMEOUT", record, status, queue, next)
  /\ UNCHANGED <<expired, resetVars>>

OrphanedGoalEnds ==
  /\ alive
  /\ \E h \in Handles : OrphanEnds(h)
  /\ UNCHANGED <<storeVars, resetVars, alive>>

-----------------------------------------------------------------------------

\* submit_command of a new command.
SubmitCommand(c) ==
  \/ MissionRejected(c)
  \/ MissionQueued(c)
  \/ MissionStarted(c)
  \/ SubmitPause(c)
  \/ SubmitResume(c)
  \/ ResumeRejected(c)
  \/ SubmitStop(c)
  \/ SubmitEstop(c)
  \/ SubmitReset(c)

CoreNext ==
  \/ \E c \in Commands : SubmitCommand(c) \/ Expire(c)
  \/ \E h \in Handles : NavigationAnswered(h)
  \/ \E e \in Executions : LeaseAnswered(e)
  \/ ResetFails
  \/ ResetSucceeds
  \/ TargetAppears
  \/ TargetTimesOut
  \/ OrphanedGoalEnds

CoreSpec == CoreInit /\ [][CoreNext]_coreAllVars

-----------------------------------------------------------------------------
(***************************************************************************)
(* Properties.                                                             *)
(***************************************************************************)

Waiting == { queue[i] : i \in DOMAIN queue }

\* The type invariant of the core's own state.
CoreTypeOK ==
  /\ record \in [Commands -> RecordStates]
  /\ status \in [Commands -> StatusStates]
  /\ queue \in Seq(Commands) /\ Len(queue) <= QueueCapacity
  /\ mission \in Commands \cup {NoCommand}
  /\ expired \subseteq Commands
  /\ pendingReset \in Commands \cup {NoCommand}
  /\ resetsAsked \in Nat
  /\ safetyLatched \in BOOLEAN
  /\ estopSinceReset \in BOOLEAN
  /\ alive \in BOOLEAN

\* The active execution ends with an outcome that the queue continues after: a
\* success, or a failure whose reason code has CONTINUE_QUEUE (a target that did not
\* come, an accepted goal that failed).  A goal that never got as far as acceptance is
\* left out: the adapter reports its rejection (CONTINUE_QUEUE) and a failed
\* submission (HOLD_QUEUE) by the same event.
EndsContinuing ==
  /\ active # 0 /\ active' # active
  /\ \/ status'[mission] = "SUCCEEDED"
     \/ status'[mission] = "FAILED" /\ GateGoal # "sent"

\* The callback that ends an execution so also activates the mission at the head of
\* the queue, and none of those that wait is forgotten or skipped: nothing becomes
\* active only if all of them have expired, and those that have not still wait.
\* (Unless the handler raises: it does when the head has expired and another has not.)
QueueContinues ==
  [][EndsContinuing /\ alive'
       => /\ mission' = IF Waiting \subseteq expired THEN NoCommand ELSE queue[1]
          /\ Waiting \ expired \subseteq Waiting' \cup {mission'}]_coreAllVars

\* Records, statuses, queue and execution tell one story about each mission: a
\* waiting command is recorded and published as QUEUED and waits once; the active
\* one is applied and published with the state of the execution.
OneStory ==
  /\ \A c \in Waiting : record[c] = "QUEUED" /\ status[c] = "QUEUED"
  /\ \A i, j \in DOMAIN queue : queue[i] = queue[j] => i = j
  /\ (mission = NoCommand) <=> (active = 0)
  /\ mission # NoCommand =>
       /\ record[mission] = "APPLIED"
       /\ status[mission] = ExternalState(ctx.state)

\* The first final status of a command is its last: neither a late answer nor a
\* retry of the queue writes a second one (core.py raises where a store refuses).
FinalStatusIsFinal ==
  [][\A c \in Commands : status[c] \in FinalStatuses => status'[c] = status[c]]_coreAllVars

\* Once STOP or ESTOP was applied to an execution, it is published as canceled or
\* emergency-stopped, however the answers to its cleanup are ordered; after ESTOP
\* only as emergency-stopped.
StopDecidesOutcome ==
  [][active # 0 /\ active' # active
       => /\ ctx.cancel_intent = "STOP"
               => status'[mission] \in {"CANCELED", "EMERGENCY_STOPPED"}
          /\ ctx.cancel_intent = "ESTOP"
               => status'[mission] = "EMERGENCY_STOPPED"]_coreAllVars

\* SUCCEEDED is published only for a goal the Facade finished under a granted
\* lease that was returned before.
SuccessIsEarned ==
  [][\A c \in Commands :
       c = mission /\ status[c] # "SUCCEEDED" /\ status'[c] = "SUCCEEDED"
         => /\ goal[<<active, generation>>] = "over"
            /\ lease[active] = "returning" /\ lease'[active] = "none"]_coreAllVars

\* No answer that arrives while the manager is latched unlatches it, whatever the
\* cancellation that the ESTOP took over was for: the latch is left by the
\* Safety service's reset with the robot at rest, or when a new mission is
\* activated (LatchRefusesMissions).
LatchSurvivesCleanup ==
  [][ctx.manager_mode = "EMERGENCY_LATCHED" /\ ctx'.manager_mode = "NORMAL"
       => \/ started' # started
          \/ /\ safetyLatched' = FALSE
             /\ \A h \in Handles : ~MayMove(h)]_coreAllVars

\* A waiting mission is never overtaken by one that was queued after it or was not
\* queued at all, through pauses, failures and expiries: the other one does not get
\* ahead of it in the queue, and is only activated before it if it has expired.
Ahead(c, d, waiting) ==
  \E i, j \in DOMAIN waiting : i < j /\ waiting[i] = c /\ waiting[j] = d

FirstInFirstOut ==
  [][\A c \in Waiting, d \in Commands \ {mission} :
       c # d /\ ~Ahead(d, c, queue)
         => /\ ~Ahead(d, c, queue')
            /\ mission' = d => c \in expired]_coreAllVars

\* MissionCore implements the execution life cycle.
ImplementsLifecycle == Spec

\* state_machine.md: "EMERGENCY_LATCHED | 拒绝普通 mission": no execution becomes
\* active while the manager is latched.
LatchRefusesMissions ==
  [][ctx.manager_mode = "EMERGENCY_LATCHED" => started' = started]_coreAllVars

\* mission_queue.py returns expired items "so the state-machine layer can later
\* publish command-scope CANCELED statuses": a command taken out of the queue
\* does not stay QUEUED for ever.
ExpiredIsCanceled ==
  \A c \in Commands : record[c] = "QUEUED" => c \in Waiting

\* state_machine.md: a repeated ESTOP in EMERGENCY_LATCHED keeps the emergency
\* stop: the answer to a reset that was asked for before does not undo it, in
\* the manager or in the Safety service.
EstopOutlivesReset ==
  [][pendingReset # NoCommand /\ pendingReset' = NoCommand /\ estopSinceReset
       => ctx'.manager_mode = "EMERGENCY_LATCHED" /\ safetyLatched']_coreAllVars

(***************************************************************************)
(* The inductive invariant.  Stored relates the two stores to the queue    *)
(* `waiting` and the active mission m: a command that is new or waiting is *)
(* published as such, a control that was applied stays ACCEPTED, and what  *)
(* is recorded as TERMINAL, and nothing else, has a final status.          *)
(***************************************************************************)
Stored(records, statuses, waiting, m) ==
  /\ records \in [Commands -> RecordStates]
  /\ statuses \in [Commands -> StatusStates]
  /\ waiting \in Seq(Commands)
  /\ \A i, j \in DOMAIN waiting : waiting[i] = waiting[j] => i = j
  /\ \A i \in DOMAIN waiting : records[waiting[i]] = "QUEUED"
  /\ \A c \in Commands :
       /\ records[c] \in {"absent", "QUEUED"} => statuses[c] = records[c]
       /\ records[c] = "APPLIED" => c = m \/ statuses[c] = "ACCEPTED"
       /\ records[c] = "TERMINAL" => statuses[c] \in FinalStatuses
  /\ m # NoCommand => records[m] = "APPLIED"

MissionFits ==
  /\ mission \in Commands \cup {NoCommand}
  /\ (mission = NoCommand) <=> (active = 0)
  /\ mission # NoCommand => status[mission] = ExternalState(ctx.state)
  /\ ctx.state # "PREPARING_GOAL"

ResetFits ==
  /\ pendingReset \in Commands \cup {NoCommand}
  /\ pendingReset # NoCommand =>
       record[pendingReset] = "APPLIED" /\ pendingReset # mission
  /\ resetsAsked \in Nat
  /\ safetyLatched \in BOOLEAN
  /\ estopSinceReset \in BOOLEAN

\* While nothing is active the queue is empty, as _finish_execution and
\* submit_command advance it whatever ended the execution.  This is what the code
\* does; after a failure with HOLD_QUEUE the documents would have missions wait.
IdleQueueIsEmpty == alive /\ active = 0 => queue = <<>>

CoreIInv ==
  /\ IInv
  /\ Stored(record, status, queue, mission)
  /\ Len(queue) <= QueueCapacity
  /\ MissionFits
  /\ ResetFits
  /\ expired \subseteq { c \in Commands : record[c] # "absent" }
  /\ alive \in BOOLEAN
  /\ IdleQueueIsEmpty
=============================================================================
