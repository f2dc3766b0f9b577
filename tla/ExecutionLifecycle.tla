------------------------- MODULE ExecutionLifecycle -------------------------
(***************************************************************************)
(* One execution after another, from the core's side and from the world's: *)
(* the core (core.py) applies events to its context, executes the effects  *)
(* and owns the active execution, its generation and the generation gate;  *)
(* the Navigation Facade runs goals and the Safety service grants leases.  *)
(*                                                                         *)
(* Where missions come from is left open here: a mission may be started    *)
(* whenever none is active, and one may or may not be waiting when an      *)
(* execution ends.  MissionCore adds commands, their records and the queue.*)
(*                                                                         *)
(* One executor thread runs every callback to its end, so one action is    *)
(* one callback: an adapter's answer, or a call of the node.               *)
(***************************************************************************)
EXTENDS StateMachine, Naturals

CONSTANTS
  MaxExecutions,   \* executions activated in a behaviour  (bounds the model)
  MaxGeneration    \* generations of one execution         (bounds the model)

ASSUME BoundsAssumption ==
  /\ MaxExecutions \in Nat
  /\ MaxGeneration \in Nat \ {0}

Executions  == 1..MaxExecutions
Generations == 1..MaxGeneration

\* GenerationHandle(execution_id, generation).
Handles  == Executions \X Generations
NoHandle == <<0, 0>>

(***************************************************************************)
(* A goal as the adapter's record and the Facade know it:                  *)
(*   none      never submitted                                             *)
(*   sent      submitted, the Facade has not answered                      *)
(*   accepted  accepted and running                                        *)
(*   orphaned  the adapter reported CANCEL_FAILED and dropped its record;  *)
(*             the Facade still runs the goal and nobody will hear of it   *)
(*   over      rejected, finished or canceled                              *)
(* A lease of one execution as the Safety service knows it: none, asked    *)
(* (acquire request on its way), held, returning (release on its way).     *)
(***************************************************************************)
GoalStatuses  == { "none", "sent", "accepted", "orphaned", "over" }
LeaseStatuses == { "none", "asked", "held", "returning" }

VARIABLES
  ctx,          \* _active_context; None is the IDLE context the core builds
  active,       \* the active execution, 0 for none
  generation,   \* its generation
  gate,         \* GenerationGate's active handle
  frozen,       \* _active_goal is resolved
  started,      \* executions activated so far
  goal,         \* goal status by handle
  cancelAsked,  \* goals whose cancellation the adapter was asked for
  lease         \* lease status by execution

coreVars  == <<ctx, active, generation, gate, frozen, started>>
worldVars == <<goal, cancelAsked, lease>>
vars      == <<coreVars, worldVars>>

Init ==
  /\ ctx = CleanContext("IDLE", "NORMAL")
  /\ active = 0
  /\ generation = 0
  /\ gate = NoHandle
  /\ frozen = FALSE
  /\ started = 0
  /\ goal = [h \in Handles |-> "none"]
  /\ cancelAsked = {}
  /\ lease = [e \in Executions |-> "none"]

(***************************************************************************)
(* Activating a mission (_activate_next).  `next` says what the head of    *)
(* the queue resolves to: "ready" (a goal), "pending" (its target is not   *)
(* visible), or "none" when nothing is waiting.  A ready mission goes      *)
(* through PREPARING_GOAL and GOAL_PREPARED within the same call, which    *)
(* registers generation 1 with the gate and submits the goal.  The new     *)
(* context always starts in NORMAL mode.                                   *)
(***************************************************************************)
NextMission == { "none", "ready", "pending" }

MayActivate(next) == next # "none" => started < MaxExecutions

Activated(next) ==
  IF next = "ready"
  THEN Transition(CleanContext("PREPARING_GOAL", "NORMAL"), "GOAL_PREPARED").next
  ELSE CleanContext("WAITING_TARGET", "NORMAL")

\* No execution is active any more (its last context is `idle`), then the next
\* mission, if there is one, is activated.  The world is left as in `goals`.
EndThenActivate(idle, goals, next) ==
  /\ MayActivate(next)
  /\ IF next = "none"
     THEN /\ ctx' = idle
          /\ active' = 0
          /\ generation' = 0
          /\ gate' = NoHandle
          /\ goal' = goals
          /\ UNCHANGED started
     ELSE /\ ctx' = Activated(next)
          /\ started' = started + 1
          /\ active' = started + 1
          /\ generation' = 1
          /\ gate' = IF next = "ready" THEN <<started + 1, 1>> ELSE NoHandle
          /\ goal' = IF next = "ready"
                     THEN [goals EXCEPT ![<<started + 1, 1>>] = "sent"]
                     ELSE goals
  /\ frozen' = (next = "ready")

(***************************************************************************)
(* Applying an event (_apply_event, _execute_effect, _finish_execution).   *)
(* `goals` and `leases` are the world as the adapter's answer left it; the *)
(* effects of the decision act on that.  A rejected event has no effects   *)
(* and leaves the core alone.  The adapter ignores the cancellation of a   *)
(* goal whose record is closed.                                            *)
(***************************************************************************)
OpenIn(goals) == { h \in Handles : goals[h] \in {"sent", "accepted"} }

LeasesAfter(effects, leases) ==
  IF "ACQUIRE_LEASE" \in effects THEN [leases EXCEPT ![active] = "asked"]
  ELSE IF "RELEASE_LEASE" \in effects THEN [leases EXCEPT ![active] = "returning"]
  ELSE leases

CancelsAfter(effects, goals) ==
  IF "CANCEL_NAVIGATION" \in effects
  THEN cancelAsked \cup ({gate} \cap OpenIn(goals))
  ELSE cancelAsked

Apply(event, goals, leases, next) ==
  LET d == Transition(ctx, event) IN
  /\ lease' = LeasesAfter(d.effects, leases)
  /\ cancelAsked' = CancelsAfter(d.effects, goals)
  /\ IF d.effects \cap TerminalEffects # {}
     THEN EndThenActivate(d.next, goals, next)
     ELSE /\ next = "none"
          /\ ctx' = d.next
          /\ goal' = goals
          /\ UNCHANGED <<active, generation, gate, frozen, started>>

(***************************************************************************)
(* Calls of the node.                                                      *)
(***************************************************************************)

\* submit_command of a mission while no execution is active.
Start(next) ==
  /\ active = 0
  /\ next # "none"
  /\ EndThenActivate(ctx, goal, next)
  /\ UNCHANGED <<cancelAsked, lease>>

Pause == Apply("PAUSE_REQUESTED", goal, lease, "none")

\* STOP and ESTOP have emptied the queue before they apply their event.
Stop == Apply("STOP_REQUESTED", goal, lease, "none")

Estop == Apply("ESTOP_REQUESTED", goal, lease, "none")

\* The Safety service confirmed a reset that was asked for.
ResetSucceeded == Apply("RESET_ESTOP_ALLOWED", goal, lease, "none")

\* A goal for the active execution under handle h: GOAL_PREPARED applied to c.
Submit(c, h) ==
  /\ ctx' = Transition(c, "GOAL_PREPARED").next
  /\ gate' = h
  /\ goal' = [goal EXCEPT ![h] = "sent"]
  /\ frozen' = TRUE

\* RESUME: ADVANCE_GENERATION retires the old handle and reuses the frozen
\* goal, or resolves the target once (`resolved`) and may have to wait for it.
Resume(resolved) ==
  LET d == Transition(ctx, "RESUME_ALLOWED") IN
  /\ d.accepted
  /\ generation < MaxGeneration
  /\ frozen => resolved
  /\ generation' = generation + 1
  /\ IF resolved
     THEN Submit(d.next, <<active, generation + 1>>)
     ELSE /\ ctx' = Transition(d.next, "TARGET_NOT_READY").next
          /\ gate' = NoHandle
          /\ UNCHANGED <<goal, frozen>>
  /\ UNCHANGED <<active, started, cancelAsked, lease>>

\* retry_waiting_goal_resolution finds the target.
TargetResolved ==
  /\ ctx.state = "WAITING_TARGET"
  /\ Submit(ctx, <<active, generation>>)
  /\ UNCHANGED <<active, generation, started, cancelAsked, lease>>

\* check_target_wait_timeout after the deadline.
TargetWaitExpires(next) ==
  /\ ctx.state = "WAITING_TARGET"
  /\ Apply("TARGET_WAIT_TIMEOUT", goal, lease, next)

(***************************************************************************)
(* Answers of the navigation adapter.  handle_navigation_event drops the   *)
(* callback of any handle but the gate's.                                  *)
(***************************************************************************)
NavigationEvent(h, event, status, next) ==
  LET goals == [goal EXCEPT ![h] = status] IN
  IF h = gate
  THEN Apply(event, goals, lease, next)
  ELSE /\ next = "none"
       /\ goal' = goals
       /\ UNCHANGED <<coreVars, cancelAsked, lease>>

GoalAccepted(h, next) ==
  /\ goal[h] = "sent"
  /\ NavigationEvent(h, "NAV_GOAL_ACCEPTED", "accepted", next)

GoalRejected(h, next) ==
  /\ goal[h] = "sent"
  /\ NavigationEvent(h, "NAV_GOAL_REJECTED", "over", next)

GoalSucceeded(h, next) ==
  /\ goal[h] = "accepted"
  /\ NavigationEvent(h, "NAV_SUCCEEDED", "over", next)

GoalFailed(h, next) ==
  /\ goal[h] = "accepted"
  /\ NavigationEvent(h, "NAV_FAILED", "over", next)

CancelConfirmed(h, next) ==
  /\ goal[h] = "accepted"
  /\ h \in cancelAsked
  /\ NavigationEvent(h, "NAV_CANCEL_CONFIRMED", "over", next)

\* The cancel request failed.  It may have lost to the goal's end.
CancelFailed(h, next) ==
  /\ goal[h] = "accepted"
  /\ h \in cancelAsked
  /\ \E status \in {"orphaned", "over"} :
       NavigationEvent(h, "NAV_CANCEL_FAILED", status, next)

\* An orphaned goal ends; the adapter has already emitted its one terminal event.
OrphanEnds(h) ==
  /\ goal[h] = "orphaned"
  /\ goal' = [goal EXCEPT ![h] = "over"]
  /\ UNCHANGED <<coreVars, cancelAsked, lease>>

(***************************************************************************)
(* Answers of the safety adapter.  handle_safety_event drops the answer to *)
(* any execution but the active one.  A failure means here that Safety did *)
(* not do what it was asked: what it has done when its response is lost,   *)
(* which the adapter also reports as a failure, is outside the model.      *)
(***************************************************************************)
LeaseEvent(e, event, status, next) ==
  LET leases == [lease EXCEPT ![e] = status] IN
  IF e = active
  THEN Apply(event, goal, leases, next)
  ELSE /\ next = "none"
       /\ lease' = leases
       /\ UNCHANGED <<coreVars, goal, cancelAsked>>

LeaseAcquired(e, next) ==
  /\ lease[e] = "asked"
  /\ LeaseEvent(e, "LEASE_ACQUIRED", "held", next)

LeaseAcquireFailed(e, next) ==
  /\ lease[e] = "asked"
  /\ LeaseEvent(e, "LEASE_ACQUIRE_FAILED", "none", next)

LeaseReleased(e, next) ==
  /\ lease[e] = "returning"
  /\ LeaseEvent(e, "LEASE_RELEASED", "none", next)

LeaseReleaseFailed(e, next) ==
  /\ lease[e] = "returning"
  /\ LeaseEvent(e, "LEASE_RELEASE_FAILED", "held", next)

-----------------------------------------------------------------------------

NavigationAnswer ==
  \E h \in Handles, next \in NextMission :
    \/ GoalAccepted(h, next)
    \/ GoalRejected(h, next)
    \/ GoalSucceeded(h, next)
    \/ GoalFailed(h, next)
    \/ CancelConfirmed(h, next)
    \/ CancelFailed(h, next)

LeaseAnswer ==
  \E e \in Executions, next \in NextMission :
    \/ LeaseAcquired(e, next)
    \/ LeaseAcquireFailed(e, next)
    \/ LeaseReleased(e, next)
    \/ LeaseReleaseFailed(e, next)

Call ==
  \/ Pause
  \/ Stop
  \/ Estop
  \/ ResetSucceeded
  \/ TargetResolved
  \/ \E resolved \in BOOLEAN : Resume(resolved)
  \/ \E next \in NextMission :
       \/ Start(next)
       \/ TargetWaitExpires(next)

Next ==
  \/ Call
  \/ NavigationAnswer
  \/ LeaseAnswer
  \/ \E h \in Handles : OrphanEnds(h)

Spec == Init /\ [][Next]_vars

(***************************************************************************)
(* Fairness.  The executor keeps running the callbacks of the ROS futures, *)
(* so a request that was sent is answered: a goal that was sent, a cancel  *)
(* that was asked for, a lease call.  A goal nobody cancels may run on, and *)
(* no caller has to call.                                                  *)
(***************************************************************************)
AwaitedAnswer ==
  \E h \in Handles, next \in NextMission :
    /\ goal[h] = "sent" \/ h \in cancelAsked
    /\ \/ GoalAccepted(h, next)
       \/ GoalRejected(h, next)
       \/ GoalSucceeded(h, next)
       \/ GoalFailed(h, next)
       \/ CancelConfirmed(h, next)
       \/ CancelFailed(h, next)

FairSpec == Spec /\ WF_vars(AwaitedAnswer) /\ WF_vars(LeaseAnswer)

-----------------------------------------------------------------------------
(***************************************************************************)
(* Properties.                                                             *)
(***************************************************************************)

\* The type invariant.
TypeOK ==
  /\ ctx \in Contexts
  /\ active \in 0..MaxExecutions
  /\ generation \in 0..MaxGeneration
  /\ gate \in Handles \cup {NoHandle}
  /\ frozen \in BOOLEAN
  /\ started \in 0..MaxExecutions
  /\ goal \in [Handles -> GoalStatuses]
  /\ cancelAsked \subseteq Handles
  /\ lease \in [Executions -> LeaseStatuses]

\* Goals that may still move the robot: the Facade has not ended them.
MovingStatuses == { "sent", "accepted", "orphaned" }

MayMove(h) == goal[h] \in MovingStatuses

\* The robot is never driven by a goal the core does not own: every goal that
\* may still move it is the gate's, of the active execution and its current
\* generation.  So at most one goal is open, and no callback is ever stale.
OnlyOwnedGoalMoves ==
  \A h \in Handles : MayMove(h) => h = gate /\ h = <<active, generation>>

\* Only the active execution is granted, or is asking for or returning, a lease.
OnlyActiveOwnsLease ==
  \A e \in Executions : lease[e] # "none" => e = active

\* Whenever the core believes that nothing is left to clean up (idle, waiting
\* for a target, preparing, paused, or cleanly safety-blocked), the robot is at
\* rest: no goal may move it and no lease call is on its way or lease held.
QuietAtRest ==
  ctx.state \in {"IDLE"} \cup RestingStates \/ IsCleanSafetyBlocked(ctx)
    => /\ \A h \in Handles : ~MayMove(h)
       /\ \A e \in Executions : lease[e] = "none"

\* The robot is only considered to drive autonomously (EXECUTING) under a lease
\* that was granted, and a goal whose result was taken (FINALIZING) is over.
DrivesUnderLease ==
  /\ ctx.state = "EXECUTING" => lease[active] = "held"
  /\ ctx.state = "FINALIZING" => lease[active] = "returning" /\ ~MayMove(gate)

\* An execution is only left behind, finished or stopped, once its goals are over
\* and its lease was returned: no step ends an execution and abandons a
\* resource, whatever the interleaving of answers and requests.
EndsOnlyWhenReleased ==
  [][active # 0 /\ active' # active
       => /\ lease'[active] = "none"
          /\ \A g \in Generations : goal'[<<active, g>>] \notin MovingStatuses]_vars

\* A new goal is only submitted when no other goal may still move the robot: a
\* resumed generation never overlaps the one it replaces.
SubmitsOneAtATime ==
  [][\A h \in Handles : goal[h] = "none" /\ goal'[h] = "sent"
       => \A other \in Handles \ {h} : goal'[other] \notin MovingStatuses]_vars

\* A failed cleanup is never forgotten: the execution stays active, blocked or
\* canceling, and no call or answer ever declares it clean again.
FailedCleanupSticks ==
  [][ctx.cleanup.cleanup_failed
       => /\ ctx'.cleanup.cleanup_failed
          /\ active' = active
          /\ ctx'.state \in {"SAFETY_BLOCKED", "CANCELING"}]_vars

\* The goal ended on its own while its cancellation was on its way, or an ESTOP has
\* asked for the cancellation of a goal that was over (a STOP of FINALIZING is not over
\* yet): the adapter reported the one result it may report, and no confirmation comes.
ResultWonRace ==
  /\ ctx.cleanup.navigation_cancel_required
  /\ ~ctx.cleanup.navigation_cancel_confirmed
  /\ gate # NoHandle /\ goal[gate] = "over"

\* Starting up, acquiring and finalizing end: each waits for an answer that is
\* handled when it comes.
StartupSettles ==
  \A state \in {"NAVIGATION_STARTING", "LEASE_ACQUIRING", "FINALIZING"} :
    \A e \in Executions :
      (active = e /\ ctx.state = state) ~> ~(active = e /\ ctx.state = state)

\* A cancellation settles, in PAUSED, IDLE or SAFETY_BLOCKED, for every order of
\* the answers, unless the goal ended on its own first or a cleanup step failed.
CancellationSettles ==
  ctx.state = "CANCELING"
    ~> \/ ctx.state # "CANCELING"
       \/ ResultWonRace
       \/ ctx.cleanup.cleanup_failed

\* state_machine.md: CANCELING waits for "cancel/release" to succeed or to fail,
\* so every cancellation settles or is marked as failed.
EveryCancellationSettles ==
  ctx.state = "CANCELING" ~> ctx.state # "CANCELING" \/ ctx.cleanup.cleanup_failed

\* Nobody waits for an answer that will not come: while an execution starts, acquires,
\* finalizes or is canceled, a request is on its way, unless the goal ended first or a
\* cleanup step failed.
AnswerIsOwed ==
  /\ ctx.state = "NAVIGATION_STARTING" => gate \in Handles /\ goal[gate] = "sent"
  /\ ctx.state = "LEASE_ACQUIRING" => lease[active] = "asked"
  /\ ctx.state = "FINALIZING" => lease[active] = "returning"
  /\ ctx.state = "CANCELING" =>
       \/ gate \in cancelAsked /\ goal[gate] \in {"sent", "accepted"}
       \/ lease[active] \in {"asked", "returning"}
       \/ ResultWonRace
       \/ ctx.cleanup.cleanup_failed

SameGeneration == active # 0 /\ active' = active /\ generation' = generation

\* An answer that is owed is taken: until a cleanup step has failed, no answer of the
\* Safety service leaves the context of the execution as it was, and neither does the
\* first answer of the Facade to a goal that is being started.
AnswersAreTaken ==
  [][SameGeneration /\ ~ctx.cleanup.cleanup_failed /\ ctx' = ctx
       => /\ lease'[active] = lease[active]
          /\ ctx.state = "NAVIGATION_STARTING" => goal'[gate] = goal[gate]]_vars

(***************************************************************************)
(* The inductive invariant.  Consistent relates a context to what the goal *)
(* of the gate (`g`, and whether its cancellation was `asked` for) and the *)
(* lease of the active execution (`l`) can be: the flags of the cleanup    *)
(* are a true account of both until a cleanup step has failed.             *)
(***************************************************************************)

AtRest(c) ==
  c.state \in {"IDLE"} \cup RestingStates \/ IsCleanSafetyBlocked(c)

NavigationSubmitted == [NoCleanup EXCEPT !.navigation_submitted = TRUE]

ContextFits(c) ==
  /\ c.state \in {"IDLE"} \cup RestingStates => IsClean(c)
  /\ c.state \in MovingStates =>
       c.cancel_intent = "NONE" /\ c.pending_outcome = "NONE"
  /\ c.state = "NAVIGATION_STARTING" =>
       c.cleanup = NavigationSubmitted
  /\ c.state = "LEASE_ACQUIRING" =>
       c.cleanup = [NavigationSubmitted EXCEPT !.lease_acquire_pending = TRUE]
  /\ c.state = "EXECUTING" =>
       c.cleanup = [NavigationSubmitted EXCEPT !.lease_was_active = TRUE]
  /\ c.state = "FINALIZING" =>
       /\ c.pending_outcome \in {"SUCCEEDED", "FAILED"}
       /\ c.cleanup = [NavigationSubmitted EXCEPT !.lease_was_active = TRUE,
                                              !.lease_release_required = TRUE]
  /\ c.state = "CANCELING" =>
       /\ c.pending_outcome \notin {"NONE", "SUCCEEDED", "FAILED"}
       /\ ~c.cleanup.cleanup_failed =>
            /\ c.cleanup.lease_was_active => c.cleanup.lease_release_required
            /\ c.cleanup.lease_release_confirmed => c.cleanup.lease_release_required
            /\ c.cleanup.navigation_cancel_confirmed
                 => c.cleanup.navigation_cancel_required
  /\ c.state = "SAFETY_BLOCKED" => IsClean(c) \/ c.cleanup.cleanup_failed
  /\ c.cleanup.cleanup_failed => c.state \in {"SAFETY_BLOCKED", "CANCELING"}
  /\ c.manager_mode = "EMERGENCY_LATCHED" =>
       c.state \in {"IDLE", "CANCELING", "SAFETY_BLOCKED"}

GoalFits(c, g, asked) ==
  /\ AtRest(c) => g \notin MovingStatuses
  /\ c.state = "NAVIGATION_STARTING" => g = "sent"
  /\ c.state \in {"LEASE_ACQUIRING", "EXECUTING"} => g \in {"accepted", "over"}
  /\ c.state \in MovingStates \cup {"FINALIZING"} => ~asked
  /\ c.state = "FINALIZING" => g = "over"
  /\ c.state = "CANCELING" /\ ~c.cleanup.cleanup_failed =>
       /\ asked => c.cleanup.navigation_cancel_required
       /\ g \in {"sent", "accepted", "over"}
       /\ (c.cleanup.navigation_cancel_required
             => c.cleanup.navigation_cancel_confirmed) => g \notin MovingStatuses
       /\ c.cleanup.navigation_cancel_required /\ ~c.cleanup.navigation_cancel_confirmed =>
            asked \/ g = "over"

LeaseFits(k, l) ==
  /\ k.lease_acquire_pending => l = "asked" /\ ~k.lease_was_active
  /\ k.lease_was_active /\ ~k.lease_release_required => l = "held"
  /\ k.lease_release_required =>
       /\ k.lease_was_active
       /\ l = IF k.lease_release_confirmed THEN "none" ELSE "returning"
  /\ ~k.lease_acquire_pending /\ ~k.lease_was_active => l = "none"

Consistent(c, g, asked, l) ==
  /\ ContextFits(c)
  /\ GoalFits(c, g, asked)
  /\ ~c.cleanup.cleanup_failed => LeaseFits(c.cleanup, l)

\* What a cancellation is for stays known until it has settled, and it settles as
\* soon as nothing is left to clean up; a latched manager only still runs an
\* execution that the emergency stop is ending.
IntentFits(c) ==
  /\ c.cancel_intent # "NONE" => c.state \in {"CANCELING", "SAFETY_BLOCKED"}
  /\ c.cancel_intent = "STOP" => c.pending_outcome = "CANCELED"
  /\ c.cancel_intent = "ESTOP" =>
       c.pending_outcome = "EMERGENCY_STOPPED" /\ c.manager_mode = "EMERGENCY_LATCHED"
  /\ c.manager_mode = "EMERGENCY_LATCHED" /\ c.state # "IDLE" =>
       c.cancel_intent = "ESTOP"
  /\ c.state = "CANCELING" => ~CleanupComplete(c.cleanup)

GateGoal    == IF gate = NoHandle THEN "none" ELSE goal[gate]
ActiveLease == IF active = 0 THEN "none" ELSE lease[active]

\* Handles are used once, in order.
FreshHandles ==
  /\ active \in {0, started}
  /\ active # 0 => generation # 0
  /\ \A h \in Handles :
       h[1] > started \/ (h[1] = active /\ h[2] > generation) => goal[h] = "none"
  /\ ctx.state = "WAITING_TARGET" =>
       gate = NoHandle /\ goal[<<active, generation>>] = "none"
  /\ \A h \in cancelAsked : goal[h] # "none"

Ownership ==
  /\ gate \in {NoHandle, <<active, generation>>}
  /\ \A h \in Handles : MayMove(h) => h = gate
  /\ OnlyActiveOwnsLease
  /\ (active = 0) <=> (ctx.state = "IDLE")

\* The context, the goals and the leases agree at every step, for every order of
\* answers and requests.  All the safety properties above follow from it.
IInv ==
  /\ TypeOK
  /\ FreshHandles
  /\ Ownership
  /\ Consistent(ctx, GateGoal, gate \in cancelAsked, ActiveLease)
=============================================================================
