---------------------------- MODULE StateMachine ----------------------------
(***************************************************************************)
(* The pure execution state machine of the Mission Manager                 *)
(* (domain/state_machine.py).  `transition(context, event)` looks at one   *)
(* immutable context and one event and returns a decision: was the event   *)
(* accepted, the next context, and the side effects the core must perform. *)
(* It keeps no state and calls nothing, so it is modelled as an operator:  *)
(* one operator per event for the caller's requests, one per state for the *)
(* events of the two adapters, and Transition, which routes to them.       *)
(*                                                                         *)
(* The tuple of effects is modelled as a set.  Its order is fixed by the   *)
(* code (Safety first, then cancel, release, and the terminal effect last) *)
(* and the modules that execute effects apply them in that order.          *)
(***************************************************************************)

States == { "IDLE", "WAITING_TARGET", "PREPARING_GOAL", "NAVIGATION_STARTING",
            "LEASE_ACQUIRING", "EXECUTING", "CANCELING", "FINALIZING",
            "PAUSED", "SAFETY_BLOCKED" }

Modes    == { "NORMAL", "EMERGENCY_LATCHED" }

\* cancel_intent: Optional[CancelIntent], "NONE" for the absent intent.
Intents  == { "NONE", "PAUSE", "STOP", "RETURN_HOME", "SAFETY_BLOCK", "ESTOP" }

\* PendingOutcome.  START_REPLAN is left out: no transition ever sets it.
Outcomes == { "NONE", "SUCCEEDED", "FAILED", "CANCELED", "PAUSED",
              "SAFETY_BLOCKED", "EMERGENCY_STOPPED", "START_RETURN_HOME" }

\* What one execution has asked of the adapters and what was confirmed.
CleanupContexts ==
  [ navigation_submitted        : BOOLEAN,
    navigation_cancel_required  : BOOLEAN,
    navigation_cancel_confirmed : BOOLEAN,
    lease_acquire_pending       : BOOLEAN,
    lease_was_active            : BOOLEAN,
    lease_release_required      : BOOLEAN,
    lease_release_confirmed     : BOOLEAN,
    cleanup_failed              : BOOLEAN ]

Contexts ==
  [ state : States, manager_mode : Modes, cancel_intent : Intents,
    pending_outcome : Outcomes, cleanup : CleanupContexts ]

RequestEvents ==
  { "PAUSE_REQUESTED", "STOP_REQUESTED", "RESUME_ALLOWED", "ESTOP_REQUESTED",
    "RESET_ESTOP_ALLOWED", "RETURN_HOME_ALLOWED", "SAFETY_BLOCK_REQUESTED" }

ResolverEvents == { "GOAL_PREPARED", "TARGET_NOT_READY", "TARGET_WAIT_TIMEOUT" }

NavigationEvents ==
  { "NAV_GOAL_ACCEPTED", "NAV_GOAL_REJECTED", "NAV_SUCCEEDED", "NAV_FAILED",
    "NAV_CANCEL_CONFIRMED", "NAV_CANCEL_FAILED" }

LeaseEvents == { "LEASE_ACQUIRED", "LEASE_ACQUIRE_FAILED",
                 "LEASE_RELEASED", "LEASE_RELEASE_FAILED" }

Events == RequestEvents \cup ResolverEvents \cup NavigationEvents \cup LeaseEvents

TerminalEffects ==
  { "TERMINAL_SUCCEEDED", "TERMINAL_FAILED", "TERMINAL_TARGET_WAIT_TIMEOUT",
    "TERMINAL_CANCELED", "TERMINAL_EMERGENCY_STOPPED" }

Effects == TerminalEffects \cup
  { "SUBMIT_NAVIGATION", "ACQUIRE_LEASE", "RELEASE_LEASE", "CANCEL_NAVIGATION",
    "ADVANCE_GENERATION", "START_RETURN_HOME", "REQUEST_SAFETY_ESTOP" }

(***************************************************************************)
(* Decisions and contexts.                                                 *)
(***************************************************************************)

Accept(context, effects) ==
  [ accepted |-> TRUE, next |-> context, effects |-> effects ]

Reject(context) ==
  [ accepted |-> FALSE, next |-> context, effects |-> {} ]

NoCleanup ==
  [ navigation_submitted        |-> FALSE,
    navigation_cancel_required  |-> FALSE,
    navigation_cancel_confirmed |-> FALSE,
    lease_acquire_pending       |-> FALSE,
    lease_was_active            |-> FALSE,
    lease_release_required      |-> FALSE,
    lease_release_confirmed     |-> FALSE,
    cleanup_failed              |-> FALSE ]

CleanContext(state, mode) ==
  [ state |-> state, manager_mode |-> mode, cancel_intent |-> "NONE",
    pending_outcome |-> "NONE", cleanup |-> NoCleanup ]

\* Nothing is left to clean up: the tests on intent, outcome and cleanup that
\* _is_clean_safety_blocked and the RESET_ESTOP_ALLOWED branch share.
IsClean(c) ==
  /\ c.cancel_intent = "NONE"
  /\ c.pending_outcome = "NONE"
  /\ c.cleanup = NoCleanup

IsCleanSafetyBlocked(c) == c.state = "SAFETY_BLOCKED" /\ IsClean(c)

\* Mutants of CleanupComplete: one of its tests is missing.
CleanupCompleteIgnoringCancel(k) ==
  /\ k.lease_release_required => k.lease_release_confirmed
  /\ ~k.lease_acquire_pending
  /\ ~k.cleanup_failed

CleanupCompleteIgnoringRelease(k) ==
  /\ k.navigation_cancel_required => k.navigation_cancel_confirmed
  /\ ~k.lease_acquire_pending
  /\ ~k.cleanup_failed

CleanupCompleteIgnoringAcquire(k) ==
  /\ k.navigation_cancel_required => k.navigation_cancel_confirmed
  /\ k.lease_release_required => k.lease_release_confirmed
  /\ ~k.cleanup_failed

CleanupComplete(k) ==
  /\ k.navigation_cancel_required => k.navigation_cancel_confirmed
  /\ k.lease_release_required => k.lease_release_confirmed
  /\ ~k.lease_acquire_pending
  /\ ~k.cleanup_failed

EffectIf(condition, effect) == IF condition THEN {effect} ELSE {}

\* States in which the execution owns no navigation goal and no lease yet, or
\* no longer, and those in which it may own them.
RestingStates == { "WAITING_TARGET", "PREPARING_GOAL", "PAUSED" }
MovingStates  == { "NAVIGATION_STARTING", "LEASE_ACQUIRING", "EXECUTING" }

(***************************************************************************)
(* Cancellation.  A cleanup step is requested only when it is due and was  *)
(* not requested before.                                                   *)
(***************************************************************************)

CancelDue(k)  == k.navigation_submitted /\ ~k.navigation_cancel_required
ReleaseDue(k) == k.lease_was_active /\ ~k.lease_release_required

StartCanceling(c, intent, outcome) ==
  LET k == c.cleanup IN
  Accept([c EXCEPT
            !.state = "CANCELING",
            !.cancel_intent = intent,
            !.pending_outcome = outcome,
            !.cleanup = [k EXCEPT
               !.navigation_cancel_required = @ \/ k.navigation_submitted,
               !.lease_release_required = @ \/ k.lease_was_active]],
         EffectIf(CancelDue(k), "CANCEL_NAVIGATION")
           \cup EffectIf(ReleaseDue(k), "RELEASE_LEASE"))

\* Mutant: a cancellation that is under way keeps what it was for.
EmergencyKeepsOutcome(c, request) ==
  LET k       == c.cleanup
      cancel  == request /\ CancelDue(k)
      release == request /\ ReleaseDue(k)
      cleanup == [k EXCEPT !.navigation_cancel_required = @ \/ cancel,
                           !.lease_release_required = @ \/ release]
      kept    == c.state = "CANCELING" /\ c.pending_outcome # "NONE"
  IN Accept([state           |-> "CANCELING",
             manager_mode    |-> "EMERGENCY_LATCHED",
             cancel_intent   |-> "ESTOP",
             pending_outcome |-> IF kept THEN c.pending_outcome
                                         ELSE "EMERGENCY_STOPPED",
             cleanup         |-> cleanup],
            {"REQUEST_SAFETY_ESTOP"}
              \cup EffectIf(cancel, "CANCEL_NAVIGATION")
              \cup EffectIf(release, "RELEASE_LEASE"))

\* `request` is FALSE for FINALIZING, whose cleanup is already under way.
StartEmergencyCanceling(c, request) ==
  LET k         == c.cleanup
      cancel    == request /\ CancelDue(k)
      release   == request /\ ReleaseDue(k)
      cleanup   == [k EXCEPT !.navigation_cancel_required = @ \/ cancel,
                             !.lease_release_required = @ \/ release]
      requested == {"REQUEST_SAFETY_ESTOP"}
                     \cup EffectIf(cancel, "CANCEL_NAVIGATION")
                     \cup EffectIf(release, "RELEASE_LEASE")
  IN IF CleanupComplete(cleanup)
     THEN Accept(CleanContext("IDLE", "EMERGENCY_LATCHED"),
                 requested \cup {"TERMINAL_EMERGENCY_STOPPED"})
     ELSE Accept([state           |-> "CANCELING",
                  manager_mode    |-> "EMERGENCY_LATCHED",
                  cancel_intent   |-> "ESTOP",
                  pending_outcome |-> "EMERGENCY_STOPPED",
                  cleanup         |-> cleanup],
                 requested)

\* Mutant: every cancellation settles in NORMAL mode.
FinishInNormalMode(previous, c) ==
  IF ~CleanupComplete(c.cleanup) THEN Accept(c, {})
  ELSE CASE c.pending_outcome = "PAUSED" ->
              Accept(CleanContext("PAUSED", "NORMAL"), {})
         [] c.pending_outcome = "SAFETY_BLOCKED" ->
              Accept(CleanContext("SAFETY_BLOCKED", "NORMAL"), {})
         [] c.pending_outcome = "CANCELED" ->
              Accept(CleanContext("IDLE", "NORMAL"), {"TERMINAL_CANCELED"})
         [] c.pending_outcome = "EMERGENCY_STOPPED" ->
              Accept(CleanContext("IDLE", "NORMAL"), {"TERMINAL_EMERGENCY_STOPPED"})
         [] OTHER -> Reject(previous)

\* Where a cancellation settles once every cleanup step is confirmed.
FinishCanceling(previous, c) ==
  IF ~CleanupComplete(c.cleanup) THEN Accept(c, {})
  ELSE CASE c.pending_outcome = "PAUSED" ->
              Accept(CleanContext("PAUSED", "NORMAL"), {})
         [] c.pending_outcome = "CANCELED" ->
              Accept(CleanContext("IDLE", "NORMAL"), {"TERMINAL_CANCELED"})
         [] c.pending_outcome = "SAFETY_BLOCKED" ->
              Accept(CleanContext("SAFETY_BLOCKED", "NORMAL"), {})
         [] c.pending_outcome = "START_RETURN_HOME" ->
              Accept(CleanContext("IDLE", "NORMAL"),
                     {"TERMINAL_CANCELED", "START_RETURN_HOME"})
         [] c.pending_outcome = "EMERGENCY_STOPPED" ->
              Accept(CleanContext("IDLE", "EMERGENCY_LATCHED"),
                     {"TERMINAL_EMERGENCY_STOPPED"})
         [] OTHER -> Reject(previous)

(***************************************************************************)
(* The requests of the core's callers.                                     *)
(***************************************************************************)

EstopRequested(c) ==
  CASE c.manager_mode = "EMERGENCY_LATCHED" -> Accept(c, {})
    [] c.manager_mode = "NORMAL" /\ c.state = "IDLE" ->
         Accept(CleanContext("IDLE", "EMERGENCY_LATCHED"),
                {"REQUEST_SAFETY_ESTOP"})
    [] /\ c.manager_mode = "NORMAL"
       /\ c.state \in RestingStates \/ IsCleanSafetyBlocked(c) ->
         Accept(CleanContext("IDLE", "EMERGENCY_LATCHED"),
                {"REQUEST_SAFETY_ESTOP", "TERMINAL_EMERGENCY_STOPPED"})
    [] OTHER -> StartEmergencyCanceling(c, c.state # "FINALIZING")

ResetEstopAllowed(c) ==
  IF c.manager_mode = "EMERGENCY_LATCHED" /\ c.state = "IDLE" /\ IsClean(c)
  THEN Accept(CleanContext("IDLE", "NORMAL"), {})
  ELSE Reject(c)

\* Mutant: a goal that was sent but not accepted is taken for no goal.
PauseBeforeAcceptance(c) ==
  CASE c.state \in {"WAITING_TARGET", "PREPARING_GOAL", "NAVIGATION_STARTING"} ->
         Accept(CleanContext("PAUSED", "NORMAL"), {})
    [] c.state \in {"PAUSED", "SAFETY_BLOCKED"} -> Accept(c, {})
    [] c.state \in {"LEASE_ACQUIRING", "EXECUTING"} ->
         StartCanceling(c, "PAUSE", "PAUSED")
    [] OTHER -> Reject(c)

PauseRequested(c) ==
  CASE c.state \in {"WAITING_TARGET", "PREPARING_GOAL"} ->
         Accept(CleanContext("PAUSED", "NORMAL"), {})
    [] c.state \in {"PAUSED", "SAFETY_BLOCKED"} -> Accept(c, {})
    [] c.state \in MovingStates -> StartCanceling(c, "PAUSE", "PAUSED")
    [] OTHER -> Reject(c)

\* Mutant: a goal that is over leaves nothing to clean up.
EndFinalizingAtOnce(c, intent, outcome, effects) ==
  CASE c.state \in RestingStates \cup {"FINALIZING"} \/ IsCleanSafetyBlocked(c) ->
         Accept(CleanContext("IDLE", "NORMAL"), effects)
    [] c.state \in MovingStates -> StartCanceling(c, intent, outcome)
    [] OTHER -> Reject(c)

\* STOP and RETURN_HOME end the execution in the same way; RETURN_HOME also
\* asks for the way home to be started.
EndExecution(c, intent, outcome, effects) ==
  CASE c.state \in RestingStates \/ IsCleanSafetyBlocked(c) ->
         Accept(CleanContext("IDLE", "NORMAL"), effects)
    [] c.state \in MovingStates -> StartCanceling(c, intent, outcome)
    [] c.state = "FINALIZING" ->
         Accept([c EXCEPT !.state = "CANCELING", !.cancel_intent = intent,
                          !.pending_outcome = outcome], {})
    [] OTHER -> Reject(c)

StopRequested(c) ==
  EndExecution(c, "STOP", "CANCELED", {"TERMINAL_CANCELED"})

ReturnHomeAllowed(c) ==
  EndExecution(c, "RETURN_HOME", "START_RETURN_HOME",
               {"TERMINAL_CANCELED", "START_RETURN_HOME"})

\* Mutant: resuming does not ask whether the cleanup had failed.
ResumeWhenBlocked(c) ==
  IF c.state \in {"PAUSED", "SAFETY_BLOCKED"}
  THEN Accept(CleanContext("PREPARING_GOAL", "NORMAL"), {"ADVANCE_GENERATION"})
  ELSE Reject(c)

ResumeAllowed(c) ==
  IF c.state = "PAUSED" \/ IsCleanSafetyBlocked(c)
  THEN Accept(CleanContext("PREPARING_GOAL", "NORMAL"), {"ADVANCE_GENERATION"})
  ELSE Reject(c)

SafetyBlockRequested(c) ==
  CASE c.state \in MovingStates ->
         StartCanceling(c, "SAFETY_BLOCK", "SAFETY_BLOCKED")
    [] c.state \in RestingStates ->
         Accept(CleanContext("SAFETY_BLOCKED", "NORMAL"), {})
    [] OTHER -> Reject(c)

(***************************************************************************)
(* CANCELING: confirmations and failures of the cleanup steps.             *)
(***************************************************************************)

CleanupFailed(c) ==
  Accept([c EXCEPT !.state = "SAFETY_BLOCKED",
                   !.cleanup = [@ EXCEPT !.cleanup_failed = TRUE]], {})

\* A goal that was rejected needs no cancel: both events confirm it.
NavigationStopped(c) ==
  IF c.cleanup.navigation_cancel_required
       /\ ~c.cleanup.navigation_cancel_confirmed
  THEN FinishCanceling(c,
         [c EXCEPT !.cleanup = [@ EXCEPT !.navigation_cancel_confirmed = TRUE]])
  ELSE Reject(c)

ReleasedInCanceling(c) ==
  IF c.cleanup.lease_release_required /\ ~c.cleanup.lease_release_confirmed
  THEN FinishCanceling(c,
         [c EXCEPT !.cleanup = [@ EXCEPT !.lease_release_confirmed = TRUE]])
  ELSE Reject(c)

\* The lease arrived after the cancellation began: hand it straight back.
AcquiredInCanceling(c) ==
  IF c.cleanup.lease_acquire_pending
  THEN Accept([c EXCEPT !.cleanup =
                 [@ EXCEPT !.lease_acquire_pending = FALSE,
                           !.lease_was_active = TRUE,
                           !.lease_release_required = TRUE,
                           !.lease_release_confirmed = FALSE]],
              {"RELEASE_LEASE"})
  ELSE Reject(c)

\* Mutant: the failed acquire is noted, but does not finish the cancellation.
AcquireFailureOnlyNoted(c) ==
  IF c.cleanup.lease_acquire_pending
  THEN Accept([c EXCEPT !.cleanup = [@ EXCEPT !.lease_acquire_pending = FALSE]], {})
  ELSE Reject(c)

AcquireFailedInCanceling(c) ==
  IF c.cleanup.lease_acquire_pending
  THEN FinishCanceling(c,
         [c EXCEPT !.cleanup = [@ EXCEPT !.lease_acquire_pending = FALSE]])
  ELSE Reject(c)

Canceling(c, event) ==
  CASE event \in {"NAV_CANCEL_CONFIRMED", "NAV_GOAL_REJECTED"} ->
         NavigationStopped(c)
    [] event = "LEASE_RELEASED" -> ReleasedInCanceling(c)
    [] event = "NAV_CANCEL_FAILED" /\ c.cleanup.navigation_cancel_required ->
         CleanupFailed(c)
    [] event = "LEASE_RELEASE_FAILED" /\ c.cleanup.lease_release_required ->
         CleanupFailed(c)
    [] event = "LEASE_ACQUIRED" -> AcquiredInCanceling(c)
    [] event = "LEASE_ACQUIRE_FAILED" -> AcquireFailedInCanceling(c)
    [] OTHER -> Reject(c)

(***************************************************************************)
(* The other states: the way from a prepared goal to the final release.    *)
(***************************************************************************)

GoalPrepared(c) ==
  IF c.state \in {"WAITING_TARGET", "PREPARING_GOAL"}
  THEN Accept([c EXCEPT
                 !.state = "NAVIGATION_STARTING",
                 !.cleanup = [@ EXCEPT !.navigation_submitted = TRUE]],
              {"SUBMIT_NAVIGATION"})
  ELSE Reject(c)

TargetNotReady(c) ==
  IF c.state = "PREPARING_GOAL"
  THEN Accept([c EXCEPT !.state = "WAITING_TARGET"], {})
  ELSE Reject(c)

TargetWaitTimeout(c) ==
  IF c.state = "WAITING_TARGET"
  THEN Accept(CleanContext("IDLE", "NORMAL"), {"TERMINAL_TARGET_WAIT_TIMEOUT"})
  ELSE Reject(c)

\* Mutant: a rejected goal is only expected while canceling.
StartingIgnoresRejection(c, event) ==
  CASE event = "NAV_GOAL_ACCEPTED" ->
         Accept([c EXCEPT
                   !.state = "LEASE_ACQUIRING",
                   !.cleanup = [@ EXCEPT !.lease_acquire_pending = TRUE]],
                {"ACQUIRE_LEASE"})
    [] OTHER -> Reject(c)

NavigationStarting(c, event) ==
  CASE event = "NAV_GOAL_ACCEPTED" ->
         Accept([c EXCEPT
                   !.state = "LEASE_ACQUIRING",
                   !.cleanup = [@ EXCEPT !.lease_acquire_pending = TRUE]],
                {"ACQUIRE_LEASE"})
    [] event = "NAV_GOAL_REJECTED" ->
         Accept(CleanContext("IDLE", c.manager_mode), {"TERMINAL_FAILED"})
    [] OTHER -> Reject(c)

\* A navigation result that arrives here is rejected, like any other event.
LeaseAcquiring(c, event) ==
  CASE event = "LEASE_ACQUIRED" ->
         Accept([c EXCEPT
                   !.state = "EXECUTING",
                   !.cleanup = [@ EXCEPT !.lease_acquire_pending = FALSE,
                                         !.lease_was_active = TRUE]], {})
    [] event = "LEASE_ACQUIRE_FAILED" ->
         Accept([c EXCEPT
                   !.state = "CANCELING",
                   !.cancel_intent = "SAFETY_BLOCK",
                   !.pending_outcome = "SAFETY_BLOCKED",
                   !.cleanup = [NoCleanup EXCEPT
                      !.navigation_submitted = TRUE,
                      !.navigation_cancel_required = TRUE]],
                {"CANCEL_NAVIGATION"})
    [] OTHER -> Reject(c)

\* Mutants: the lease is not asked back; the execution ends before the lease is
\* returned.
ExecutingKeepsLease(c, event) ==
  IF event \in {"NAV_SUCCEEDED", "NAV_FAILED"}
  THEN Accept([c EXCEPT
                 !.state = "FINALIZING",
                 !.pending_outcome =
                    IF event = "NAV_SUCCEEDED" THEN "SUCCEEDED" ELSE "FAILED",
                 !.cleanup = [@ EXCEPT !.lease_release_required = TRUE]], {})
  ELSE Reject(c)

ExecutingEndsAtOnce(c, event) ==
  CASE event = "NAV_SUCCEEDED" ->
         Accept(CleanContext("IDLE", c.manager_mode),
                {"RELEASE_LEASE", "TERMINAL_SUCCEEDED"})
    [] event = "NAV_FAILED" ->
         Accept(CleanContext("IDLE", c.manager_mode),
                {"RELEASE_LEASE", "TERMINAL_FAILED"})
    [] OTHER -> Reject(c)

Executing(c, event) ==
  IF event \in {"NAV_SUCCEEDED", "NAV_FAILED"}
  THEN Accept([c EXCEPT
                 !.state = "FINALIZING",
                 !.pending_outcome =
                    IF event = "NAV_SUCCEEDED" THEN "SUCCEEDED" ELSE "FAILED",
                 !.cleanup = [@ EXCEPT !.lease_release_required = TRUE]],
              {"RELEASE_LEASE"})
  ELSE Reject(c)

Finalizing(c, event) ==
  CASE event = "LEASE_RELEASE_FAILED" -> CleanupFailed(c)
    [] /\ event = "LEASE_RELEASED"
       /\ c.pending_outcome \in {"SUCCEEDED", "FAILED"} ->
         Accept(CleanContext("IDLE", c.manager_mode),
                {IF c.pending_outcome = "SUCCEEDED" THEN "TERMINAL_SUCCEEDED"
                                                    ELSE "TERMINAL_FAILED"})
    [] OTHER -> Reject(c)

(***************************************************************************)
(* transition(context, event).                                             *)
(***************************************************************************)

AdapterEvent(c, event) ==
  CASE c.state = "CANCELING"           -> Canceling(c, event)
    [] c.state = "NAVIGATION_STARTING" -> NavigationStarting(c, event)
    [] c.state = "LEASE_ACQUIRING"     -> LeaseAcquiring(c, event)
    [] c.state = "EXECUTING"           -> Executing(c, event)
    [] c.state = "FINALIZING"          -> Finalizing(c, event)
    [] OTHER                           -> Reject(c)

\* While latched only the confirmations and failures of a cleanup get through.
\* (A navigation result or GOAL_ACCEPTED in CANCELING is rejected either way.)
PassesLatch(c, event) ==
  \/ c.manager_mode = "NORMAL"
  \/ /\ c.state = "CANCELING"
     /\ event \in (NavigationEvents \ {"NAV_GOAL_ACCEPTED", "NAV_SUCCEEDED",
                                       "NAV_FAILED"}) \cup LeaseEvents

Transition(c, event) ==
  CASE event = "ESTOP_REQUESTED"     -> EstopRequested(c)
    [] event = "RESET_ESTOP_ALLOWED" -> ResetEstopAllowed(c)
    [] /\ event \notin {"ESTOP_REQUESTED", "RESET_ESTOP_ALLOWED"}
       /\ ~PassesLatch(c, event)     -> Reject(c)
    [] OTHER ->
         CASE event = "PAUSE_REQUESTED"        -> PauseRequested(c)
           [] event = "STOP_REQUESTED"         -> StopRequested(c)
           [] event = "RETURN_HOME_ALLOWED"    -> ReturnHomeAllowed(c)
           [] event = "RESUME_ALLOWED"         -> ResumeAllowed(c)
           [] event = "SAFETY_BLOCK_REQUESTED" -> SafetyBlockRequested(c)
           [] event = "GOAL_PREPARED"          -> GoalPrepared(c)
           [] event = "TARGET_NOT_READY"       -> TargetNotReady(c)
           [] event = "TARGET_WAIT_TIMEOUT"    -> TargetWaitTimeout(c)
           [] OTHER                            -> AdapterEvent(c, event)
=============================================================================
