---------------------- MODULE ExecutionLifecycle_proofs ----------------------
(***************************************************************************)
(* The safety of the execution life cycle, for every number of executions  *)
(* and generations.                                                        *)
(*                                                                         *)
(* The first part is about the pure state machine: Transition is total,    *)
(* and for each event what the decision and the world's answer lead to     *)
(* (Leads) is consistent when the context, the goal and the lease were.    *)
(* The second part lifts that to the actions and gives the invariant IInv, *)
(* from which the safety properties of ExecutionLifecycle follow.          *)
(***************************************************************************)
EXTENDS ExecutionLifecycle, TLAPS

-----------------------------------------------------------------------------
(***************************************************************************)
(* For every context and every event the decision is well formed: one      *)
(* lemma per operator that builds a context.                               *)
(***************************************************************************)

Decisions ==
  [ accepted : BOOLEAN, next : Contexts, effects : SUBSET Effects ]

LEMMA AcceptType ==
  ASSUME NEW c \in Contexts, NEW effects \in SUBSET Effects
  PROVE  Accept(c, effects) \in Decisions
BY DEF Accept, Decisions

LEMMA RejectType ==
  ASSUME NEW c \in Contexts
  PROVE  Reject(c) \in Decisions
BY DEF Reject, Decisions

LEMMA NoCleanupType == NoCleanup \in CleanupContexts
BY DEF NoCleanup, CleanupContexts

LEMMA CleanContextType ==
  ASSUME NEW state \in States, NEW mode \in Modes
  PROVE  CleanContext(state, mode) \in Contexts
BY NoCleanupType DEF CleanContext, Contexts, Intents, Outcomes

LEMMA EffectIfType ==
  ASSUME NEW effect \in Effects, NEW condition
  PROVE  EffectIf(condition, effect) \in SUBSET Effects
BY DEF EffectIf

LEMMA StartCancelingType ==
  ASSUME NEW c \in Contexts, NEW intent \in Intents, NEW outcome \in Outcomes
  PROVE  StartCanceling(c, intent, outcome) \in Decisions
<1> DEFINE k       == c.cleanup
           cleanup == [k EXCEPT
                         !.navigation_cancel_required = @ \/ k.navigation_submitted,
                         !.lease_release_required = @ \/ k.lease_was_active]
           effects == EffectIf(CancelDue(k), "CANCEL_NAVIGATION")
                        \cup EffectIf(ReleaseDue(k), "RELEASE_LEASE")
           next    == [c EXCEPT !.state = "CANCELING",
                                !.cancel_intent = intent,
                                !.pending_outcome = outcome,
                                !.cleanup = cleanup]
<1>1. k \in CleanupContexts BY DEF Contexts
<1>2. cleanup \in CleanupContexts BY <1>1 DEF CleanupContexts
<1>3. effects \in SUBSET Effects BY DEF Effects, EffectIf
<1>4. next \in Contexts
  <2> HIDE DEF cleanup
  <2> QED BY <1>2 DEF Contexts, States
<1> QED BY <1>3, <1>4, AcceptType DEF StartCanceling

LEMMA StartEmergencyCancelingType ==
  ASSUME NEW c \in Contexts, NEW request \in BOOLEAN
  PROVE  StartEmergencyCanceling(c, request) \in Decisions
<1> DEFINE k         == c.cleanup
           cancel    == request /\ CancelDue(k)
           release   == request /\ ReleaseDue(k)
           cleanup   == [k EXCEPT !.navigation_cancel_required = @ \/ cancel,
                                  !.lease_release_required = @ \/ release]
           requested == {"REQUEST_SAFETY_ESTOP"}
                          \cup EffectIf(cancel, "CANCEL_NAVIGATION")
                          \cup EffectIf(release, "RELEASE_LEASE")
           next      == [state           |-> "CANCELING",
                         manager_mode    |-> "EMERGENCY_LATCHED",
                         cancel_intent   |-> "ESTOP",
                         pending_outcome |-> "EMERGENCY_STOPPED",
                         cleanup         |-> cleanup]
<1>1. k \in CleanupContexts BY DEF Contexts
<1>2. cleanup \in CleanupContexts
  <2> HIDE DEF cancel, release
  <2> QED BY <1>1 DEF CleanupContexts
<1>3. requested \in SUBSET Effects BY DEF Effects, EffectIf
<1>4. next \in Contexts
  <2> HIDE DEF cleanup
  <2> QED BY <1>2 DEF Contexts, States, Modes, Intents, Outcomes
<1>5. Accept(next, requested) \in Decisions BY <1>3, <1>4, AcceptType
<1>6. Accept(CleanContext("IDLE", "EMERGENCY_LATCHED"),
             requested \cup {"TERMINAL_EMERGENCY_STOPPED"}) \in Decisions
  <2>1. CleanContext("IDLE", "EMERGENCY_LATCHED") \in Contexts
    BY CleanContextType DEF States, Modes
  <2>2. requested \cup {"TERMINAL_EMERGENCY_STOPPED"} \in SUBSET Effects
    BY <1>3 DEF Effects, TerminalEffects
  <2> HIDE DEF requested
  <2> QED BY <2>1, <2>2, AcceptType
<1> QED BY <1>5, <1>6 DEF StartEmergencyCanceling

LEMMA FinishCancelingType ==
  ASSUME NEW previous \in Contexts, NEW c \in Contexts
  PROVE  FinishCanceling(previous, c) \in Decisions
BY CleanContextType, AcceptType, RejectType
   DEF FinishCanceling, States, Modes, Effects, TerminalEffects

LEMMA EstopRequestedType ==
  ASSUME NEW c \in Contexts
  PROVE  EstopRequested(c) \in Decisions
BY CleanContextType, AcceptType, StartEmergencyCancelingType
   DEF EstopRequested, States, Modes, Effects, TerminalEffects

LEMMA EndExecutionType ==
  ASSUME NEW c \in Contexts, NEW intent \in Intents, NEW outcome \in Outcomes,
         NEW effects \in SUBSET Effects
  PROVE  EndExecution(c, intent, outcome, effects) \in Decisions
<1>1. [c EXCEPT !.state = "CANCELING", !.cancel_intent = intent,
                !.pending_outcome = outcome] \in Contexts
  BY DEF Contexts, States
<1> QED
  BY <1>1, CleanContextType, AcceptType, RejectType, StartCancelingType
     DEF EndExecution, States, Modes

LEMMA RequestType ==
  ASSUME NEW c \in Contexts
  PROVE  /\ ResetEstopAllowed(c) \in Decisions
         /\ PauseRequested(c) \in Decisions
         /\ StopRequested(c) \in Decisions
         /\ ReturnHomeAllowed(c) \in Decisions
         /\ ResumeAllowed(c) \in Decisions
         /\ SafetyBlockRequested(c) \in Decisions
<1> USE CleanContextType, AcceptType, RejectType DEF States, Modes, Effects
<1>1. ResetEstopAllowed(c) \in Decisions BY DEF ResetEstopAllowed
<1>2. PauseRequested(c) \in Decisions
  BY StartCancelingType DEF PauseRequested, Intents, Outcomes
<1>3. StopRequested(c) \in Decisions
  BY EndExecutionType DEF StopRequested, Intents, Outcomes, TerminalEffects
<1>4. ReturnHomeAllowed(c) \in Decisions
  BY EndExecutionType DEF ReturnHomeAllowed, Intents, Outcomes, TerminalEffects
<1>5. ResumeAllowed(c) \in Decisions BY DEF ResumeAllowed
<1>6. SafetyBlockRequested(c) \in Decisions
  BY StartCancelingType DEF SafetyBlockRequested, Intents, Outcomes
<1> QED BY <1>1, <1>2, <1>3, <1>4, <1>5, <1>6

LEMMA CleanupFailedType ==
  ASSUME NEW c \in Contexts
  PROVE  CleanupFailed(c) \in Decisions
BY AcceptType DEF CleanupFailed, Contexts, CleanupContexts, States

LEMMA CancelingType ==
  ASSUME NEW c \in Contexts, NEW event
  PROVE  Canceling(c, event) \in Decisions
<1> USE AcceptType, RejectType, FinishCancelingType
    DEF Contexts, CleanupContexts
<1>1. NavigationStopped(c) \in Decisions BY DEF NavigationStopped
<1>2. ReleasedInCanceling(c) \in Decisions BY DEF ReleasedInCanceling
<1>3. AcquiredInCanceling(c) \in Decisions BY DEF AcquiredInCanceling, Effects
<1>4. AcquireFailedInCanceling(c) \in Decisions BY DEF AcquireFailedInCanceling
<1> QED BY <1>1, <1>2, <1>3, <1>4, CleanupFailedType DEF Canceling

LEMMA PreparationType ==
  ASSUME NEW c \in Contexts
  PROVE  /\ GoalPrepared(c) \in Decisions
         /\ TargetNotReady(c) \in Decisions
         /\ TargetWaitTimeout(c) \in Decisions
<1>1. GoalPrepared(c) \in Decisions
  BY AcceptType, RejectType
     DEF GoalPrepared, Contexts, CleanupContexts, States, Effects
<1>2. TargetNotReady(c) \in Decisions
  BY AcceptType, RejectType DEF TargetNotReady, Contexts, States, Effects
<1>3. TargetWaitTimeout(c) \in Decisions
  BY CleanContextType, AcceptType, RejectType
     DEF TargetWaitTimeout, States, Modes, Effects, TerminalEffects
<1> QED BY <1>1, <1>2, <1>3

LEMMA AdapterEventType ==
  ASSUME NEW c \in Contexts, NEW event
  PROVE  AdapterEvent(c, event) \in Decisions
<1>1. /\ c.cleanup \in CleanupContexts
      /\ c.manager_mode \in Modes
  BY DEF Contexts
<1>2. CleanContext("IDLE", c.manager_mode) \in Contexts
  BY <1>1, CleanContextType DEF States
<1>3. NavigationStarting(c, event) \in Decisions
  BY <1>2, AcceptType, RejectType
     DEF NavigationStarting, Contexts, CleanupContexts, States, Effects,
         TerminalEffects
<1>4. LeaseAcquiring(c, event) \in Decisions
  <2> DEFINE acquired == [c EXCEPT
                !.state = "EXECUTING",
                !.cleanup = [@ EXCEPT !.lease_acquire_pending = FALSE,
                                      !.lease_was_active = TRUE]]
             refused  == [c EXCEPT
                !.state = "CANCELING",
                !.cancel_intent = "SAFETY_BLOCK",
                !.pending_outcome = "SAFETY_BLOCKED",
                !.cleanup = [NoCleanup EXCEPT
                               !.navigation_submitted = TRUE,
                               !.navigation_cancel_required = TRUE]]
  <2>1. acquired \in Contexts BY DEF Contexts, CleanupContexts, States
  <2>2. refused \in Contexts
    BY NoCleanupType
       DEF Contexts, CleanupContexts, States, Intents, Outcomes
  <2>3. LeaseAcquiring(c, event)
          \in {Accept(acquired, {}), Accept(refused, {"CANCEL_NAVIGATION"}), Reject(c)}
    BY DEF LeaseAcquiring
  <2> HIDE DEF acquired, refused
  <2> QED BY <2>1, <2>2, <2>3, AcceptType, RejectType DEF Effects
<1>5. Executing(c, event) \in Decisions
  BY AcceptType, RejectType
     DEF Executing, Contexts, CleanupContexts, States, Outcomes, Effects
<1>6. Finalizing(c, event) \in Decisions
  BY <1>2, AcceptType, RejectType, CleanupFailedType
     DEF Finalizing, Effects, TerminalEffects
<1> QED
  BY <1>3, <1>4, <1>5, <1>6, CancelingType, RejectType DEF AdapterEvent

\* Whatever the event and the context, the decision is one the core can act on:
\* a well-formed context and effects it knows.
THEOREM TransitionType ==
  ASSUME NEW c \in Contexts, NEW event
  PROVE  Transition(c, event) \in Decisions
BY RejectType, EstopRequestedType, RequestType, PreparationType,
   AdapterEventType DEF Transition

-----------------------------------------------------------------------------
(***************************************************************************)
(* What a decision leads to, with the world's answer.                      *)
(***************************************************************************)

Ends(d) == d.effects \cap TerminalEffects # {}

LeaseThen(d, l) ==
  IF "ACQUIRE_LEASE" \in d.effects THEN "asked"
  ELSE IF "RELEASE_LEASE" \in d.effects THEN "returning" ELSE l

AskedThen(d, g, asked) ==
  asked \/ ("CANCEL_NAVIGATION" \in d.effects /\ g \in {"sent", "accepted"})

\* Deciding d in context c, with the goal in status g (its cancellation asked or
\* not) and the lease in status l, ends the execution with nothing left behind
\* or leaves everything consistent.
Leads(c, d, g, asked, l) ==
  /\ d \in Decisions
  /\ Ends(d) => /\ g \notin MovingStatuses
                /\ LeaseThen(d, l) = "none"
                /\ d.next.state = "IDLE" /\ IsClean(d.next)
                /\ "CANCEL_NAVIGATION" \notin d.effects
  /\ ~Ends(d) =>
       /\ Consistent(d.next, g, AskedThen(d, g, asked), LeaseThen(d, l))
       /\ (d.next.state = "IDLE") <=> (c.state = "IDLE")
       /\ d.next.state = "WAITING_TARGET" => c.state = "WAITING_TARGET"
       /\ c.state = "IDLE" => {"RELEASE_LEASE", "ACQUIRE_LEASE"} \cap d.effects = {}

-----------------------------------------------------------------------------
(***************************************************************************)
(* Decisions that ask for nothing.                                         *)
(***************************************************************************)

LEMMA UnchangedLeads ==
  ASSUME NEW c \in Contexts, NEW g, NEW asked \in BOOLEAN, NEW l,
         Consistent(c, g, asked, l)
  PROVE  /\ Leads(c, Reject(c), g, asked, l)
         /\ Leads(c, Accept(c, {}), g, asked, l)
<1>1. Reject(c) \in Decisions /\ Accept(c, {}) \in Decisions
  BY RejectType, AcceptType
<1>2. /\ Reject(c).effects = {} /\ Reject(c).next = c
      /\ Accept(c, {}).effects = {} /\ Accept(c, {}).next = c
  BY DEF Reject, Accept
<1>3. /\ ~Ends(Reject(c)) /\ ~Ends(Accept(c, {}))
      /\ LeaseThen(Reject(c), l) = l /\ LeaseThen(Accept(c, {}), l) = l
      /\ AskedThen(Reject(c), g, asked) = asked
      /\ AskedThen(Accept(c, {}), g, asked) = asked
  BY <1>2 DEF Ends, LeaseThen, AskedThen
<1> QED BY <1>1, <1>2, <1>3 DEF Leads

LEMMA CleanFits ==
  ASSUME NEW state \in {"IDLE", "SAFETY_BLOCKED"} \cup RestingStates,
         NEW mode \in Modes,
         mode = "EMERGENCY_LATCHED" => state = "IDLE",
         NEW g, g \notin MovingStatuses, NEW asked
  PROVE  /\ CleanContext(state, mode).state = state
         /\ IsClean(CleanContext(state, mode))
         /\ Consistent(CleanContext(state, mode), g, asked, "none")
<1> DEFINE c == CleanContext(state, mode)
<1>1. /\ c.state = state /\ c.manager_mode = mode
      /\ c.cancel_intent = "NONE" /\ c.pending_outcome = "NONE"
      /\ c.cleanup = NoCleanup
  BY DEF CleanContext
<1>2. /\ ~NoCleanup.cleanup_failed /\ ~NoCleanup.lease_acquire_pending
      /\ ~NoCleanup.lease_was_active /\ ~NoCleanup.lease_release_required
      /\ ~NoCleanup.lease_release_confirmed
  BY DEF NoCleanup
<1> HIDE DEF c
<1>3. IsClean(c) BY <1>1 DEF IsClean
<1>4. ContextFits(c)
  BY <1>1, <1>2, <1>3 DEF ContextFits, RestingStates, MovingStates, Modes
<1>5. GoalFits(c, g, asked)
  BY <1>1 DEF GoalFits, RestingStates, MovingStates
<1>6. LeaseFits(c.cleanup, "none")
  BY <1>1, <1>2 DEF LeaseFits
<1>7. Consistent(c, g, asked, "none")
  BY <1>4, <1>5, <1>6 DEF Consistent
<1> QED BY <1>1, <1>3, <1>7 DEF c

\* Coming to rest without ending the execution.
LEMMA RestLeads ==
  ASSUME NEW c \in Contexts, c.state # "IDLE",
         NEW state \in {"SAFETY_BLOCKED", "PAUSED"},
         NEW g, g \notin MovingStatuses, NEW asked
  PROVE  Leads(c, Accept(CleanContext(state, "NORMAL"), {}), g, asked, "none")
<1> DEFINE d == Accept(CleanContext(state, "NORMAL"), {})
<1>1. d.effects = {} /\ d.next = CleanContext(state, "NORMAL")
  BY DEF Accept
<1>2. d \in Decisions
  BY CleanContextType, AcceptType DEF States, Modes
<1>3. /\ d.next.state = state
      /\ Consistent(d.next, g, AskedThen(d, g, asked), "none")
  BY <1>1, CleanFits DEF RestingStates, Modes
<1> HIDE DEF d
<1>4. ~Ends(d) /\ LeaseThen(d, "none") = "none"
  BY <1>1 DEF Ends, LeaseThen
<1>5. Leads(c, d, g, asked, "none")
  BY <1>2, <1>3, <1>4 DEF Leads
<1> QED BY <1>5 DEF d

\* Ending the execution, or, when nothing was active, staying idle.
LEMMA IdleLeads ==
  ASSUME NEW c \in Contexts, NEW mode \in Modes,
         NEW effects \in SUBSET (TerminalEffects \cup
                                 {"REQUEST_SAFETY_ESTOP", "START_RETURN_HOME"}),
         effects \cap TerminalEffects = {} => c.state = "IDLE",
         NEW g, g \notin MovingStatuses, NEW asked
  PROVE  Leads(c, Accept(CleanContext("IDLE", mode), effects), g, asked, "none")
<1> DEFINE d == Accept(CleanContext("IDLE", mode), effects)
<1>1. d.effects = effects /\ d.next = CleanContext("IDLE", mode)
  BY DEF Accept
<1>2. effects \in SUBSET Effects BY DEF Effects
<1>3. d \in Decisions
  BY <1>2, CleanContextType, AcceptType DEF States
<1>4. /\ d.next.state = "IDLE" /\ IsClean(d.next)
      /\ Consistent(d.next, g, AskedThen(d, g, asked), "none")
  BY <1>1, CleanFits
<1> HIDE DEF d
<1>5. /\ LeaseThen(d, "none") = "none"
      /\ "CANCEL_NAVIGATION" \notin d.effects
      /\ {"RELEASE_LEASE", "ACQUIRE_LEASE"} \cap d.effects = {}
  BY <1>1 DEF LeaseThen, TerminalEffects
<1>6. ~Ends(d) => c.state = "IDLE"
  BY <1>1 DEF Ends
<1>7. Leads(c, d, g, asked, "none")
  BY <1>3, <1>4, <1>5, <1>6 DEF Leads
<1> QED BY <1>7 DEF d

-----------------------------------------------------------------------------
(***************************************************************************)
(* Beginning, taking over and finishing a cancellation.                    *)
(***************************************************************************)

\* What the flags can be while the execution may own a goal and a lease.
LEMMA MovingFacts ==
  ASSUME NEW c \in Contexts, NEW g, NEW asked, NEW l,
         Consistent(c, g, asked, l), c.state \in MovingStates
  PROVE  /\ c.cleanup.navigation_submitted
         /\ ~c.cleanup.navigation_cancel_required
         /\ ~c.cleanup.navigation_cancel_confirmed
         /\ ~c.cleanup.lease_release_required
         /\ ~c.cleanup.lease_release_confirmed
         /\ ~c.cleanup.cleanup_failed
         /\ ~(c.cleanup.lease_acquire_pending /\ c.cleanup.lease_was_active)
         /\ ~asked /\ g # "orphaned"
         /\ LeaseFits(c.cleanup, l)
         /\ c.manager_mode = "NORMAL"
<1>1. c.cleanup \in { NavigationSubmitted,
                      [NavigationSubmitted EXCEPT !.lease_acquire_pending = TRUE],
                      [NavigationSubmitted EXCEPT !.lease_was_active = TRUE] }
  BY DEF Consistent, ContextFits, MovingStates
<1>2. ~asked /\ g # "orphaned" /\ c.manager_mode = "NORMAL"
  BY DEF Consistent, ContextFits, GoalFits, MovingStates, Contexts, Modes
<1> QED
  BY <1>1, <1>2 DEF NavigationSubmitted, NoCleanup, Consistent

LEMMA StartCancelingLeads ==
  ASSUME NEW c \in Contexts, NEW g, NEW asked \in BOOLEAN, NEW l,
         Consistent(c, g, asked, l), c.state \in MovingStates,
         NEW intent \in Intents,
         NEW outcome \in Outcomes \ {"NONE", "SUCCEEDED", "FAILED"}
  PROVE  Leads(c, StartCanceling(c, intent, outcome), g, asked, l)
<1> DEFINE k       == c.cleanup
           cleanup == [k EXCEPT
                         !.navigation_cancel_required = @ \/ k.navigation_submitted,
                         !.lease_release_required = @ \/ k.lease_was_active]
           d       == StartCanceling(c, intent, outcome)
<1>1. k \in CleanupContexts BY DEF Contexts
<1>2. /\ cleanup.navigation_cancel_required
           <=> k.navigation_cancel_required \/ k.navigation_submitted
      /\ cleanup.lease_release_required
           <=> k.lease_release_required \/ k.lease_was_active
      /\ cleanup.navigation_cancel_confirmed = k.navigation_cancel_confirmed
      /\ cleanup.lease_acquire_pending = k.lease_acquire_pending
      /\ cleanup.lease_was_active = k.lease_was_active
      /\ cleanup.lease_release_confirmed = k.lease_release_confirmed
      /\ cleanup.cleanup_failed = k.cleanup_failed
  BY <1>1 DEF CleanupContexts
<1>3. /\ d.next.state = "CANCELING"
      /\ d.next.manager_mode = c.manager_mode
      /\ d.next.pending_outcome = outcome
      /\ d.next.cleanup = cleanup
      /\ d.effects = EffectIf(CancelDue(k), "CANCEL_NAVIGATION")
                       \cup EffectIf(ReleaseDue(k), "RELEASE_LEASE")
  BY DEF StartCanceling, Accept, Contexts
<1>4. /\ k.navigation_submitted
      /\ ~k.navigation_cancel_required /\ ~k.navigation_cancel_confirmed
      /\ ~k.lease_release_required /\ ~k.lease_release_confirmed
      /\ ~k.cleanup_failed
      /\ ~(k.lease_acquire_pending /\ k.lease_was_active)
      /\ ~asked /\ g # "orphaned"
      /\ LeaseFits(k, l)
  BY MovingFacts
<1>5. d \in Decisions BY StartCancelingType
<1> HIDE DEF cleanup, d
<1>6. ~Ends(d)
  BY <1>3 DEF Ends, EffectIf, TerminalEffects
<1>7. ContextFits(d.next)
  BY <1>2, <1>3, <1>4 DEF ContextFits, Consistent, MovingStates, RestingStates
<1>8. GoalFits(d.next, g, AskedThen(d, g, asked))
  <2>1. g \in {"sent", "accepted", "over"}
    BY DEF Consistent, GoalFits, MovingStates
  <2>2. "CANCEL_NAVIGATION" \in d.effects
    BY <1>3, <1>4 DEF EffectIf, CancelDue
  <2> QED
    BY <1>2, <1>3, <1>4, <2>1, <2>2
       DEF GoalFits, AskedThen, AtRest, RestingStates, MovingStates,
           IsCleanSafetyBlocked
<1>9. LeaseFits(cleanup, LeaseThen(d, l))
  BY <1>2, <1>3, <1>4 DEF LeaseFits, LeaseThen, EffectIf, ReleaseDue
<1>10. Leads(c, d, g, asked, l)
  BY <1>3, <1>5, <1>6, <1>7, <1>8, <1>9 DEF Leads, Consistent, MovingStates
<1> QED BY <1>10 DEF d

LEMMA FinishCancelingLeads ==
  ASSUME NEW previous \in Contexts, NEW c \in Contexts,
         previous.state = "CANCELING", c.state = "CANCELING",
         NEW g, NEW asked \in BOOLEAN, NEW l, Consistent(c, g, asked, l)
  PROVE  Leads(previous, FinishCanceling(previous, c), g, asked, l)
<1> DEFINE k == c.cleanup
<1>1. CASE ~CleanupComplete(k)
  <2>1. Leads(c, Accept(c, {}), g, asked, l) BY UnchangedLeads
  <2>2. Leads(previous, Accept(c, {}), g, asked, l)
    BY <2>1 DEF Leads
  <2> QED BY <1>1, <2>2 DEF FinishCanceling
<1>2. CASE CleanupComplete(k)
  <2>1. ~k.cleanup_failed /\ LeaseFits(k, l)
    BY <1>2 DEF CleanupComplete, Consistent
  <2>2. k.lease_was_active => k.lease_release_required
    BY <2>1 DEF Consistent, ContextFits
  <2>3. l = "none"
    BY <1>2, <2>1, <2>2 DEF CleanupComplete, LeaseFits
  <2>4. g \notin MovingStatuses
    BY <1>2, <2>1 DEF CleanupComplete, Consistent, GoalFits
  <2>5. c.pending_outcome \in {"CANCELED", "PAUSED", "SAFETY_BLOCKED",
                               "EMERGENCY_STOPPED", "START_RETURN_HOME"}
    BY DEF Consistent, ContextFits, Contexts, Outcomes
  <2> USE <2>3, <2>4
  <2>6. \A state \in {"SAFETY_BLOCKED", "PAUSED"} :
          Leads(previous, Accept(CleanContext(state, "NORMAL"), {}), g, asked, l)
    BY RestLeads
  <2>7. /\ Leads(previous, Accept(CleanContext("IDLE", "NORMAL"),
                                  {"TERMINAL_CANCELED"}), g, asked, l)
        /\ Leads(previous, Accept(CleanContext("IDLE", "NORMAL"),
                                  {"TERMINAL_CANCELED", "START_RETURN_HOME"}),
                 g, asked, l)
        /\ Leads(previous, Accept(CleanContext("IDLE", "EMERGENCY_LATCHED"),
                                  {"TERMINAL_EMERGENCY_STOPPED"}), g, asked, l)
    BY IdleLeads DEF Modes, TerminalEffects
  <2> QED BY <1>2, <2>5, <2>6, <2>7 DEF FinishCanceling
<1> QED BY <1>1, <1>2

\* An ESTOP outside the resting states, which may take over a cancellation.
LEMMA EmergencyLeads ==
  ASSUME NEW c \in Contexts, NEW g, NEW asked \in BOOLEAN, NEW l,
         Consistent(c, g, asked, l), c.manager_mode = "NORMAL",
         c.state \in MovingStates \cup {"CANCELING", "FINALIZING", "SAFETY_BLOCKED"},
         ~IsCleanSafetyBlocked(c)
  PROVE  Leads(c, StartEmergencyCanceling(c, c.state # "FINALIZING"), g, asked, l)
<1> DEFINE request   == c.state # "FINALIZING"
           k         == c.cleanup
           cancel    == request /\ CancelDue(k)
           release   == request /\ ReleaseDue(k)
           cleanup   == [k EXCEPT !.navigation_cancel_required = @ \/ cancel,
                                  !.lease_release_required = @ \/ release]
           requested == {"REQUEST_SAFETY_ESTOP"}
                          \cup EffectIf(cancel, "CANCEL_NAVIGATION")
                          \cup EffectIf(release, "RELEASE_LEASE")
           next      == [state           |-> "CANCELING",
                         manager_mode    |-> "EMERGENCY_LATCHED",
                         cancel_intent   |-> "ESTOP",
                         pending_outcome |-> "EMERGENCY_STOPPED",
                         cleanup         |-> cleanup]
           d         == StartEmergencyCanceling(c, request)
<1>0. d \in Decisions BY StartEmergencyCancelingType
<1>1. k \in CleanupContexts BY DEF Contexts
<1>2. /\ cleanup.navigation_cancel_required <=> k.navigation_cancel_required \/ cancel
      /\ cleanup.lease_release_required <=> k.lease_release_required \/ release
      /\ cleanup.navigation_submitted = k.navigation_submitted
      /\ cleanup.navigation_cancel_confirmed = k.navigation_cancel_confirmed
      /\ cleanup.lease_acquire_pending = k.lease_acquire_pending
      /\ cleanup.lease_was_active = k.lease_was_active
      /\ cleanup.lease_release_confirmed = k.lease_release_confirmed
      /\ cleanup.cleanup_failed = k.cleanup_failed
  <2> HIDE DEF cancel, release
  <2> QED BY <1>1 DEF CleanupContexts
<1>3. /\ d.next = next \/ CleanupComplete(cleanup)
      /\ CleanupComplete(cleanup) =>
           d = Accept(CleanContext("IDLE", "EMERGENCY_LATCHED"),
                      requested \cup {"TERMINAL_EMERGENCY_STOPPED"})
      /\ ~CleanupComplete(cleanup) => d = Accept(next, requested)
  <2> HIDE DEF cleanup, requested
  <2> QED BY DEF StartEmergencyCanceling, Accept, cleanup, requested
<1> HIDE DEF cleanup, requested, d
<1>4. CASE CleanupComplete(cleanup)
  <2>1. ~k.cleanup_failed /\ LeaseFits(k, l)
    BY <1>2, <1>4 DEF CleanupComplete, Consistent
  <2>2. c.state \in {"CANCELING", "FINALIZING"}
    <3>1. CASE c.state \in MovingStates
      <4>1. cancel /\ ~k.navigation_cancel_confirmed
        BY <3>1, MovingFacts DEF CancelDue, MovingStates
      <4> QED BY <1>2, <1>4, <4>1 DEF CleanupComplete
    <3>2. CASE c.state = "SAFETY_BLOCKED"
      BY <2>1, <3>2 DEF Consistent, ContextFits, IsCleanSafetyBlocked
    <3> QED BY <3>1, <3>2
  <2>3. c.state # "FINALIZING"
    <3>1. SUFFICES ASSUME c.state = "FINALIZING" PROVE FALSE
      OBVIOUS
    <3>2. k.lease_release_required /\ ~k.lease_release_confirmed
      BY <3>1 DEF Consistent, ContextFits, NavigationSubmitted, NoCleanup
    <3> QED BY <1>2, <1>4, <3>2 DEF CleanupComplete
  <2>4. ~cancel /\ ~release
    BY <1>2, <1>4, <2>1, <2>2, <2>3
       DEF CleanupComplete, Consistent, ContextFits, CancelDue, ReleaseDue
  <2>5. l = "none" /\ g \notin MovingStatuses
    BY <1>2, <1>4, <2>1, <2>2, <2>3, <2>4
       DEF CleanupComplete, LeaseFits, Consistent, ContextFits, GoalFits
  <2>6. requested \cup {"TERMINAL_EMERGENCY_STOPPED"}
          = {"REQUEST_SAFETY_ESTOP", "TERMINAL_EMERGENCY_STOPPED"}
    BY <2>4 DEF requested, EffectIf
  <2>7. Leads(c, Accept(CleanContext("IDLE", "EMERGENCY_LATCHED"),
                        {"REQUEST_SAFETY_ESTOP", "TERMINAL_EMERGENCY_STOPPED"}),
              g, asked, l)
    BY <2>5, IdleLeads DEF Modes, TerminalEffects
  <2> QED BY <1>3, <1>4, <2>6, <2>7 DEF d
<1>5. CASE ~CleanupComplete(cleanup)
  <2>1. d.next = next /\ d.effects = requested
    BY <1>3, <1>5 DEF Accept
  <2>2. ~Ends(d)
    BY <2>1 DEF Ends, requested, EffectIf, TerminalEffects
  <2>3. /\ "CANCEL_NAVIGATION" \in d.effects <=> cancel
        /\ "RELEASE_LEASE" \in d.effects <=> release
        /\ "ACQUIRE_LEASE" \notin d.effects
    BY <2>1 DEF requested, EffectIf
  <2>4. /\ next.state = "CANCELING" /\ next.cleanup = cleanup
        /\ next.manager_mode = "EMERGENCY_LATCHED"
        /\ next.pending_outcome = "EMERGENCY_STOPPED"
    OBVIOUS
  <2> HIDE DEF next
  <2>5. ~k.cleanup_failed =>
          /\ ContextFits(next)
          /\ GoalFits(next, g, AskedThen(d, g, asked))
          /\ LeaseFits(cleanup, LeaseThen(d, l))
    <3> SUFFICES ASSUME ~k.cleanup_failed
                 PROVE  /\ ContextFits(next)
                        /\ GoalFits(next, g, AskedThen(d, g, asked))
                        /\ LeaseFits(cleanup, LeaseThen(d, l))
      OBVIOUS
    <3>1. CASE c.state \in MovingStates
      <4>1. /\ cancel /\ request
            /\ ~k.navigation_cancel_confirmed
            /\ ~k.lease_release_required /\ ~k.lease_release_confirmed
            /\ ~asked /\ g # "orphaned"
            /\ LeaseFits(k, l)
        BY <3>1, MovingFacts DEF CancelDue, MovingStates
      <4>2. g \in {"sent", "accepted", "over"}
        BY <3>1 DEF Consistent, GoalFits, MovingStates
      <4> QED
        BY <1>1, <1>2, <2>3, <2>4, <4>1, <4>2
           DEF ContextFits, GoalFits, LeaseFits, AtRest, RestingStates,
               MovingStates, IsCleanSafetyBlocked, AskedThen, LeaseThen,
               ReleaseDue, CleanupContexts
    <3>2. CASE c.state = "CANCELING"
      <4>1. /\ LeaseFits(k, l)
            /\ ContextFits(c) /\ GoalFits(c, g, asked)
        BY DEF Consistent
      <4>2. ContextFits(next)
        BY <1>1, <1>2, <2>3, <2>4, <3>2, <4>1
           DEF ContextFits, RestingStates, MovingStates, CleanupContexts
      <4>3. GoalFits(next, g, AskedThen(d, g, asked))
        BY <1>1, <1>2, <2>3, <2>4, <3>2, <4>1
           DEF GoalFits, ContextFits, AskedThen, AtRest, RestingStates,
               MovingStates, IsCleanSafetyBlocked, CancelDue, CleanupContexts
      <4>4. LeaseFits(cleanup, LeaseThen(d, l))
        BY <1>1, <1>2, <2>3, <3>2, <4>1
           DEF LeaseFits, LeaseThen, ReleaseDue, ContextFits, CleanupContexts
      <4> QED BY <4>2, <4>3, <4>4
    <3>3. CASE c.state = "FINALIZING"
      <4>1. /\ ~request /\ ~cancel /\ ~release
            /\ k.lease_was_active /\ k.lease_release_required
            /\ ~k.lease_release_confirmed /\ ~k.lease_acquire_pending
            /\ ~k.navigation_cancel_required /\ ~k.navigation_cancel_confirmed
            /\ g = "over" /\ l = "returning" /\ ~asked
        BY <3>3 DEF Consistent, ContextFits, GoalFits, LeaseFits,
                    NavigationSubmitted, NoCleanup
      <4> QED
        BY <1>1, <1>2, <2>3, <2>4, <4>1
           DEF ContextFits, GoalFits, LeaseFits, AtRest, RestingStates,
               MovingStates, MovingStatuses, IsCleanSafetyBlocked, AskedThen,
               LeaseThen, CleanupContexts
    <3> QED BY <3>1, <3>2, <3>3 DEF Consistent, ContextFits, IsCleanSafetyBlocked
  <2>6. k.cleanup_failed => /\ ContextFits(next)
                            /\ GoalFits(next, g, AskedThen(d, g, asked))
    BY <1>2, <2>4
       DEF ContextFits, GoalFits, AtRest, IsCleanSafetyBlocked, RestingStates,
           MovingStates
  <2>7. Consistent(next, g, AskedThen(d, g, asked), LeaseThen(d, l))
    <3>1. CASE k.cleanup_failed
      BY <1>2, <2>4, <2>6, <3>1 DEF Consistent
    <3>2. CASE ~k.cleanup_failed
      BY <1>2, <2>4, <2>5, <3>2 DEF Consistent
    <3> QED BY <3>1, <3>2
  <2>8. c.state # "IDLE"
    BY DEF MovingStates
  <2>9. Leads(c, d, g, asked, l)
    BY <1>0, <2>1, <2>2, <2>4, <2>7, <2>8 DEF Leads
  <2> QED BY <2>9 DEF d
<1> QED BY <1>4, <1>5

-----------------------------------------------------------------------------
(***************************************************************************)
(* The requests of the callers.                                            *)
(***************************************************************************)

LEMMA RestFacts ==
  ASSUME NEW c \in Contexts, NEW g, NEW asked, NEW l,
         Consistent(c, g, asked, l), AtRest(c)
  PROVE  g \notin MovingStatuses /\ l = "none"
<1>1. IsClean(c)
  BY DEF AtRest, Consistent, ContextFits, IsCleanSafetyBlocked
<1>2. c.cleanup = NoCleanup BY <1>1 DEF IsClean
<1> QED BY <1>2 DEF NoCleanup, Consistent, GoalFits, LeaseFits

LEMMA PauseLeads ==
  ASSUME NEW c \in Contexts, NEW g, NEW asked \in BOOLEAN, NEW l,
         Consistent(c, g, asked, l)
  PROVE  Leads(c, Transition(c, "PAUSE_REQUESTED"), g, asked, l)
<1>0. SUFFICES Leads(c, PauseRequested(c), g, asked, l)
  BY UnchangedLeads DEF Transition
<1>1. CASE c.state \in {"WAITING_TARGET", "PREPARING_GOAL"}
  <2>1. Leads(c, Accept(CleanContext("PAUSED", "NORMAL"), {}), g, asked, l)
    BY <1>1, RestFacts, RestLeads DEF AtRest, RestingStates
  <2> QED
    BY <1>1, <2>1 DEF PauseRequested, MovingStates
<1>2. CASE c.state \in MovingStates
  <2>1. Leads(c, StartCanceling(c, "PAUSE", "PAUSED"), g, asked, l)
    BY <1>2, StartCancelingLeads DEF Intents, Outcomes
  <2> QED
    BY <1>2, <2>1 DEF PauseRequested, MovingStates
<1>3. CASE c.state \notin MovingStates \cup {"WAITING_TARGET", "PREPARING_GOAL"}
  BY <1>3, UnchangedLeads DEF PauseRequested
<1> QED BY <1>1, <1>2, <1>3

LEMMA StopLeads ==
  ASSUME NEW c \in Contexts, NEW g, NEW asked \in BOOLEAN, NEW l,
         Consistent(c, g, asked, l)
  PROVE  Leads(c, Transition(c, "STOP_REQUESTED"), g, asked, l)
<1> DEFINE d == StopRequested(c)
<1>0. SUFFICES Leads(c, d, g, asked, l)
  BY UnchangedLeads DEF Transition
<1>1. CASE c.state \in RestingStates \/ IsCleanSafetyBlocked(c)
  <2>1. Leads(c, Accept(CleanContext("IDLE", "NORMAL"), {"TERMINAL_CANCELED"}),
              g, asked, l)
    BY <1>1, RestFacts, IdleLeads DEF AtRest, Modes, TerminalEffects
  <2>2. c.state \notin MovingStates \cup {"FINALIZING"}
    BY <1>1 DEF MovingStates, RestingStates, IsCleanSafetyBlocked
  <2> QED BY <1>1, <2>1, <2>2 DEF StopRequested, EndExecution
<1>2. CASE c.state \in MovingStates
  <2>1. Leads(c, StartCanceling(c, "STOP", "CANCELED"), g, asked, l)
    BY <1>2, StartCancelingLeads DEF Intents, Outcomes
  <2>2. ~(c.state \in RestingStates \/ IsCleanSafetyBlocked(c)) /\ c.state # "FINALIZING"
    BY <1>2 DEF MovingStates, RestingStates, IsCleanSafetyBlocked
  <2> QED BY <1>2, <2>1, <2>2 DEF StopRequested, EndExecution
<1>3. CASE c.state = "FINALIZING"
  <2> DEFINE next == [c EXCEPT !.state = "CANCELING", !.cancel_intent = "STOP",
                               !.pending_outcome = "CANCELED"]
  <2>1. d = Accept(next, {})
    BY <1>3 DEF StopRequested, EndExecution, RestingStates, MovingStates,
                IsCleanSafetyBlocked
  <2>2. d.next = next /\ d.effects = {}
    BY <2>1 DEF Accept
  <2>3. /\ next.state = "CANCELING" /\ next.pending_outcome = "CANCELED"
        /\ next.cleanup = c.cleanup /\ next.manager_mode = c.manager_mode
    BY DEF Contexts
  <2>4. d \in Decisions BY RequestType
  <2>5. /\ g = "over" /\ ~asked
        /\ LeaseFits(c.cleanup, l)
        /\ c.cleanup = [NavigationSubmitted EXCEPT !.lease_was_active = TRUE,
                                                   !.lease_release_required = TRUE]
    BY <1>3 DEF Consistent, ContextFits, GoalFits
  <2> HIDE DEF next, d
  <2>6. ~Ends(d) /\ LeaseThen(d, l) = l /\ AskedThen(d, g, asked) = asked
    BY <2>2 DEF Ends, LeaseThen, AskedThen
  <2>7. ContextFits(next)
    BY <2>3, <2>5
       DEF ContextFits, RestingStates, MovingStates, NavigationSubmitted, NoCleanup
  <2>8. GoalFits(next, g, asked)
    BY <2>3, <2>5
       DEF GoalFits, AtRest, RestingStates, MovingStates, MovingStatuses,
           IsCleanSafetyBlocked
  <2> QED
    BY <1>3, <2>2, <2>3, <2>4, <2>5, <2>6, <2>7, <2>8 DEF Leads, Consistent
<1>4. CASE /\ ~(c.state \in RestingStates \/ IsCleanSafetyBlocked(c))
           /\ c.state \notin MovingStates \cup {"FINALIZING"}
  BY <1>4, UnchangedLeads DEF StopRequested, EndExecution
<1> QED BY <1>1, <1>2, <1>3, <1>4

LEMMA EstopLeads ==
  ASSUME NEW c \in Contexts, NEW g, NEW asked \in BOOLEAN, NEW l,
         Consistent(c, g, asked, l)
  PROVE  Leads(c, Transition(c, "ESTOP_REQUESTED"), g, asked, l)
<1>0. SUFFICES Leads(c, EstopRequested(c), g, asked, l)
  BY DEF Transition
<1>1. CASE c.manager_mode = "EMERGENCY_LATCHED"
  BY <1>1, UnchangedLeads DEF EstopRequested
<1>2. CASE c.manager_mode = "NORMAL" /\ c.state = "IDLE"
  <2>1. Leads(c, Accept(CleanContext("IDLE", "EMERGENCY_LATCHED"),
                        {"REQUEST_SAFETY_ESTOP"}), g, asked, l)
    BY <1>2, RestFacts, IdleLeads DEF AtRest, Modes
  <2>2. ~(c.state \in RestingStates \/ IsCleanSafetyBlocked(c))
    BY <1>2 DEF RestingStates, IsCleanSafetyBlocked
  <2> QED BY <1>2, <2>1, <2>2 DEF EstopRequested
<1>3. CASE /\ c.manager_mode = "NORMAL"
           /\ c.state \in RestingStates \/ IsCleanSafetyBlocked(c)
  <2>1. Leads(c, Accept(CleanContext("IDLE", "EMERGENCY_LATCHED"),
                        {"REQUEST_SAFETY_ESTOP", "TERMINAL_EMERGENCY_STOPPED"}),
              g, asked, l)
    BY <1>3, RestFacts, IdleLeads DEF AtRest, Modes, TerminalEffects
  <2>2. c.state # "IDLE" /\ c.manager_mode # "EMERGENCY_LATCHED"
    BY <1>3 DEF RestingStates, IsCleanSafetyBlocked
  <2> QED BY <1>3, <2>1, <2>2 DEF EstopRequested
<1>4. CASE /\ c.manager_mode = "NORMAL" /\ c.state # "IDLE"
           /\ ~(c.state \in RestingStates \/ IsCleanSafetyBlocked(c))
  <2>1. c.state \in MovingStates \cup {"CANCELING", "FINALIZING", "SAFETY_BLOCKED"}
    BY <1>4 DEF Contexts, States, RestingStates, MovingStates
  <2>2. Leads(c, StartEmergencyCanceling(c, c.state # "FINALIZING"), g, asked, l)
    BY <1>4, <2>1, EmergencyLeads
  <2> QED BY <1>4, <2>2 DEF EstopRequested
<1> QED BY <1>1, <1>2, <1>3, <1>4 DEF Contexts, Modes

LEMMA ResetLeads ==
  ASSUME NEW c \in Contexts, NEW g, NEW asked \in BOOLEAN, NEW l,
         Consistent(c, g, asked, l)
  PROVE  Leads(c, Transition(c, "RESET_ESTOP_ALLOWED"), g, asked, l)
<1>0. SUFFICES Leads(c, ResetEstopAllowed(c), g, asked, l)
  BY DEF Transition
<1>1. CASE c.state = "IDLE"
  <2>1. Leads(c, Accept(CleanContext("IDLE", "NORMAL"), {}), g, asked, l)
    BY <1>1, RestFacts, IdleLeads DEF AtRest, Modes
  <2> QED BY <2>1, UnchangedLeads DEF ResetEstopAllowed
<1>2. CASE c.state # "IDLE"
  BY <1>2, UnchangedLeads DEF ResetEstopAllowed
<1> QED BY <1>1, <1>2

LEMMA TargetTimeoutLeads ==
  ASSUME NEW c \in Contexts, NEW g, NEW asked \in BOOLEAN, NEW l,
         Consistent(c, g, asked, l)
  PROVE  Leads(c, Transition(c, "TARGET_WAIT_TIMEOUT"), g, asked, l)
<1>0. SUFFICES Leads(c, TargetWaitTimeout(c), g, asked, l)
  BY UnchangedLeads DEF Transition
<1>1. CASE c.state = "WAITING_TARGET"
  <2>1. Leads(c, Accept(CleanContext("IDLE", "NORMAL"),
                        {"TERMINAL_TARGET_WAIT_TIMEOUT"}), g, asked, l)
    BY <1>1, RestFacts, IdleLeads DEF AtRest, RestingStates, Modes, TerminalEffects
  <2> QED BY <1>1, <2>1 DEF TargetWaitTimeout
<1>2. CASE c.state # "WAITING_TARGET"
  BY <1>2, UnchangedLeads DEF TargetWaitTimeout
<1> QED BY <1>1, <1>2

-----------------------------------------------------------------------------
(***************************************************************************)
(* The answers of the adapters: the goal or the lease changes, and the     *)
(* decision is made on the context as it was.                              *)
(***************************************************************************)

AdapterEvents == NavigationEvents \cup LeaseEvents

LEMMA AdapterRoute ==
  ASSUME NEW c \in Contexts, NEW event \in AdapterEvents
  PROVE  /\ Transition(c, event) \in {AdapterEvent(c, event), Reject(c)}
         /\ c.manager_mode = "NORMAL" =>
              Transition(c, event) = AdapterEvent(c, event)
         /\ c.state = "CANCELING" =>
              Transition(c, event) = Canceling(c, event)
<1>1. Transition(c, event) = IF PassesLatch(c, event) THEN AdapterEvent(c, event)
                                                      ELSE Reject(c)
  BY DEF AdapterEvents, NavigationEvents, LeaseEvents, Transition
<1>2. c.manager_mode = "NORMAL" => PassesLatch(c, event)
  BY DEF PassesLatch
<1>3. c.state = "CANCELING" => AdapterEvent(c, event) = Canceling(c, event)
  BY DEF AdapterEvent
<1>4. ASSUME c.state = "CANCELING", ~PassesLatch(c, event)
      PROVE  Canceling(c, event) = Reject(c)
  BY <1>4 DEF PassesLatch, AdapterEvents, NavigationEvents, LeaseEvents, Contexts,
              Modes, Canceling
<1> QED BY <1>1, <1>2, <1>3, <1>4

\* A cleanup step that failed: nothing is promised of goal and lease any more.
LEMMA CleanupFailedLeads ==
  ASSUME NEW c \in Contexts, c.state \in {"CANCELING", "FINALIZING"},
         NEW g, NEW asked \in BOOLEAN, NEW l
  PROVE  Leads(c, CleanupFailed(c), g, asked, l)
<1> DEFINE next == [c EXCEPT !.state = "SAFETY_BLOCKED",
                             !.cleanup = [@ EXCEPT !.cleanup_failed = TRUE]]
           d    == CleanupFailed(c)
<1>1. d \in Decisions BY CleanupFailedType
<1>2. d.next = next /\ d.effects = {}
  BY DEF CleanupFailed, Accept
<1>3. next.state = "SAFETY_BLOCKED" /\ next.cleanup.cleanup_failed
  BY DEF Contexts, CleanupContexts
<1>4. ~IsClean(next)
  BY <1>3 DEF IsClean, NoCleanup
<1> HIDE DEF next, d
<1>5. ContextFits(next) /\ GoalFits(next, g, asked)
  BY <1>3, <1>4
     DEF ContextFits, GoalFits, AtRest, RestingStates, MovingStates,
         IsCleanSafetyBlocked
<1>6. ~Ends(d) /\ AskedThen(d, g, asked) = asked /\ LeaseThen(d, l) = l
  BY <1>2 DEF Ends, AskedThen, LeaseThen
<1>7. Leads(c, d, g, asked, l)
  BY <1>1, <1>2, <1>3, <1>5, <1>6 DEF Leads, Consistent
<1> QED BY <1>7 DEF d

LEMMA GoalAcceptedLeads ==
  ASSUME NEW c \in Contexts, NEW asked \in BOOLEAN, NEW l,
         Consistent(c, "sent", asked, l)
  PROVE  Leads(c, Transition(c, "NAV_GOAL_ACCEPTED"), "accepted", asked, l)
<1> DEFINE ev == "NAV_GOAL_ACCEPTED"
<1>1. Transition(c, ev) \in {AdapterEvent(c, ev), Reject(c)}
  BY AdapterRoute DEF AdapterEvents, NavigationEvents
<1>2. CASE c.state = "NAVIGATION_STARTING"
  <2> DEFINE next == [c EXCEPT !.state = "LEASE_ACQUIRING",
                               !.cleanup = [@ EXCEPT !.lease_acquire_pending = TRUE]]
             d    == Accept(next, {"ACQUIRE_LEASE"})
  <2>1. Transition(c, ev) = d
    <3>1. c.manager_mode = "NORMAL"
      BY <1>2, MovingFacts DEF MovingStates
    <3> QED
      BY <1>2, <3>1, AdapterRoute
         DEF AdapterEvents, NavigationEvents, AdapterEvent, NavigationStarting
  <2>2. d \in Decisions BY <2>1, TransitionType
  <2>3. d.next = next /\ d.effects = {"ACQUIRE_LEASE"}
    BY DEF Accept
  <2>4. c.cleanup = NavigationSubmitted /\ ~asked /\ c.manager_mode = "NORMAL"
        /\ c.cancel_intent = "NONE" /\ c.pending_outcome = "NONE"
    BY <1>2, MovingFacts DEF Consistent, ContextFits, MovingStates
  <2>5. /\ next.state = "LEASE_ACQUIRING" /\ next.manager_mode = "NORMAL"
        /\ next.cancel_intent = "NONE" /\ next.pending_outcome = "NONE"
        /\ next.cleanup = [NavigationSubmitted EXCEPT !.lease_acquire_pending = TRUE]
    BY <2>4 DEF Contexts
  <2> HIDE DEF next, d
  <2>6. /\ ~Ends(d) /\ LeaseThen(d, l) = "asked"
        /\ AskedThen(d, "accepted", asked) = asked
    BY <2>3 DEF Ends, TerminalEffects, LeaseThen, AskedThen
  <2>7. Consistent(next, "accepted", asked, "asked")
    BY <2>4, <2>5
       DEF Consistent, ContextFits, GoalFits, LeaseFits, NavigationSubmitted,
           NoCleanup, AtRest, RestingStates, MovingStates, IsCleanSafetyBlocked
  <2> QED
    BY <1>2, <2>1, <2>2, <2>3, <2>5, <2>6, <2>7 DEF Leads
<1>3. CASE c.state # "NAVIGATION_STARTING"
  <2>1. c.state \in {"CANCELING", "SAFETY_BLOCKED"}
    BY <1>3 DEF Contexts, States, Consistent, GoalFits, AtRest, RestingStates,
                MovingStates, MovingStatuses
  <2>2. AdapterEvent(c, ev) = Reject(c)
    BY <2>1 DEF AdapterEvent, Canceling
  <2>3. Consistent(c, "accepted", asked, l)
    BY <2>1 DEF Consistent, GoalFits, AtRest, RestingStates, MovingStates,
                MovingStatuses
  <2> QED BY <1>1, <2>2, <2>3, UnchangedLeads
<1> QED BY <1>2, <1>3

\* The goal ends while the context does not react to it.
LEMMA OverFits ==
  ASSUME NEW c \in Contexts, NEW g \in MovingStatuses, NEW asked \in BOOLEAN, NEW l,
         Consistent(c, g, asked, l), c.state # "NAVIGATION_STARTING"
  PROVE  Consistent(c, "over", asked, l)
BY DEF Consistent, GoalFits, AtRest, RestingStates, MovingStates, MovingStatuses

\* Once a step failed neither the goal nor the lease matters.
LEMMA BlockedFits ==
  ASSUME NEW c \in Contexts, NEW g, NEW asked, NEW l, Consistent(c, g, asked, l),
         c.cleanup.cleanup_failed,
         NEW g2, NEW asked2, NEW l2
  PROVE  Consistent(c, g2, asked2, l2)
<1>1. c.state \in {"SAFETY_BLOCKED", "CANCELING"}
  BY DEF Consistent, ContextFits
<1>2. ~IsCleanSafetyBlocked(c)
  BY DEF IsCleanSafetyBlocked, IsClean, NoCleanup
<1> QED
  BY <1>1, <1>2 DEF Consistent, GoalFits, AtRest, RestingStates, MovingStates

\* While a goal may move, or a lease is on its way, the execution is not at rest.
LEMMA BusyStates ==
  ASSUME NEW c \in Contexts, NEW g, NEW asked \in BOOLEAN, NEW l,
         Consistent(c, g, asked, l), g \in MovingStatuses \/ l # "none"
  PROVE  /\ c.state \in MovingStates \cup {"FINALIZING", "CANCELING", "SAFETY_BLOCKED"}
         /\ c.state = "SAFETY_BLOCKED" => c.cleanup.cleanup_failed
         /\ c.state = "FINALIZING" => g \notin MovingStatuses
<1>1. ~AtRest(c) BY RestFacts
<1>2. c.state \in MovingStates \cup {"FINALIZING", "CANCELING", "SAFETY_BLOCKED"}
  BY <1>1 DEF AtRest, RestingStates, MovingStates, Contexts, States
<1>3. c.state = "SAFETY_BLOCKED" => c.cleanup.cleanup_failed
  BY <1>1 DEF AtRest, IsCleanSafetyBlocked, Consistent, ContextFits
<1>4. c.state = "FINALIZING" => g \notin MovingStatuses
  BY DEF Consistent, GoalFits, MovingStatuses
<1> QED BY <1>2, <1>3, <1>4

LEMMA NavigationStoppedLeads ==
  ASSUME NEW c \in Contexts, c.state = "CANCELING",
         NEW g \in {"sent", "accepted"}, NEW asked \in BOOLEAN, NEW l,
         Consistent(c, g, asked, l)
  PROVE  Leads(c, NavigationStopped(c), "over", asked, l)
<1> DEFINE k    == c.cleanup
           due  == k.navigation_cancel_required /\ ~k.navigation_cancel_confirmed
           next == [c EXCEPT !.cleanup =
                      [@ EXCEPT !.navigation_cancel_confirmed = TRUE]]
<1>1. Consistent(c, "over", asked, l)
  BY OverFits DEF MovingStatuses
<1>2. CASE due
  <2>1. next \in Contexts /\ next.state = "CANCELING"
    BY DEF Contexts, CleanupContexts
  <2>2. /\ next.manager_mode = c.manager_mode
        /\ next.pending_outcome = c.pending_outcome
        /\ next.cleanup.navigation_cancel_required = k.navigation_cancel_required
        /\ next.cleanup.navigation_cancel_confirmed
        /\ next.cleanup.lease_acquire_pending = k.lease_acquire_pending
        /\ next.cleanup.lease_was_active = k.lease_was_active
        /\ next.cleanup.lease_release_required = k.lease_release_required
        /\ next.cleanup.lease_release_confirmed = k.lease_release_confirmed
        /\ next.cleanup.cleanup_failed = k.cleanup_failed
    BY DEF Contexts, CleanupContexts
  <2> HIDE DEF next
  <2>3. ContextFits(next)
    BY <1>1, <1>2, <2>1, <2>2
       DEF Consistent, ContextFits, RestingStates, MovingStates
  <2>4. GoalFits(next, "over", asked)
    BY <1>2, <2>1, <2>2
       DEF GoalFits, AtRest, IsCleanSafetyBlocked, RestingStates, MovingStates,
           MovingStatuses
  <2>5. ~k.cleanup_failed => LeaseFits(next.cleanup, l)
    BY <1>1, <2>2 DEF Consistent, LeaseFits
  <2>6. Consistent(next, "over", asked, l)
    BY <2>2, <2>3, <2>4, <2>5 DEF Consistent
  <2>7. Leads(c, FinishCanceling(c, next), "over", asked, l)
    BY <2>1, <2>6, FinishCancelingLeads
  <2> QED BY <1>2, <2>7 DEF NavigationStopped, next
<1>3. CASE ~due
  BY <1>1, <1>3, UnchangedLeads DEF NavigationStopped
<1> QED BY <1>2, <1>3

LEMMA GoalRejectedLeads ==
  ASSUME NEW c \in Contexts, NEW asked \in BOOLEAN, NEW l,
         Consistent(c, "sent", asked, l)
  PROVE  Leads(c, Transition(c, "NAV_GOAL_REJECTED"), "over", asked, l)
<1> DEFINE ev == "NAV_GOAL_REJECTED"
<1>0. ev \in AdapterEvents BY DEF AdapterEvents, NavigationEvents
<1>1. CASE c.state = "NAVIGATION_STARTING"
  <2>1. c.manager_mode = "NORMAL"
    BY <1>1, MovingFacts DEF MovingStates
  <2>2. l = "none"
    BY <1>1 DEF Consistent, ContextFits, LeaseFits, NavigationSubmitted, NoCleanup
  <2>3. Leads(c, Accept(CleanContext("IDLE", "NORMAL"), {"TERMINAL_FAILED"}),
              "over", asked, l)
    BY <2>2, IdleLeads DEF Modes, TerminalEffects, MovingStatuses
  <2> QED
    BY <1>0, <1>1, <2>1, <2>3, AdapterRoute DEF AdapterEvent, NavigationStarting
<1>2. CASE c.state = "CANCELING"
  <2>1. Transition(c, ev) = NavigationStopped(c)
    BY <1>0, <1>2, AdapterRoute DEF Canceling
  <2> QED BY <1>2, <2>1, NavigationStoppedLeads
<1>3. CASE c.state \notin {"NAVIGATION_STARTING", "CANCELING"}
  <2>1. c.state = "SAFETY_BLOCKED"
    BY <1>3, BusyStates DEF MovingStates, MovingStatuses, Consistent, GoalFits
  <2>2. Transition(c, ev) = Reject(c)
    BY <1>0, <2>1, AdapterRoute DEF AdapterEvent
  <2>3. Consistent(c, "over", asked, l)
    BY <1>3, OverFits DEF MovingStatuses
  <2> QED BY <2>2, <2>3, UnchangedLeads
<1> QED BY <1>1, <1>2, <1>3

LEMMA CancelConfirmedLeads ==
  ASSUME NEW c \in Contexts, NEW l, Consistent(c, "accepted", TRUE, l)
  PROVE  Leads(c, Transition(c, "NAV_CANCEL_CONFIRMED"), "over", TRUE, l)
<1> DEFINE ev == "NAV_CANCEL_CONFIRMED"
<1>0. ev \in AdapterEvents BY DEF AdapterEvents, NavigationEvents
<1>1. c.state \in {"CANCELING", "SAFETY_BLOCKED"}
  BY BusyStates DEF MovingStatuses, Consistent, GoalFits
<1>2. CASE c.state = "CANCELING"
  <2>1. Transition(c, ev) = NavigationStopped(c)
    BY <1>0, <1>2, AdapterRoute DEF Canceling
  <2> QED BY <1>2, <2>1, NavigationStoppedLeads
<1>3. CASE c.state = "SAFETY_BLOCKED"
  <2>1. Transition(c, ev) = Reject(c)
    BY <1>0, <1>3, AdapterRoute DEF AdapterEvent
  <2>2. Consistent(c, "over", TRUE, l)
    BY <1>3, OverFits DEF MovingStatuses
  <2> QED BY <2>1, <2>2, UnchangedLeads
<1> QED BY <1>1, <1>2, <1>3

LEMMA CancelFailedLeads ==
  ASSUME NEW c \in Contexts, NEW g \in {"orphaned", "over"}, NEW l,
         Consistent(c, "accepted", TRUE, l)
  PROVE  Leads(c, Transition(c, "NAV_CANCEL_FAILED"), g, TRUE, l)
<1> DEFINE ev == "NAV_CANCEL_FAILED"
<1>0. ev \in AdapterEvents BY DEF AdapterEvents, NavigationEvents
<1>1. c.state \in {"CANCELING", "SAFETY_BLOCKED"}
  BY BusyStates DEF MovingStatuses, Consistent, GoalFits
<1>2. CASE c.state = "CANCELING" /\ c.cleanup.navigation_cancel_required
  <2>1. Transition(c, ev) = CleanupFailed(c)
    BY <1>0, <1>2, AdapterRoute DEF Canceling
  <2> QED BY <1>2, <2>1, CleanupFailedLeads
<1>3. CASE ~(c.state = "CANCELING" /\ c.cleanup.navigation_cancel_required)
  <2>1. c.cleanup.cleanup_failed
    BY <1>1, <1>3, BusyStates DEF MovingStatuses, Consistent, GoalFits
  <2>2. Transition(c, ev) = Reject(c)
    BY <1>0, <1>1, <1>3, AdapterRoute DEF AdapterEvent, Canceling
  <2>3. Consistent(c, g, TRUE, l)
    BY <2>1, BlockedFits
  <2> QED BY <2>2, <2>3, UnchangedLeads
<1> QED BY <1>2, <1>3

\* The goal succeeded or failed on its own.
LEMMA GoalEndedLeads ==
  ASSUME NEW c \in Contexts, NEW event \in {"NAV_SUCCEEDED", "NAV_FAILED"},
         NEW asked \in BOOLEAN, NEW l, Consistent(c, "accepted", asked, l)
  PROVE  Leads(c, Transition(c, event), "over", asked, l)
<1>0. event \in AdapterEvents BY DEF AdapterEvents, NavigationEvents
<1>1. c.state # "NAVIGATION_STARTING" BY DEF Consistent, GoalFits
<1>2. Consistent(c, "over", asked, l)
  BY <1>1, OverFits DEF MovingStatuses
<1>3. CASE c.state = "EXECUTING"
  <2> DEFINE outcome == IF event = "NAV_SUCCEEDED" THEN "SUCCEEDED" ELSE "FAILED"
             next == [c EXCEPT !.state = "FINALIZING",
                               !.pending_outcome = outcome,
                               !.cleanup = [@ EXCEPT !.lease_release_required = TRUE]]
             d    == Accept(next, {"RELEASE_LEASE"})
  <2>1. c.manager_mode = "NORMAL" /\ ~asked
    BY <1>3, MovingFacts DEF MovingStates
  <2>2. Transition(c, event) = d
    BY <1>0, <1>3, <2>1, AdapterRoute DEF AdapterEvent, Executing
  <2>3. d \in Decisions BY <2>2, TransitionType
  <2>4. d.next = next /\ d.effects = {"RELEASE_LEASE"}
    BY DEF Accept
  <2>5. c.cleanup = [NavigationSubmitted EXCEPT !.lease_was_active = TRUE]
    BY <1>3 DEF Consistent, ContextFits
  <2>6. /\ next.state = "FINALIZING" /\ next.manager_mode = "NORMAL"
        /\ next.pending_outcome \in {"SUCCEEDED", "FAILED"}
        /\ next.cleanup = [NavigationSubmitted EXCEPT !.lease_was_active = TRUE,
                                                      !.lease_release_required = TRUE]
    <3> HIDE DEF outcome
    <3>1. outcome \in {"SUCCEEDED", "FAILED"} BY DEF outcome
    <3> QED BY <2>1, <2>5, <3>1 DEF Contexts, NavigationSubmitted, NoCleanup
  <2> HIDE DEF next, d
  <2>7. /\ ~Ends(d) /\ LeaseThen(d, l) = "returning"
        /\ AskedThen(d, "over", asked) = asked
    BY <2>4 DEF Ends, TerminalEffects, LeaseThen, AskedThen
  <2>8. ContextFits(next)
    BY <2>6 DEF ContextFits, RestingStates, MovingStates, NavigationSubmitted, NoCleanup
  <2>9. GoalFits(next, "over", asked)
    BY <2>1, <2>6
       DEF GoalFits, AtRest, IsCleanSafetyBlocked, RestingStates, MovingStates,
           MovingStatuses
  <2>10. LeaseFits(next.cleanup, "returning")
    BY <2>6 DEF LeaseFits, NavigationSubmitted, NoCleanup
  <2> QED
    BY <1>3, <2>2, <2>3, <2>4, <2>6, <2>7, <2>8, <2>9, <2>10 DEF Leads, Consistent
<1>4. CASE c.state # "EXECUTING"
  <2>1. c.state \in {"LEASE_ACQUIRING", "CANCELING", "SAFETY_BLOCKED"}
    BY <1>1, <1>4, BusyStates DEF MovingStates, MovingStatuses
  <2>2. AdapterEvent(c, event) = Reject(c)
    BY <2>1 DEF AdapterEvent, Canceling, LeaseAcquiring
  <2>3. Transition(c, event) = Reject(c)
    BY <1>0, <2>2, AdapterRoute
  <2> QED BY <1>2, <2>3, UnchangedLeads
<1> QED BY <1>3, <1>4

\* Cleanup contexts are equal when their flags are.
LEMMA SameFlags ==
  ASSUME NEW k \in CleanupContexts, NEW m \in CleanupContexts,
         k.navigation_submitted = m.navigation_submitted,
         k.navigation_cancel_required = m.navigation_cancel_required,
         k.navigation_cancel_confirmed = m.navigation_cancel_confirmed,
         k.lease_acquire_pending = m.lease_acquire_pending,
         k.lease_was_active = m.lease_was_active,
         k.lease_release_required = m.lease_release_required,
         k.lease_release_confirmed = m.lease_release_confirmed,
         k.cleanup_failed = m.cleanup_failed
  PROVE  k = m
BY DEF CleanupContexts

LEMMA LeaseAcquiredLeads ==
  ASSUME NEW c \in Contexts, NEW g \in GoalStatuses, NEW asked \in BOOLEAN,
         Consistent(c, g, asked, "asked")
  PROVE  Leads(c, Transition(c, "LEASE_ACQUIRED"), g, asked, "held")
<1> DEFINE ev == "LEASE_ACQUIRED"
           k  == c.cleanup
<1>0. ev \in AdapterEvents BY DEF AdapterEvents, LeaseEvents
<1>1. c.state \in MovingStates \cup {"FINALIZING", "CANCELING", "SAFETY_BLOCKED"}
  BY BusyStates
<1>2. c.state \in {"LEASE_ACQUIRING", "CANCELING", "SAFETY_BLOCKED"}
  BY <1>1 DEF MovingStates, Consistent, ContextFits, LeaseFits,
              NavigationSubmitted, NoCleanup
<1>3. CASE c.state = "LEASE_ACQUIRING"
  <2> DEFINE next == [c EXCEPT !.state = "EXECUTING",
                               !.cleanup = [@ EXCEPT !.lease_acquire_pending = FALSE,
                                                     !.lease_was_active = TRUE]]
             d    == Accept(next, {})
  <2>1. /\ c.manager_mode = "NORMAL" /\ ~asked /\ g \in {"accepted", "over"}
        /\ c.cancel_intent = "NONE" /\ c.pending_outcome = "NONE"
        /\ c.cleanup = [NavigationSubmitted EXCEPT !.lease_acquire_pending = TRUE]
    BY <1>3, MovingFacts DEF Consistent, ContextFits, GoalFits, MovingStates
  <2>2. Transition(c, ev) = d
    BY <1>0, <1>3, <2>1, AdapterRoute DEF AdapterEvent, LeaseAcquiring
  <2>3. d \in Decisions BY <2>2, TransitionType
  <2>4. d.next = next /\ d.effects = {}
    BY DEF Accept
  <2>5. /\ next.state = "EXECUTING" /\ next.manager_mode = "NORMAL"
        /\ next.cancel_intent = "NONE" /\ next.pending_outcome = "NONE"
        /\ next.cleanup = [NavigationSubmitted EXCEPT !.lease_was_active = TRUE]
    <3>1. /\ next.state = "EXECUTING" /\ next.manager_mode = "NORMAL"
          /\ next.cancel_intent = "NONE" /\ next.pending_outcome = "NONE"
          /\ next.cleanup = [c.cleanup EXCEPT !.lease_acquire_pending = FALSE,
                                              !.lease_was_active = TRUE]
      BY <2>1 DEF Contexts
    <3>2. [[NavigationSubmitted EXCEPT !.lease_acquire_pending = TRUE]
             EXCEPT !.lease_acquire_pending = FALSE, !.lease_was_active = TRUE]
          = [NavigationSubmitted EXCEPT !.lease_was_active = TRUE]
      <4> DEFINE k1 == [NavigationSubmitted EXCEPT !.lease_acquire_pending = TRUE]
                 k2 == [k1 EXCEPT !.lease_acquire_pending = FALSE,
                                  !.lease_was_active = TRUE]
                 k3 == [NavigationSubmitted EXCEPT !.lease_was_active = TRUE]
      <4>1. /\ NavigationSubmitted \in CleanupContexts
            /\ ~NavigationSubmitted.lease_acquire_pending
        BY DEF NavigationSubmitted, NoCleanup, CleanupContexts
      <4>2. k2 \in CleanupContexts /\ k3 \in CleanupContexts
        BY <4>1 DEF CleanupContexts
      <4>3. /\ k2.navigation_submitted = k3.navigation_submitted
            /\ k2.navigation_cancel_required = k3.navigation_cancel_required
            /\ k2.navigation_cancel_confirmed = k3.navigation_cancel_confirmed
            /\ k2.lease_acquire_pending = k3.lease_acquire_pending
        BY <4>1 DEF CleanupContexts
      <4>4. /\ k2.lease_was_active = k3.lease_was_active
            /\ k2.lease_release_required = k3.lease_release_required
            /\ k2.lease_release_confirmed = k3.lease_release_confirmed
            /\ k2.cleanup_failed = k3.cleanup_failed
        BY <4>1 DEF CleanupContexts
      <4> HIDE DEF k2, k3
      <4>5. k2 = k3
        BY <4>2, <4>3, <4>4, SameFlags
      <4> QED BY <4>5 DEF k2, k3
    <3> HIDE DEF next
    <3> QED BY <2>1, <3>1, <3>2
  <2> HIDE DEF next, d
  <2>6. ~Ends(d) /\ LeaseThen(d, "held") = "held" /\ AskedThen(d, g, asked) = asked
    BY <2>4 DEF Ends, LeaseThen, AskedThen
  <2>7. Consistent(next, g, asked, "held")
    BY <2>1, <2>5
       DEF Consistent, ContextFits, GoalFits, LeaseFits, NavigationSubmitted,
           NoCleanup, AtRest, RestingStates, MovingStates, IsCleanSafetyBlocked
  <2> QED BY <1>3, <2>2, <2>3, <2>4, <2>5, <2>6, <2>7 DEF Leads
<1>4. CASE c.state = "CANCELING" /\ k.lease_acquire_pending
  <2> DEFINE next == [c EXCEPT !.cleanup =
                        [@ EXCEPT !.lease_acquire_pending = FALSE,
                                  !.lease_was_active = TRUE,
                                  !.lease_release_required = TRUE,
                                  !.lease_release_confirmed = FALSE]]
             d    == Accept(next, {"RELEASE_LEASE"})
  <2>1. Transition(c, ev) = d
    BY <1>0, <1>4, AdapterRoute DEF Canceling, AcquiredInCanceling
  <2>2. d \in Decisions BY <2>1, TransitionType
  <2>3. d.next = next /\ d.effects = {"RELEASE_LEASE"}
    BY DEF Accept
  <2>4. /\ next.state = "CANCELING"
        /\ next.manager_mode = c.manager_mode
        /\ next.pending_outcome = c.pending_outcome
        /\ next.cleanup.navigation_cancel_required = k.navigation_cancel_required
        /\ next.cleanup.navigation_cancel_confirmed = k.navigation_cancel_confirmed
        /\ ~next.cleanup.lease_acquire_pending
        /\ next.cleanup.lease_was_active
        /\ next.cleanup.lease_release_required
        /\ ~next.cleanup.lease_release_confirmed
        /\ next.cleanup.cleanup_failed = k.cleanup_failed
    BY <1>4 DEF Contexts, CleanupContexts
  <2> HIDE DEF next, d
  <2>5. /\ ~Ends(d) /\ LeaseThen(d, "held") = "returning"
        /\ AskedThen(d, g, asked) = asked
    BY <2>3 DEF Ends, TerminalEffects, LeaseThen, AskedThen
  <2>6. ContextFits(next)
    BY <1>4, <2>4 DEF Consistent, ContextFits, RestingStates, MovingStates
  <2>7. GoalFits(next, g, asked)
    BY <1>4, <2>4
       DEF Consistent, GoalFits, AtRest, IsCleanSafetyBlocked, RestingStates,
           MovingStates
  <2>8. LeaseFits(next.cleanup, "returning")
    BY <2>4 DEF LeaseFits
  <2> QED
    BY <1>4, <2>1, <2>2, <2>3, <2>4, <2>5, <2>6, <2>7, <2>8 DEF Leads, Consistent
<1>5. CASE /\ c.state \in {"CANCELING", "SAFETY_BLOCKED"}
           /\ ~(c.state = "CANCELING" /\ k.lease_acquire_pending)
  <2>1. k.cleanup_failed
    BY <1>5, BusyStates DEF Consistent, ContextFits, LeaseFits
  <2>2. Transition(c, ev) = Reject(c)
    BY <1>0, <1>5, AdapterRoute DEF AdapterEvent, Canceling, AcquiredInCanceling
  <2>3. Consistent(c, g, asked, "held")
    BY <2>1, BlockedFits
  <2> QED BY <2>2, <2>3, UnchangedLeads
<1> QED BY <1>2, <1>3, <1>4, <1>5

LEMMA LeaseAcquireFailedLeads ==
  ASSUME NEW c \in Contexts, NEW g \in GoalStatuses, NEW asked \in BOOLEAN,
         Consistent(c, g, asked, "asked")
  PROVE  Leads(c, Transition(c, "LEASE_ACQUIRE_FAILED"), g, asked, "none")
<1> DEFINE ev == "LEASE_ACQUIRE_FAILED"
           k  == c.cleanup
<1>0. ev \in AdapterEvents BY DEF AdapterEvents, LeaseEvents
<1>1. c.state \in MovingStates \cup {"FINALIZING", "CANCELING", "SAFETY_BLOCKED"}
  BY BusyStates
<1>2. c.state \in {"LEASE_ACQUIRING", "CANCELING", "SAFETY_BLOCKED"}
  BY <1>1 DEF MovingStates, Consistent, ContextFits, LeaseFits,
              NavigationSubmitted, NoCleanup
<1>3. CASE c.state = "LEASE_ACQUIRING"
  <2> DEFINE cleanup == [NoCleanup EXCEPT !.navigation_submitted = TRUE,
                                          !.navigation_cancel_required = TRUE]
             next == [c EXCEPT !.state = "CANCELING",
                               !.cancel_intent = "SAFETY_BLOCK",
                               !.pending_outcome = "SAFETY_BLOCKED",
                               !.cleanup = cleanup]
             d    == Accept(next, {"CANCEL_NAVIGATION"})
  <2>1. c.manager_mode = "NORMAL" /\ g # "orphaned"
    BY <1>3, MovingFacts DEF MovingStates
  <2>2. Transition(c, ev) = d
    BY <1>0, <1>3, <2>1, AdapterRoute DEF AdapterEvent, LeaseAcquiring
  <2>3. d \in Decisions BY <2>2, TransitionType
  <2>4. d.next = next /\ d.effects = {"CANCEL_NAVIGATION"}
    BY DEF Accept
  <2>5. /\ cleanup.navigation_cancel_required
        /\ ~cleanup.navigation_cancel_confirmed
        /\ ~cleanup.lease_acquire_pending /\ ~cleanup.lease_was_active
        /\ ~cleanup.lease_release_required /\ ~cleanup.lease_release_confirmed
        /\ ~cleanup.cleanup_failed
    BY DEF NoCleanup
  <2>6. /\ next.state = "CANCELING" /\ next.manager_mode = "NORMAL"
        /\ next.pending_outcome = "SAFETY_BLOCKED"
        /\ next.cleanup = cleanup
    BY <2>1 DEF Contexts
  <2> HIDE DEF cleanup, next, d
  <2>7. ~Ends(d) /\ LeaseThen(d, "none") = "none"
    BY <2>4 DEF Ends, TerminalEffects, LeaseThen
  <2>8. ContextFits(next)
    BY <2>5, <2>6 DEF ContextFits, RestingStates, MovingStates
  <2>9. GoalFits(next, g, AskedThen(d, g, asked))
    <3>1. g \in {"accepted", "over"} BY <1>3 DEF Consistent, GoalFits
    <3>2. AskedThen(d, g, asked) <=> asked \/ g = "accepted"
      BY <2>4, <3>1 DEF AskedThen
    <3> QED
      BY <2>1, <2>5, <2>6, <3>1, <3>2
         DEF GoalFits, AtRest, IsCleanSafetyBlocked, RestingStates, MovingStates
  <2>10. LeaseFits(next.cleanup, "none")
    BY <2>5, <2>6 DEF LeaseFits
  <2> QED
    BY <1>3, <2>2, <2>3, <2>4, <2>6, <2>7, <2>8, <2>9, <2>10 DEF Leads, Consistent
<1>4. CASE c.state = "CANCELING" /\ k.lease_acquire_pending
  <2> DEFINE next == [c EXCEPT !.cleanup = [@ EXCEPT !.lease_acquire_pending = FALSE]]
  <2>1. Transition(c, ev) = FinishCanceling(c, next)
    BY <1>0, <1>4, AdapterRoute DEF Canceling, AcquireFailedInCanceling
  <2>2. /\ next \in Contexts /\ next.state = "CANCELING"
        /\ next.manager_mode = c.manager_mode
        /\ next.pending_outcome = c.pending_outcome
        /\ next.cleanup.navigation_cancel_required = k.navigation_cancel_required
        /\ next.cleanup.navigation_cancel_confirmed = k.navigation_cancel_confirmed
        /\ ~next.cleanup.lease_acquire_pending
        /\ next.cleanup.lease_was_active = k.lease_was_active
        /\ next.cleanup.lease_release_required = k.lease_release_required
        /\ next.cleanup.lease_release_confirmed = k.lease_release_confirmed
        /\ next.cleanup.cleanup_failed = k.cleanup_failed
    BY <1>4 DEF Contexts, CleanupContexts
  <2> HIDE DEF next
  <2>3. ContextFits(next)
    BY <1>4, <2>2 DEF Consistent, ContextFits, RestingStates, MovingStates
  <2>4. GoalFits(next, g, asked)
    BY <1>4, <2>2
       DEF Consistent, GoalFits, AtRest, IsCleanSafetyBlocked, RestingStates,
           MovingStates
  <2>5. ~k.cleanup_failed => LeaseFits(next.cleanup, "none")
    BY <1>4, <2>2 DEF Consistent, LeaseFits
  <2>6. Consistent(next, g, asked, "none")
    BY <2>2, <2>3, <2>4, <2>5 DEF Consistent
  <2> QED BY <1>4, <2>1, <2>2, <2>6, FinishCancelingLeads
<1>5. CASE /\ c.state \in {"CANCELING", "SAFETY_BLOCKED"}
           /\ ~(c.state = "CANCELING" /\ k.lease_acquire_pending)
  <2>1. k.cleanup_failed
    BY <1>5, BusyStates DEF Consistent, ContextFits, LeaseFits
  <2>2. Transition(c, ev) = Reject(c)
    BY <1>0, <1>5, AdapterRoute DEF AdapterEvent, Canceling, AcquireFailedInCanceling
  <2>3. Consistent(c, g, asked, "none")
    BY <2>1, BlockedFits
  <2> QED BY <2>2, <2>3, UnchangedLeads
<1> QED BY <1>2, <1>3, <1>4, <1>5

\* States in which a release can be on its way.
LEMMA ReturningStates ==
  ASSUME NEW c \in Contexts, NEW g, NEW asked \in BOOLEAN,
         Consistent(c, g, asked, "returning")
  PROVE  /\ c.state \in {"FINALIZING", "CANCELING", "SAFETY_BLOCKED"}
         /\ c.state = "CANCELING" /\ ~c.cleanup.cleanup_failed
              => c.cleanup.lease_release_required /\ ~c.cleanup.lease_release_confirmed
<1>1. c.state \in MovingStates \cup {"FINALIZING", "CANCELING", "SAFETY_BLOCKED"}
  BY BusyStates
<1>2. c.state \notin MovingStates
  BY DEF MovingStates, Consistent, ContextFits, LeaseFits, NavigationSubmitted,
         NoCleanup
<1>3. c.state = "CANCELING" /\ ~c.cleanup.cleanup_failed
        => c.cleanup.lease_release_required /\ ~c.cleanup.lease_release_confirmed
  BY DEF Consistent, ContextFits, LeaseFits
<1> QED BY <1>1, <1>2, <1>3

LEMMA LeaseReleasedLeads ==
  ASSUME NEW c \in Contexts, NEW g \in GoalStatuses, NEW asked \in BOOLEAN,
         Consistent(c, g, asked, "returning")
  PROVE  Leads(c, Transition(c, "LEASE_RELEASED"), g, asked, "none")
<1> DEFINE ev  == "LEASE_RELEASED"
           k   == c.cleanup
           due == k.lease_release_required /\ ~k.lease_release_confirmed
<1>0. ev \in AdapterEvents BY DEF AdapterEvents, LeaseEvents
<1>1. c.state \in {"FINALIZING", "CANCELING", "SAFETY_BLOCKED"}
  BY ReturningStates
<1>2. CASE c.state = "FINALIZING"
  <2>1. /\ g = "over" /\ c.pending_outcome \in {"SUCCEEDED", "FAILED"}
        /\ c.manager_mode = "NORMAL"
    BY <1>2 DEF Consistent, ContextFits, GoalFits, Contexts, Modes
  <2>2. \A effect \in {"TERMINAL_SUCCEEDED", "TERMINAL_FAILED"} :
          Leads(c, Accept(CleanContext("IDLE", "NORMAL"), {effect}), g, asked, "none")
    BY <2>1, IdleLeads DEF Modes, TerminalEffects, MovingStatuses
  <2> QED
    BY <1>0, <1>2, <2>1, <2>2, AdapterRoute DEF AdapterEvent, Finalizing
<1>3. CASE c.state = "CANCELING" /\ due
  <2> DEFINE next == [c EXCEPT !.cleanup = [@ EXCEPT !.lease_release_confirmed = TRUE]]
  <2>1. Transition(c, ev) = FinishCanceling(c, next)
    BY <1>0, <1>3, AdapterRoute DEF Canceling, ReleasedInCanceling
  <2>2. /\ next \in Contexts /\ next.state = "CANCELING"
        /\ next.manager_mode = c.manager_mode
        /\ next.pending_outcome = c.pending_outcome
        /\ next.cleanup.navigation_cancel_required = k.navigation_cancel_required
        /\ next.cleanup.navigation_cancel_confirmed = k.navigation_cancel_confirmed
        /\ next.cleanup.lease_acquire_pending = k.lease_acquire_pending
        /\ next.cleanup.lease_was_active = k.lease_was_active
        /\ next.cleanup.lease_release_required = k.lease_release_required
        /\ next.cleanup.lease_release_confirmed
        /\ next.cleanup.cleanup_failed = k.cleanup_failed
    BY <1>3 DEF Contexts, CleanupContexts
  <2> HIDE DEF next
  <2>3. ContextFits(next)
    BY <1>3, <2>2 DEF Consistent, ContextFits, RestingStates, MovingStates
  <2>4. GoalFits(next, g, asked)
    BY <1>3, <2>2
       DEF Consistent, GoalFits, AtRest, IsCleanSafetyBlocked, RestingStates,
           MovingStates
  <2>5. ~k.cleanup_failed => LeaseFits(next.cleanup, "none")
    BY <1>3, <2>2 DEF Consistent, LeaseFits
  <2>6. Consistent(next, g, asked, "none")
    BY <2>2, <2>3, <2>4, <2>5 DEF Consistent
  <2> QED BY <1>3, <2>1, <2>2, <2>6, FinishCancelingLeads
<1>4. CASE c.state \in {"CANCELING", "SAFETY_BLOCKED"} /\ ~(c.state = "CANCELING" /\ due)
  <2>1. k.cleanup_failed
    BY <1>4, BusyStates, ReturningStates
  <2>2. Transition(c, ev) = Reject(c)
    BY <1>0, <1>4, AdapterRoute DEF AdapterEvent, Canceling, ReleasedInCanceling
  <2>3. Consistent(c, g, asked, "none")
    BY <2>1, BlockedFits
  <2> QED BY <2>2, <2>3, UnchangedLeads
<1> QED BY <1>1, <1>2, <1>3, <1>4

LEMMA LeaseReleaseFailedLeads ==
  ASSUME NEW c \in Contexts, NEW g \in GoalStatuses, NEW asked \in BOOLEAN,
         Consistent(c, g, asked, "returning")
  PROVE  Leads(c, Transition(c, "LEASE_RELEASE_FAILED"), g, asked, "held")
<1> DEFINE ev == "LEASE_RELEASE_FAILED"
           k  == c.cleanup
           due == c.state = "FINALIZING"
                    \/ (c.state = "CANCELING" /\ k.lease_release_required)
<1>0. ev \in AdapterEvents BY DEF AdapterEvents, LeaseEvents
<1>1. c.state \in {"FINALIZING", "CANCELING", "SAFETY_BLOCKED"}
  BY ReturningStates
<1>2. CASE due
  <2>1. c.state = "FINALIZING" => c.manager_mode = "NORMAL"
    BY DEF Consistent, ContextFits, Contexts, Modes
  <2>2. Transition(c, ev) = CleanupFailed(c)
    BY <1>0, <1>2, <2>1, AdapterRoute DEF AdapterEvent, Canceling, Finalizing
  <2>3. Leads(c, CleanupFailed(c), g, asked, "held")
    BY <1>2, CleanupFailedLeads
  <2> QED BY <2>2, <2>3
<1>3. CASE ~due
  <2>0. /\ c.state \in {"CANCELING", "SAFETY_BLOCKED"}
        /\ ~(c.state = "CANCELING" /\ k.lease_release_required)
    BY <1>1, <1>3
  <2>1. k.cleanup_failed
    BY <2>0, BusyStates, ReturningStates
  <2>2. Transition(c, ev) = Reject(c)
    BY <1>0, <2>0, AdapterRoute DEF AdapterEvent, Canceling
  <2>3. Consistent(c, g, asked, "held")
    BY <2>1, BlockedFits
  <2> QED BY <2>2, <2>3, UnchangedLeads
<1> QED BY <1>2, <1>3

-----------------------------------------------------------------------------
(***************************************************************************)
(* From decisions to actions.  First what one mission leaves to the next.  *)
(***************************************************************************)

LEMMA HandleFacts ==
  /\ NoHandle \notin Handles
  /\ \A h \in Handles : /\ h = <<h[1], h[2]>>
                        /\ h[1] \in Nat \ {0} /\ h[2] \in Nat \ {0}
                        /\ h[1] \in Executions /\ h[2] \in Generations
  /\ 0 \notin Executions
  /\ 1 \in Generations
BY BoundsAssumption DEF Handles, NoHandle, Executions, Generations

\* A goal is submitted from a clean context.
LEMMA PreparedFits ==
  ASSUME NEW c \in Contexts, IsClean(c), c.manager_mode = "NORMAL",
         c.state \in {"WAITING_TARGET", "PREPARING_GOAL"}
  PROVE  LET next == Transition(c, "GOAL_PREPARED").next
         IN /\ next \in Contexts
            /\ next.state = "NAVIGATION_STARTING"
            /\ Consistent(next, "sent", FALSE, "none")
<1> DEFINE next == [c EXCEPT !.state = "NAVIGATION_STARTING",
                             !.cleanup = [@ EXCEPT !.navigation_submitted = TRUE]]
           d    == Accept(next, {"SUBMIT_NAVIGATION"})
<1>1. Transition(c, "GOAL_PREPARED") = GoalPrepared(c)
  BY DEF Transition, PassesLatch
<1>2. GoalPrepared(c) = d
  BY DEF GoalPrepared
<1>3. d.next = next BY DEF Accept
<1>4. d \in Decisions BY <1>1, <1>2, TransitionType
<1>5. next \in Contexts BY <1>3, <1>4 DEF Decisions
<1>6. /\ next.state = "NAVIGATION_STARTING" /\ next.manager_mode = "NORMAL"
      /\ next.cancel_intent = "NONE" /\ next.pending_outcome = "NONE"
      /\ next.cleanup = NavigationSubmitted
  BY DEF Contexts, IsClean, NavigationSubmitted
<1> HIDE DEF next, d
<1>7. Consistent(next, "sent", FALSE, "none")
  BY <1>6 DEF Consistent, ContextFits, GoalFits, LeaseFits, NavigationSubmitted,
              NoCleanup, AtRest, RestingStates, MovingStates, IsCleanSafetyBlocked
<1> QED BY <1>1, <1>2, <1>3, <1>5, <1>6, <1>7

LEMMA IdleFits ==
  ASSUME NEW c \in Contexts, IsClean(c), c.state \in {"IDLE", "WAITING_TARGET"},
         c.manager_mode = "NORMAL" \/ c.state = "IDLE",
         NEW g, g \notin MovingStatuses, NEW asked
  PROVE  Consistent(c, g, asked, "none")
BY DEF IsClean, NoCleanup, Consistent, ContextFits, GoalFits, LeaseFits,
       RestingStates, MovingStates

\* The invariant after a step, from its parts.
LEMMA IInvFromParts ==
  ASSUME TypeOK', FreshHandles', Ownership',
         NEW g, GateGoal' = g, NEW l, ActiveLease' = l,
         NEW asked, asked <=> gate' \in cancelAsked',
         Consistent(ctx', g, asked, l)
  PROVE  IInv'
<1>1. Consistent(ctx', GateGoal', asked, ActiveLease') OBVIOUS
<1>2. GoalFits(ctx, GateGoal, gate \in cancelAsked)'
  BY <1>1 DEF Consistent, GoalFits
<1>3. Consistent(ctx, GateGoal, gate \in cancelAsked, ActiveLease)'
  BY <1>1, <1>2 DEF Consistent
<1> QED BY <1>3 DEF IInv

LEMMA ActivationIInv ==
  ASSUME TypeOK, FreshHandles,
         NEW idle \in Contexts, idle.state = "IDLE", IsClean(idle),
         NEW goals \in [Handles -> GoalStatuses],
         \A h \in Handles : goals[h] \notin MovingStatuses,
         \A h \in Handles : goals[h] = "none" <=> goal[h] = "none",
         NEW next \in NextMission, EndThenActivate(idle, goals, next),
         lease' \in [Executions -> LeaseStatuses],
         \A e \in Executions : lease'[e] = "none",
         cancelAsked' \subseteq Handles,
         \A h \in cancelAsked' : goals[h] # "none"
  PROVE  IInv'
<1> DEFINE n == started + 1
<1>1. CASE next = "none"
  <2>1. /\ ctx' = idle /\ active' = 0 /\ generation' = 0 /\ gate' = NoHandle
        /\ goal' = goals /\ started' = started /\ frozen' \in BOOLEAN
    BY <1>1 DEF EndThenActivate
  <2>2. TypeOK' BY <2>1, BoundsAssumption DEF TypeOK
  <2>3. FreshHandles'
    BY <2>1, HandleFacts DEF FreshHandles, TypeOK
  <2>4. Ownership'
    BY <2>1 DEF Ownership, MayMove, OnlyActiveOwnsLease
  <2>5. Consistent(ctx', "none", FALSE, "none")
    BY <2>1, IdleFits DEF MovingStatuses
  <2>6. GateGoal' = "none" /\ ActiveLease' = "none" /\ gate' \notin cancelAsked'
    BY <2>1, HandleFacts DEF GateGoal, ActiveLease
  <2> QED
    BY <2>2, <2>3, <2>4, <2>5, <2>6, IInvFromParts
<1>2. CASE next # "none"
  <2>1. /\ started < MaxExecutions
        /\ ctx' = Activated(next) /\ started' = n /\ active' = n /\ generation' = 1
        /\ gate' = IF next = "ready" THEN <<n, 1>> ELSE NoHandle
        /\ goal' = IF next = "ready" THEN [goals EXCEPT ![<<n, 1>>] = "sent"]
                                     ELSE goals
        /\ frozen' \in BOOLEAN
    BY <1>2 DEF EndThenActivate, MayActivate
  <2>2. /\ n \in Executions /\ n \in 0..MaxExecutions /\ n # 0
        /\ <<n, 1>> \in Handles /\ <<n, 1>> # NoHandle
        /\ started \in Nat
    BY <2>1, BoundsAssumption DEF TypeOK, Executions, Generations, Handles, NoHandle
  <2>3. goal[<<n, 1>>] = "none" /\ <<n, 1>> \notin cancelAsked'
    BY <2>2 DEF FreshHandles
  <2>4. /\ CleanContext("PREPARING_GOAL", "NORMAL") \in Contexts
        /\ CleanContext("WAITING_TARGET", "NORMAL") \in Contexts
    BY CleanContextType DEF States, Modes
  <2>5. \A h \in Handles : h[1] > n \/ (h[1] = n /\ h[2] > 1)
                             => goals[h] = "none" /\ h # <<n, 1>>
    BY <2>2, HandleFacts DEF FreshHandles
  <2>6. CASE next = "ready"
    <3>1. /\ ctx' \in Contexts /\ ctx'.state = "NAVIGATION_STARTING"
          /\ Consistent(ctx', "sent", FALSE, "none")
      <4> DEFINE c == CleanContext("PREPARING_GOAL", "NORMAL")
      <4>1. IsClean(c) /\ c.state = "PREPARING_GOAL" /\ c.manager_mode = "NORMAL"
        BY DEF CleanContext, IsClean
      <4>2. ctx' = Transition(c, "GOAL_PREPARED").next
        BY <2>1, <2>6 DEF Activated
      <4> HIDE DEF c
      <4>3. c \in Contexts BY <2>4 DEF c
      <4> QED BY <4>1, <4>2, <4>3, PreparedFits
    <3>2. gate' = <<n, 1>> /\ goal' = [goals EXCEPT ![<<n, 1>>] = "sent"]
      BY <2>1, <2>6
    <3>3. TypeOK'
      BY <2>1, <2>2, <3>1, <3>2, BoundsAssumption DEF TypeOK, GoalStatuses
    <3>4. FreshHandles'
      BY <2>1, <2>2, <2>5, <3>1, <3>2 DEF FreshHandles
    <3>5. Ownership'
      BY <2>1, <2>2, <3>1, <3>2 DEF Ownership, MayMove, OnlyActiveOwnsLease
    <3>6. GateGoal' = "sent" /\ ActiveLease' = "none" /\ gate' \notin cancelAsked'
      BY <2>1, <2>2, <2>3, <3>2 DEF GateGoal, ActiveLease
    <3> QED BY <3>1, <3>3, <3>4, <3>5, <3>6, IInvFromParts
  <2>7. CASE next = "pending"
    <3>1. ctx' = CleanContext("WAITING_TARGET", "NORMAL")
      BY <2>1, <2>7 DEF Activated
    <3>2. /\ ctx' \in Contexts /\ ctx'.state = "WAITING_TARGET"
          /\ Consistent(ctx', "none", FALSE, "none")
      BY <2>4, <3>1, CleanFits DEF RestingStates, Modes, MovingStatuses
    <3>3. gate' = NoHandle /\ goal' = goals
      BY <2>1, <2>7
    <3>4. TypeOK'
      BY <2>1, <2>2, <3>2, <3>3, BoundsAssumption DEF TypeOK
    <3>5. FreshHandles'
      BY <2>1, <2>2, <2>3, <2>5, <3>3 DEF FreshHandles
    <3>6. Ownership'
      BY <2>1, <2>2, <3>2, <3>3 DEF Ownership, MayMove, OnlyActiveOwnsLease
    <3>7. GateGoal' = "none" /\ ActiveLease' = "none" /\ gate' \notin cancelAsked'
      BY <2>1, <2>2, <3>3, HandleFacts DEF GateGoal, ActiveLease
    <3> QED BY <3>2, <3>4, <3>5, <3>6, <3>7, IInvFromParts
  <2> QED BY <1>2, <2>6, <2>7 DEF NextMission
<1> QED BY <1>1, <1>2

\* Applying an event whose decision leads to consistency keeps the invariant.
LEMMA ApplyIInv ==
  ASSUME IInv, NEW event,
         NEW goals \in [Handles -> GoalStatuses],
         \A h \in Handles : h # gate => goals[h] = goal[h],
         \A h \in Handles : goals[h] = "none" <=> goal[h] = "none",
         NEW leases \in [Executions -> LeaseStatuses],
         \A e \in Executions : e # active => leases[e] = lease[e],
         NEW next \in NextMission, Apply(event, goals, leases, next),
         NEW g, g = IF gate = NoHandle THEN "none" ELSE goals[gate],
         NEW l, l = IF active = 0 THEN "none" ELSE leases[active],
         NEW asked \in BOOLEAN, asked <=> gate \in cancelAsked,
         Leads(ctx, Transition(ctx, event), g, asked, l)
  PROVE  IInv'
<1> DEFINE d == Transition(ctx, event)
<1>1. /\ TypeOK /\ FreshHandles /\ Ownership
      /\ d \in Decisions /\ d.next \in Contexts /\ Leads(ctx, d, g, asked, l)
  BY DEF IInv, Leads, Decisions
<1>2. /\ lease' = LeasesAfter(d.effects, leases)
      /\ cancelAsked' = CancelsAfter(d.effects, goals)
      /\ Ends(d) => EndThenActivate(d.next, goals, next)
      /\ ~Ends(d) => /\ ctx' = d.next /\ goal' = goals
                     /\ UNCHANGED <<active, generation, gate, frozen, started>>
  BY DEF Apply, Ends
<1> HIDE DEF d
<1>3. /\ active # 0 => active \in Executions
      /\ gate # NoHandle => gate \in Handles
      /\ NoHandle \notin Handles /\ 0 \notin Executions
      /\ active = 0 <=> ctx.state = "IDLE"
  BY <1>1, HandleFacts, BoundsAssumption DEF TypeOK, Executions, Ownership
<1>4. /\ lease' \in [Executions -> LeaseStatuses]
      /\ \A e \in Executions : e # active => lease'[e] = "none"
      /\ active # 0 => lease'[active] = LeaseThen(d, l)
  <2>1. \A e \in Executions : e # active => leases[e] = "none"
    BY <1>1 DEF Ownership, OnlyActiveOwnsLease
  <2> QED BY <1>2, <1>3, <2>1 DEF LeasesAfter, LeaseThen, LeaseStatuses
<1>5. /\ cancelAsked' \subseteq Handles
      /\ \A h \in cancelAsked' : goals[h] # "none"
      /\ gate \in cancelAsked' <=> AskedThen(d, g, asked)
  <2>1. cancelAsked \subseteq Handles /\ \A h \in cancelAsked : goals[h] # "none"
    BY <1>1 DEF TypeOK, FreshHandles
  <2> QED BY <1>2, <1>3, <2>1 DEF CancelsAfter, OpenIn, AskedThen
<1>6. CASE Ends(d)
  <2>1. /\ g \notin MovingStatuses /\ LeaseThen(d, l) = "none"
        /\ d.next.state = "IDLE" /\ IsClean(d.next)
    BY <1>1, <1>6 DEF Leads
  <2>2. \A h \in Handles : goals[h] \notin MovingStatuses
    BY <1>1, <1>3, <2>1 DEF Ownership, MayMove
  <2>3. \A e \in Executions : lease'[e] = "none"
    BY <1>4, <2>1, <1>3
  <2>4. EndThenActivate(d.next, goals, next) BY <1>2, <1>6
  <2> QED BY <1>1, <1>4, <1>5, <2>1, <2>2, <2>3, <2>4, ActivationIInv
<1>7. CASE ~Ends(d)
  <2>1. /\ ctx' = d.next /\ goal' = goals /\ active' = active /\ gate' = gate
        /\ generation' = generation /\ frozen' = frozen /\ started' = started
    BY <1>2, <1>7
  <2>2. /\ Consistent(d.next, g, AskedThen(d, g, asked), LeaseThen(d, l))
        /\ d.next.state = "IDLE" <=> ctx.state = "IDLE"
        /\ d.next.state = "WAITING_TARGET" => ctx.state = "WAITING_TARGET"
        /\ active = 0 => LeaseThen(d, l) = "none"
    BY <1>1, <1>3, <1>7 DEF Leads, LeaseThen
  <2>3. TypeOK'
    BY <1>1, <1>4, <1>5, <2>1 DEF TypeOK
  <2>4. FreshHandles'
    <3>1. \A h \in Handles : h[1] > started \/ (h[1] = active /\ h[2] > generation)
                               => goals[h] = "none"
      BY <1>1 DEF FreshHandles
    <3>2. active # 0 => generation # 0 BY <1>1 DEF FreshHandles
    <3>3. ctx.state = "WAITING_TARGET"
            => gate = NoHandle /\ goals[<<active, generation>>] = "none"
      <4>1. ctx.state = "WAITING_TARGET" => <<active, generation>> \in Handles
        BY <1>1, <1>3, <3>2, BoundsAssumption
           DEF TypeOK, Handles, Executions, Generations
      <4> QED BY <1>1, <4>1 DEF FreshHandles
    <3> QED BY <1>1, <1>5, <2>1, <2>2, <3>1, <3>2, <3>3 DEF FreshHandles
  <2>5. Ownership'
    <3>1. \A h \in Handles : goals[h] \in MovingStatuses => h = gate
      BY <1>1 DEF Ownership, MayMove
    <3> QED BY <1>1, <1>4, <2>1, <2>2, <3>1
            DEF Ownership, MayMove, OnlyActiveOwnsLease
  <2>6. GateGoal' = g /\ ActiveLease' = LeaseThen(d, l)
    BY <1>4, <2>1, <2>2 DEF GateGoal, ActiveLease
  <2>7. Consistent(ctx', g, AskedThen(d, g, asked), LeaseThen(d, l))
    BY <2>1, <2>2
  <2>8. AskedThen(d, g, asked) <=> gate' \in cancelAsked'
    BY <1>5, <2>1
  <2> QED BY <2>3, <2>4, <2>5, <2>6, <2>7, <2>8, IInvFromParts
<1> QED BY <1>6, <1>7

\* A robot at rest owns no goal and no lease.
LEMMA AtRestFacts ==
  ASSUME IInv, AtRest(ctx)
  PROVE  /\ \A h \in Handles : goal[h] \notin MovingStatuses
         /\ \A e \in Executions : lease[e] = "none"
<1>1. GateGoal \notin MovingStatuses /\ ActiveLease = "none"
  BY RestFacts DEF IInv, TypeOK
<1> QED
  BY <1>1, HandleFacts
     DEF IInv, Ownership, MayMove, OnlyActiveOwnsLease, GateGoal, ActiveLease

\* Submitting a goal at rest, under a handle that was not used before.
LEMMA SubmitIInv ==
  ASSUME IInv, AtRest(ctx),
         NEW c \in Contexts, IsClean(c), c.manager_mode = "NORMAL",
         c.state \in {"WAITING_TARGET", "PREPARING_GOAL"},
         NEW h \in Handles, h = <<active, generation'>>, goal[h] = "none",
         generation' \in {generation, generation + 1},
         Submit(c, h), UNCHANGED <<active, started, cancelAsked, lease>>
  PROVE  IInv'
<1>1. TypeOK /\ FreshHandles /\ Ownership BY DEF IInv
<1>2. /\ ctx' \in Contexts /\ ctx'.state = "NAVIGATION_STARTING"
      /\ Consistent(ctx', "sent", FALSE, "none")
  BY PreparedFits DEF Submit
<1>3. /\ gate' = h /\ frozen' = TRUE /\ active' = active /\ started' = started
      /\ goal' = [goal EXCEPT ![h] = "sent"]
      /\ cancelAsked' = cancelAsked /\ lease' = lease
  BY DEF Submit
<1>4. /\ active \in Executions /\ active # 0 /\ active = started
      /\ generation' \in Generations /\ generation' # 0
      /\ generation \in Nat /\ generation' >= generation
      /\ h # NoHandle /\ h \notin cancelAsked
  <2>1. active \in Executions /\ generation' \in Generations
    BY DEF Handles
  <2> QED
    BY <1>1, <2>1, HandleFacts, BoundsAssumption
       DEF TypeOK, FreshHandles, Executions, Generations, NoHandle
<1>5. /\ \A x \in Handles : goal[x] \notin MovingStatuses
      /\ \A e \in Executions : lease[e] = "none"
  BY AtRestFacts
<1>6. TypeOK'
  BY <1>1, <1>2, <1>3, <1>4, BoundsAssumption
     DEF TypeOK, GoalStatuses, Generations
<1>7. FreshHandles'
  <2>1. \A x \in Handles : x[1] > started \/ (x[1] = active /\ x[2] > generation')
                             => x # h /\ goal[x] = "none"
    BY <1>1, <1>4, HandleFacts DEF FreshHandles, TypeOK, Executions, Generations
  <2> QED BY <1>1, <1>2, <1>3, <1>4, <2>1 DEF FreshHandles
<1>8. Ownership'
  BY <1>2, <1>3, <1>4, <1>5 DEF Ownership, MayMove, OnlyActiveOwnsLease
<1>9. GateGoal' = "sent" /\ ActiveLease' = "none" /\ gate' \notin cancelAsked'
  BY <1>1, <1>3, <1>4, <1>5 DEF GateGoal, ActiveLease, TypeOK
<1> QED BY <1>2, <1>6, <1>7, <1>8, <1>9, IInvFromParts

-----------------------------------------------------------------------------
(***************************************************************************)
(* One lemma per kind of action.                                           *)
(***************************************************************************)

\* The context of the invariant, as the lemmas of the first part need it.
LEMMA Current ==
  ASSUME IInv
  PROVE  /\ ctx \in Contexts
         /\ GateGoal \in GoalStatuses
         /\ ActiveLease \in LeaseStatuses
         /\ (gate \in cancelAsked) \in BOOLEAN
         /\ Consistent(ctx, GateGoal, gate \in cancelAsked, ActiveLease)
<1>1. /\ gate # NoHandle => gate \in Handles
      /\ active # 0 => active \in Executions
  BY BoundsAssumption DEF IInv, TypeOK, Executions
<1> QED
  BY <1>1 DEF IInv, TypeOK, GateGoal, ActiveLease, GoalStatuses, LeaseStatuses

\* Pause, Stop, Estop, ResetSucceeded and TargetWaitExpires: the core applies a
\* request and the world answers nothing.
LEMMA RequestIInv ==
  ASSUME IInv,
         NEW event \in {"PAUSE_REQUESTED", "STOP_REQUESTED", "ESTOP_REQUESTED",
                        "RESET_ESTOP_ALLOWED", "TARGET_WAIT_TIMEOUT"},
         NEW next \in NextMission, Apply(event, goal, lease, next)
  PROVE  IInv'
<1> DEFINE asked == gate \in cancelAsked
<1>1. /\ ctx \in Contexts /\ asked \in BOOLEAN
      /\ Consistent(ctx, GateGoal, asked, ActiveLease)
  BY Current
<1> HIDE DEF asked
<1>2. Leads(ctx, Transition(ctx, event), GateGoal, asked, ActiveLease)
  BY <1>1, PauseLeads, StopLeads, EstopLeads, ResetLeads, TargetTimeoutLeads
<1>3. /\ goal \in [Handles -> GoalStatuses] /\ lease \in [Executions -> LeaseStatuses]
      /\ GateGoal = IF gate = NoHandle THEN "none" ELSE goal[gate]
      /\ ActiveLease = IF active = 0 THEN "none" ELSE lease[active]
      /\ asked <=> gate \in cancelAsked
  BY DEF IInv, TypeOK, GateGoal, ActiveLease, asked
<1> QED BY <1>1, <1>2, <1>3, ApplyIInv

LEMMA StartIInv ==
  ASSUME IInv, NEW next \in NextMission, Start(next)
  PROVE  IInv'
<1>1. ctx.state = "IDLE" /\ ctx \in Contexts /\ TypeOK /\ FreshHandles
  BY DEF Start, IInv, Ownership, TypeOK
<1>2. AtRest(ctx) /\ IsClean(ctx)
  BY <1>1 DEF AtRest, IInv, Consistent, ContextFits
<1>3. /\ \A h \in Handles : goal[h] \notin MovingStatuses
      /\ \A e \in Executions : lease[e] = "none"
  BY <1>2, AtRestFacts
<1>4. /\ EndThenActivate(ctx, goal, next)
      /\ cancelAsked' = cancelAsked /\ lease' = lease
  BY DEF Start
<1>5. /\ goal \in [Handles -> GoalStatuses] /\ lease \in [Executions -> LeaseStatuses]
      /\ cancelAsked \subseteq Handles
      /\ \A h \in cancelAsked : goal[h] # "none"
  BY <1>1 DEF TypeOK, FreshHandles
<1> QED BY <1>1, <1>2, <1>3, <1>4, <1>5, ActivationIInv

LEMMA TargetResolvedIInv ==
  ASSUME IInv, TargetResolved
  PROVE  IInv'
<1>1. /\ TypeOK /\ FreshHandles /\ Ownership /\ ContextFits(ctx)
      /\ ctx.state = "WAITING_TARGET"
  BY DEF IInv, Consistent, TargetResolved
<1>2. IsClean(ctx) /\ AtRest(ctx) /\ ctx.manager_mode = "NORMAL" /\ ctx \in Contexts
  BY <1>1 DEF AtRest, RestingStates, ContextFits, TypeOK, Contexts, Modes
<1>3. <<active, generation>> \in Handles /\ goal[<<active, generation>>] = "none"
  BY <1>1, BoundsAssumption
     DEF TypeOK, FreshHandles, Ownership, Handles, Executions, Generations
<1>4. /\ Submit(ctx, <<active, generation>>)
      /\ generation' = generation
      /\ UNCHANGED <<active, started, cancelAsked, lease>>
  BY DEF TargetResolved
<1> QED BY <1>1, <1>2, <1>3, <1>4, SubmitIInv

LEMMA ResumeIInv ==
  ASSUME IInv, NEW resolved \in BOOLEAN, Resume(resolved)
  PROVE  IInv'
<1> DEFINE c == CleanContext("PREPARING_GOAL", "NORMAL")
           h == <<active, generation + 1>>
<1>1. /\ TypeOK /\ FreshHandles /\ Ownership /\ ContextFits(ctx) /\ ctx \in Contexts
  BY DEF IInv, Consistent, TypeOK
<1>2. /\ ctx.state = "PAUSED" \/ IsCleanSafetyBlocked(ctx)
      /\ Transition(ctx, "RESUME_ALLOWED").next = c
  BY DEF Resume, Transition, ResumeAllowed, Reject, Accept
<1>3. AtRest(ctx) /\ ctx.state \in {"PAUSED", "SAFETY_BLOCKED"}
  BY <1>2 DEF AtRest, RestingStates, IsCleanSafetyBlocked
<1>4. /\ c \in Contexts /\ IsClean(c) /\ c.state = "PREPARING_GOAL"
      /\ c.manager_mode = "NORMAL"
  BY CleanContextType DEF States, Modes, CleanContext, IsClean
<1>5. /\ h \in Handles /\ goal[h] = "none" /\ active \in Executions
      /\ generation \in Nat /\ generation < MaxGeneration
  <2>1. /\ active \in Executions /\ generation \in Nat
        /\ generation + 1 \in Generations
    BY <1>1, <1>3, BoundsAssumption
       DEF Resume, TypeOK, Ownership, Executions, Generations
  <2> QED BY <1>1, <2>1 DEF FreshHandles, Handles, Resume
<1>6. /\ generation' = generation + 1
      /\ active' = active /\ started' = started
      /\ cancelAsked' = cancelAsked /\ lease' = lease
  BY DEF Resume
<1> HIDE DEF c
<1>7. CASE resolved
  <2>1. Submit(c, h) BY <1>2, <1>7 DEF Resume
  <2> QED
    BY <1>1, <1>3, <1>4, <1>5, <1>6, <2>1, SubmitIInv
<1>8. CASE ~resolved
  <2>1. /\ ctx' = Transition(c, "TARGET_NOT_READY").next
        /\ gate' = NoHandle /\ goal' = goal /\ frozen' = frozen
    BY <1>2, <1>8 DEF Resume
  <2>2. ctx' = [c EXCEPT !.state = "WAITING_TARGET"]
    BY <1>4, <2>1 DEF Transition, PassesLatch, TargetNotReady, Accept
  <2>3. /\ ctx' \in Contexts /\ IsClean(ctx') /\ ctx'.state = "WAITING_TARGET"
        /\ ctx'.manager_mode = "NORMAL"
    BY <1>4, <2>2 DEF Contexts, States, IsClean
  <2>4. /\ \A x \in Handles : goal[x] \notin MovingStatuses
        /\ \A e \in Executions : lease[e] = "none"
    BY <1>3, AtRestFacts
  <2>5. Consistent(ctx', "none", FALSE, "none")
    BY <2>3, IdleFits DEF MovingStatuses
  <2>6. TypeOK'
    BY <1>1, <1>5, <1>6, <2>1, <2>3, BoundsAssumption DEF TypeOK
  <2>7. FreshHandles'
    <3>1. \A x \in Handles : x[1] > started \/ (x[1] = active /\ x[2] > generation + 1)
                               => goal[x] = "none"
      BY <1>1, <1>5, HandleFacts DEF FreshHandles, Generations
    <3> QED BY <1>1, <1>5, <1>6, <2>1, <2>3, <3>1 DEF FreshHandles
  <2>8. Ownership'
    BY <1>1, <1>3, <1>5, <1>6, <2>1, <2>3, <2>4
       DEF Ownership, MayMove, OnlyActiveOwnsLease
  <2>9. GateGoal' = "none" /\ ActiveLease' = "none" /\ gate' \notin cancelAsked'
    BY <1>1, <1>5, <1>6, <2>1, <2>4, HandleFacts DEF GateGoal, ActiveLease, TypeOK
  <2> QED BY <2>5, <2>6, <2>7, <2>8, <2>9, IInvFromParts
<1> QED BY <1>7, <1>8

\* An answer of the navigation adapter, about a goal that is open.
LEMMA NavigationEventIInv ==
  ASSUME IInv, NEW h \in Handles, goal[h] \in MovingStatuses,
         NEW status \in GoalStatuses \ {"none"},
         NEW event, NEW next \in NextMission,
         NavigationEvent(h, event, status, next),
         NEW asked \in BOOLEAN, asked <=> h \in cancelAsked,
         Consistent(ctx, goal[h], asked, ActiveLease)
           => Leads(ctx, Transition(ctx, event), status, asked, ActiveLease)
  PROVE  IInv'
<1> DEFINE goals == [goal EXCEPT ![h] = status]
<1>1. /\ TypeOK /\ Ownership /\ h = gate /\ gate # NoHandle
      /\ goal \in [Handles -> GoalStatuses] /\ lease \in [Executions -> LeaseStatuses]
  BY HandleFacts DEF IInv, Ownership, MayMove, TypeOK
<1>2. GateGoal = goal[h] BY <1>1 DEF GateGoal
<1>3. asked <=> gate \in cancelAsked BY <1>1
<1>4. Consistent(ctx, goal[h], asked, ActiveLease)
  <2>1. asked = (gate \in cancelAsked) BY <1>3
  <2> QED BY <1>2, <2>1 DEF IInv
<1>5. Leads(ctx, Transition(ctx, event), status, asked, ActiveLease)
  BY <1>4
<1>6. Apply(event, goals, lease, next)
  BY <1>1 DEF NavigationEvent
<1>7. /\ goals \in [Handles -> GoalStatuses]
      /\ \A x \in Handles : x # gate => goals[x] = goal[x]
      /\ \A x \in Handles : goals[x] = "none" <=> goal[x] = "none"
      /\ status = IF gate = NoHandle THEN "none" ELSE goals[gate]
      /\ ActiveLease = IF active = 0 THEN "none" ELSE lease[active]
  BY <1>1 DEF MovingStatuses, ActiveLease
<1> HIDE DEF goals
<1> QED BY <1>1, <1>3, <1>5, <1>6, <1>7, ApplyIInv

\* An answer of the safety adapter, to a call that was made.
LEMMA LeaseEventIInv ==
  ASSUME IInv, NEW e \in Executions, lease[e] # "none",
         NEW status \in LeaseStatuses,
         NEW event, NEW next \in NextMission,
         LeaseEvent(e, event, status, next),
         NEW asked \in BOOLEAN, asked <=> gate \in cancelAsked,
         Consistent(ctx, GateGoal, asked, lease[e])
           => Leads(ctx, Transition(ctx, event), GateGoal, asked, status)
  PROVE  IInv'
<1> DEFINE leases == [lease EXCEPT ![e] = status]
<1>1. /\ TypeOK /\ e = active /\ active # 0
      /\ goal \in [Handles -> GoalStatuses] /\ lease \in [Executions -> LeaseStatuses]
  BY HandleFacts DEF IInv, Ownership, OnlyActiveOwnsLease, TypeOK
<1>2. ActiveLease = lease[e] BY <1>1 DEF ActiveLease
<1>3. asked <=> gate \in cancelAsked OBVIOUS
<1>4. Consistent(ctx, GateGoal, asked, lease[e])
  <2>1. asked = (gate \in cancelAsked) OBVIOUS
  <2> QED BY <1>2, <2>1 DEF IInv
<1>5. Leads(ctx, Transition(ctx, event), GateGoal, asked, status)
  BY <1>4
<1>6. Apply(event, goal, leases, next)
  BY <1>1 DEF LeaseEvent
<1>7. /\ leases \in [Executions -> LeaseStatuses]
      /\ \A x \in Executions : x # active => leases[x] = lease[x]
      /\ status = IF active = 0 THEN "none" ELSE leases[active]
      /\ GateGoal = IF gate = NoHandle THEN "none" ELSE goal[gate]
  BY <1>1 DEF GateGoal
<1> HIDE DEF leases
<1> QED BY <1>1, <1>3, <1>5, <1>6, <1>7, ApplyIInv

LEMMA NavigationAnswerIInv ==
  ASSUME IInv, NEW h \in Handles, NEW next \in NextMission,
         \/ GoalAccepted(h, next)
         \/ GoalRejected(h, next)
         \/ GoalSucceeded(h, next)
         \/ GoalFailed(h, next)
         \/ CancelConfirmed(h, next)
         \/ CancelFailed(h, next)
  PROVE  IInv'
<1> DEFINE asked == h \in cancelAsked
<1>1. asked \in BOOLEAN /\ (asked <=> h \in cancelAsked) /\ ctx \in Contexts
  BY Current
<1> HIDE DEF asked
<1>2. CASE GoalAccepted(h, next)
  <2>1. Consistent(ctx, goal[h], asked, ActiveLease)
          => Leads(ctx, Transition(ctx, "NAV_GOAL_ACCEPTED"), "accepted", asked, ActiveLease)
    BY <1>1, <1>2, GoalAcceptedLeads DEF GoalAccepted
  <2>2. /\ goal[h] \in MovingStatuses /\ "accepted" \in GoalStatuses \ {"none"}
        /\ NavigationEvent(h, "NAV_GOAL_ACCEPTED", "accepted", next)
    BY <1>2 DEF GoalAccepted, MovingStatuses, GoalStatuses
  <2> QED BY <1>1, <2>1, <2>2, NavigationEventIInv
<1>3. CASE GoalRejected(h, next)
  <2>1. Consistent(ctx, goal[h], asked, ActiveLease)
          => Leads(ctx, Transition(ctx, "NAV_GOAL_REJECTED"), "over", asked, ActiveLease)
    BY <1>1, <1>3, GoalRejectedLeads DEF GoalRejected
  <2>2. /\ goal[h] \in MovingStatuses /\ "over" \in GoalStatuses \ {"none"}
        /\ NavigationEvent(h, "NAV_GOAL_REJECTED", "over", next)
    BY <1>3 DEF GoalRejected, MovingStatuses, GoalStatuses
  <2> QED BY <1>1, <2>1, <2>2, NavigationEventIInv
<1>4. ASSUME NEW event \in {"NAV_SUCCEEDED", "NAV_FAILED"}, goal[h] = "accepted",
             NavigationEvent(h, event, "over", next)
      PROVE  IInv'
  <2>1. Consistent(ctx, goal[h], asked, ActiveLease)
          => Leads(ctx, Transition(ctx, event), "over", asked, ActiveLease)
    BY <1>1, <1>4, GoalEndedLeads
  <2>2. goal[h] \in MovingStatuses /\ "over" \in GoalStatuses \ {"none"}
    BY <1>4 DEF MovingStatuses, GoalStatuses
  <2> QED BY <1>1, <1>4, <2>1, <2>2, NavigationEventIInv
<1>5. CASE CancelConfirmed(h, next)
  <2>1. Consistent(ctx, goal[h], TRUE, ActiveLease)
          => Leads(ctx, Transition(ctx, "NAV_CANCEL_CONFIRMED"), "over", TRUE, ActiveLease)
    BY <1>1, <1>5, CancelConfirmedLeads DEF CancelConfirmed
  <2>2. /\ goal[h] \in MovingStatuses /\ "over" \in GoalStatuses \ {"none"}
        /\ NavigationEvent(h, "NAV_CANCEL_CONFIRMED", "over", next)
        /\ TRUE <=> h \in cancelAsked
    BY <1>5 DEF CancelConfirmed, MovingStatuses, GoalStatuses
  <2> QED BY <2>1, <2>2, NavigationEventIInv
<1>6. CASE CancelFailed(h, next)
  <2>1. PICK status \in {"orphaned", "over"} :
          NavigationEvent(h, "NAV_CANCEL_FAILED", status, next)
    BY <1>6 DEF CancelFailed
  <2>2. Consistent(ctx, goal[h], TRUE, ActiveLease)
          => Leads(ctx, Transition(ctx, "NAV_CANCEL_FAILED"), status, TRUE, ActiveLease)
    BY <1>1, <1>6, CancelFailedLeads DEF CancelFailed
  <2>3. /\ goal[h] \in MovingStatuses /\ status \in GoalStatuses \ {"none"}
        /\ TRUE <=> h \in cancelAsked
    BY <1>6 DEF CancelFailed, MovingStatuses, GoalStatuses
  <2> QED BY <2>1, <2>2, <2>3, NavigationEventIInv
<1>7. CASE GoalSucceeded(h, next) BY <1>4, <1>7 DEF GoalSucceeded
<1>8. CASE GoalFailed(h, next)    BY <1>4, <1>8 DEF GoalFailed
<1> QED BY <1>2, <1>3, <1>5, <1>6, <1>7, <1>8

LEMMA LeaseAnswerIInv ==
  ASSUME IInv, NEW e \in Executions, NEW next \in NextMission,
         \/ LeaseAcquired(e, next)
         \/ LeaseAcquireFailed(e, next)
         \/ LeaseReleased(e, next)
         \/ LeaseReleaseFailed(e, next)
  PROVE  IInv'
<1> DEFINE asked == gate \in cancelAsked
<1>1. /\ asked \in BOOLEAN /\ (asked <=> gate \in cancelAsked)
      /\ ctx \in Contexts /\ GateGoal \in GoalStatuses
  BY Current
<1> HIDE DEF asked
<1>2. CASE LeaseAcquired(e, next)
  <2>1. Consistent(ctx, GateGoal, asked, lease[e])
          => Leads(ctx, Transition(ctx, "LEASE_ACQUIRED"), GateGoal, asked, "held")
    BY <1>1, <1>2, LeaseAcquiredLeads DEF LeaseAcquired
  <2>2. /\ lease[e] # "none" /\ "held" \in LeaseStatuses
        /\ LeaseEvent(e, "LEASE_ACQUIRED", "held", next)
    BY <1>2 DEF LeaseAcquired, LeaseStatuses
  <2> QED BY <1>1, <2>1, <2>2, LeaseEventIInv
<1>3. CASE LeaseAcquireFailed(e, next)
  <2>1. Consistent(ctx, GateGoal, asked, lease[e])
          => Leads(ctx, Transition(ctx, "LEASE_ACQUIRE_FAILED"), GateGoal, asked, "none")
    BY <1>1, <1>3, LeaseAcquireFailedLeads DEF LeaseAcquireFailed
  <2>2. /\ lease[e] # "none" /\ "none" \in LeaseStatuses
        /\ LeaseEvent(e, "LEASE_ACQUIRE_FAILED", "none", next)
    BY <1>3 DEF LeaseAcquireFailed, LeaseStatuses
  <2> QED BY <1>1, <2>1, <2>2, LeaseEventIInv
<1>4. CASE LeaseReleased(e, next)
  <2>1. Consistent(ctx, GateGoal, asked, lease[e])
          => Leads(ctx, Transition(ctx, "LEASE_RELEASED"), GateGoal, asked, "none")
    BY <1>1, <1>4, LeaseReleasedLeads DEF LeaseReleased
  <2>2. /\ lease[e] # "none" /\ "none" \in LeaseStatuses
        /\ LeaseEvent(e, "LEASE_RELEASED", "none", next)
    BY <1>4 DEF LeaseReleased, LeaseStatuses
  <2> QED BY <1>1, <2>1, <2>2, LeaseEventIInv
<1>5. CASE LeaseReleaseFailed(e, next)
  <2>1. Consistent(ctx, GateGoal, asked, lease[e])
          => Leads(ctx, Transition(ctx, "LEASE_RELEASE_FAILED"), GateGoal, asked, "held")
    BY <1>1, <1>5, LeaseReleaseFailedLeads DEF LeaseReleaseFailed
  <2>2. /\ lease[e] # "none" /\ "held" \in LeaseStatuses
        /\ LeaseEvent(e, "LEASE_RELEASE_FAILED", "held", next)
    BY <1>5 DEF LeaseReleaseFailed, LeaseStatuses
  <2> QED BY <1>1, <2>1, <2>2, LeaseEventIInv
<1> QED BY <1>2, <1>3, <1>4, <1>5

\* An orphaned goal ends behind the core's back, which changes nothing for it.
LEMMA OrphanEndsIInv ==
  ASSUME IInv, NEW h \in Handles, OrphanEnds(h)
  PROVE  IInv'
<1> DEFINE asked == gate \in cancelAsked
<1>1. /\ TypeOK /\ FreshHandles /\ Ownership /\ h = gate /\ GateGoal = "orphaned"
      /\ asked \in BOOLEAN
      /\ Consistent(ctx, GateGoal, asked, ActiveLease)
  BY HandleFacts DEF IInv, Ownership, MayMove, MovingStatuses, OrphanEnds, GateGoal
<1>2. /\ goal' = [goal EXCEPT ![h] = "over"]
      /\ ctx' = ctx /\ active' = active /\ generation' = generation
      /\ gate' = gate /\ frozen' = frozen /\ started' = started
      /\ cancelAsked' = cancelAsked /\ lease' = lease
  BY DEF OrphanEnds, coreVars
<1>3. GateGoal' = "over" /\ ActiveLease' = ActiveLease
  BY <1>1, <1>2, HandleFacts DEF GateGoal, ActiveLease, TypeOK
<1> HIDE DEF asked
<1>4. Consistent(ctx, "over", asked, ActiveLease)
  BY <1>1 DEF Consistent, GoalFits, MovingStatuses
<1>5. TypeOK'       BY <1>1, <1>2 DEF TypeOK, GoalStatuses
<1>6. FreshHandles' BY <1>1, <1>2, HandleFacts DEF FreshHandles, OrphanEnds, TypeOK
<1>7. Ownership'
  BY <1>1, <1>2 DEF Ownership, MayMove, MovingStatuses, OnlyActiveOwnsLease, TypeOK
<1>8. asked <=> gate' \in cancelAsked' BY <1>2 DEF asked
<1>9. Consistent(ctx', "over", asked, ActiveLease) BY <1>2, <1>4
<1> QED BY <1>3, <1>5, <1>6, <1>7, <1>8, <1>9, IInvFromParts

-----------------------------------------------------------------------------
(***************************************************************************)
(* The invariant, and the properties that follow from it.                  *)
(***************************************************************************)

LEMMA InitIInv ==
  ASSUME Init
  PROVE  IInv
<1>1. /\ ctx \in Contexts /\ ctx.state = "IDLE" /\ IsClean(ctx)
  BY CleanContextType DEF Init, States, Modes, CleanContext, IsClean
<1>2. TypeOK
  <2>1. goal \in [Handles -> GoalStatuses] /\ lease \in [Executions -> LeaseStatuses]
    BY DEF Init, GoalStatuses, LeaseStatuses
  <2>2. active \in 0..MaxExecutions /\ started \in 0..MaxExecutions
        /\ generation \in 0..MaxGeneration
    BY BoundsAssumption DEF Init
  <2> QED BY <1>1, <2>1, <2>2 DEF Init, TypeOK
<1>3. FreshHandles BY <1>1 DEF Init, FreshHandles
<1>4. Ownership
  BY <1>1 DEF Init, Ownership, MayMove, MovingStatuses, OnlyActiveOwnsLease
<1>5. GateGoal = "none" /\ ActiveLease = "none"
  BY DEF Init, GateGoal, ActiveLease
<1>6. Consistent(ctx, "none", gate \in cancelAsked, "none")
  BY <1>1, IdleFits DEF MovingStatuses
<1> QED BY <1>2, <1>3, <1>4, <1>5, <1>6 DEF IInv

LEMMA NextIInv ==
  ASSUME IInv, [Next]_vars
  PROVE  IInv'
<1>1. CASE Call
  <2>1. CASE \/ Pause \/ Stop \/ Estop \/ ResetSucceeded
             \/ \E next \in NextMission : TargetWaitExpires(next)
    BY <2>1, RequestIInv
       DEF Pause, Stop, Estop, ResetSucceeded, TargetWaitExpires, NextMission
  <2>2. CASE \E next \in NextMission : Start(next)
    BY <2>2, StartIInv
  <2>3. CASE TargetResolved
    BY <2>3, TargetResolvedIInv
  <2>4. CASE \E resolved \in BOOLEAN : Resume(resolved)
    BY <2>4, ResumeIInv
  <2> QED BY <1>1, <2>1, <2>2, <2>3, <2>4 DEF Call
<1>2. CASE NavigationAnswer
  BY <1>2, NavigationAnswerIInv DEF NavigationAnswer
<1>3. CASE LeaseAnswer
  BY <1>3, LeaseAnswerIInv DEF LeaseAnswer
<1>4. CASE \E h \in Handles : OrphanEnds(h)
  BY <1>4, OrphanEndsIInv
<1>5. CASE UNCHANGED vars
  BY <1>5 DEF IInv, TypeOK, FreshHandles, Ownership, MayMove, OnlyActiveOwnsLease,
              GateGoal, ActiveLease, vars, coreVars, worldVars
<1> QED BY <1>1, <1>2, <1>3, <1>4, <1>5 DEF Next

\* The context, the goals and the leases agree at every step, for every number
\* of executions and generations and every order of requests and answers.
THEOREM Invariant == Spec => []IInv
<1>1. Init => IInv BY InitIInv
<1>2. IInv /\ [Next]_vars => IInv' BY NextIInv
<1> QED BY <1>1, <1>2, PTL DEF Spec

\* Every variable keeps its type.
THEOREM TypeCorrect == Spec => []TypeOK
<1>1. IInv => TypeOK BY DEF IInv
<1> QED BY <1>1, Invariant, PTL

LEMMA OwnedGoal ==
  ASSUME IInv
  PROVE  OnlyOwnedGoalMoves
BY HandleFacts DEF IInv, Ownership, OnlyOwnedGoalMoves

\* No goal but the one of the active execution's current generation may move
\* the robot (handle_navigation_event, GenerationGate, RESUME's new generation).
THEOREM GoalOwnership == Spec => []OnlyOwnedGoalMoves
<1> QED BY OwnedGoal, Invariant, PTL

\* No execution but the active one holds, asks for or returns a lease.
THEOREM LeaseOwnership == Spec => []OnlyActiveOwnsLease
<1>1. IInv => OnlyActiveOwnsLease BY DEF IInv, Ownership
<1> QED BY <1>1, Invariant, PTL

\* Idle, waiting, paused or cleanly blocked, the robot is at rest: no goal may
\* move it and no lease is out.
THEOREM RestIsQuiet == Spec => []QuietAtRest
<1>1. IInv => QuietAtRest
  BY AtRestFacts DEF QuietAtRest, AtRest, MayMove
<1> QED BY <1>1, Invariant, PTL

\* EXECUTING only under a granted lease; FINALIZING only after the goal is over,
\* with its lease on the way back.
THEOREM DrivingIsLeased == Spec => []DrivesUnderLease
<1>1. IInv => DrivesUnderLease
  <2> SUFFICES ASSUME IInv PROVE DrivesUnderLease OBVIOUS
  <2>1. Consistent(ctx, GateGoal, gate \in cancelAsked, ActiveLease)
    BY DEF IInv
  <2>2. /\ ctx.state \in {"EXECUTING", "FINALIZING"} => active # 0
        /\ gate \in {NoHandle, <<active, generation>>}
    BY DEF IInv, Ownership
  <2>3. ctx.state = "EXECUTING" => lease[active] = "held"
    <3> SUFFICES ASSUME ctx.state = "EXECUTING" PROVE lease[active] = "held"
      OBVIOUS
    <3>1. ctx.cleanup = [NavigationSubmitted EXCEPT !.lease_was_active = TRUE]
      BY <2>1 DEF Consistent, ContextFits
    <3>2. /\ ctx.cleanup.lease_was_active /\ ~ctx.cleanup.lease_release_required
          /\ ~ctx.cleanup.cleanup_failed
      BY <3>1 DEF NavigationSubmitted, NoCleanup
    <3> QED BY <2>1, <2>2, <3>2 DEF Consistent, LeaseFits, ActiveLease
  <2>4. ctx.state = "FINALIZING" => lease[active] = "returning" /\ ~MayMove(gate)
    <3> SUFFICES ASSUME ctx.state = "FINALIZING"
                 PROVE  lease[active] = "returning" /\ ~MayMove(gate)
      OBVIOUS
    <3>1. /\ ctx.cleanup = [NavigationSubmitted EXCEPT !.lease_was_active = TRUE,
                                               !.lease_release_required = TRUE]
          /\ GateGoal = "over"
      BY <2>1 DEF Consistent, ContextFits, GoalFits
    <3>2. /\ ctx.cleanup.lease_release_required /\ ~ctx.cleanup.lease_release_confirmed
          /\ ~ctx.cleanup.cleanup_failed
      BY <3>1 DEF NavigationSubmitted, NoCleanup
    <3>3. lease[active] = "returning"
      BY <2>1, <2>2, <3>2 DEF Consistent, LeaseFits, ActiveLease
    <3> QED BY <3>1, <3>3 DEF GateGoal, MayMove, MovingStatuses
  <2> QED BY <2>3, <2>4 DEF DrivesUnderLease
<1> QED BY <1>1, Invariant, PTL

\* An execution is only left behind once its goals are over and its lease was
\* returned, whichever handler ends it.
THEOREM NothingLeftBehind == Spec => EndsOnlyWhenReleased
<1>1. ASSUME IInv, IInv', active # 0, active' # active
      PROVE  /\ lease'[active] = "none"
             /\ \A g \in Generations : goal'[<<active, g>>] \notin MovingStatuses
  <2>1. active \in Executions
    BY <1>1, BoundsAssumption DEF IInv, TypeOK, Executions
  <2>2. lease'[active] = "none"
    BY <1>1, <2>1 DEF IInv, Ownership, OnlyActiveOwnsLease
  <2>3. ASSUME NEW g \in Generations
        PROVE  goal'[<<active, g>>] \notin MovingStatuses
    <3>1. <<active, g>> \in Handles BY <2>1 DEF Handles
    <3>2. OnlyOwnedGoalMoves'
      BY <1>1, HandleFacts DEF IInv, Ownership, OnlyOwnedGoalMoves, MayMove
    <3> QED BY <1>1, <3>1, <3>2 DEF OnlyOwnedGoalMoves, MayMove
  <2> QED BY <2>2, <2>3
<1>2. IInv /\ IInv' /\ [Next]_vars =>
        [active # 0 /\ active' # active
           => /\ lease'[active] = "none"
              /\ \A g \in Generations : goal'[<<active, g>>] \notin MovingStatuses]_vars
  BY <1>1
<1> QED BY <1>2, Invariant, PTL DEF Spec, EndsOnlyWhenReleased

\* A goal is only submitted when no other may still move the robot.
THEOREM OneGoalAtATime == Spec => SubmitsOneAtATime
<1>1. ASSUME IInv', NEW h \in Handles, goal'[h] = "sent",
             NEW other \in Handles \ {h}
      PROVE  goal'[other] \notin MovingStatuses
  BY <1>1 DEF IInv, Ownership, MayMove, MovingStatuses
<1>2. IInv' /\ [Next]_vars =>
        [\A h \in Handles : goal[h] = "none" /\ goal'[h] = "sent"
           => \A other \in Handles \ {h} : goal'[other] \notin MovingStatuses]_vars
  BY <1>1
<1> QED BY <1>2, Invariant, PTL DEF Spec, SubmitsOneAtATime

\* A failed cleanup can only be followed by more of the same.
LEMMA FailureStays ==
  ASSUME NEW c \in Contexts, c.cleanup.cleanup_failed,
         c.state \in {"SAFETY_BLOCKED", "CANCELING"}, NEW event
  PROVE  LET d == Transition(c, event)
         IN /\ d.effects \cap TerminalEffects = {}
            /\ d.next.cleanup.cleanup_failed
            /\ d.next.state \in {"SAFETY_BLOCKED", "CANCELING"}
            /\ event = "RESUME_ALLOWED" => ~d.accepted
<1> DEFINE Stays(d) == /\ d.effects \cap TerminalEffects = {}
                       /\ d.next.cleanup.cleanup_failed
                       /\ d.next.state \in {"SAFETY_BLOCKED", "CANCELING"}
           k == c.cleanup
<1>0. k \in CleanupContexts /\ ~IsClean(c) /\ ~IsCleanSafetyBlocked(c)
  BY DEF Contexts, IsClean, NoCleanup, IsCleanSafetyBlocked
<1>1. Stays(Reject(c)) /\ Stays(Accept(c, {}))
  BY DEF Reject, Accept
<1>2. ASSUME NEW next, next.cleanup.cleanup_failed, next.state = "CANCELING",
             NEW previous
      PROVE  Stays(FinishCanceling(previous, next))
  BY <1>2 DEF FinishCanceling, CleanupComplete, Accept
<1>3. Stays(EstopRequested(c))
  <2> DEFINE request == c.state # "FINALIZING"
             cancel  == request /\ CancelDue(k)
             release == request /\ ReleaseDue(k)
             cleanup == [k EXCEPT !.navigation_cancel_required = @ \/ cancel,
                                  !.lease_release_required = @ \/ release]
  <2>1. cleanup.cleanup_failed
    BY <1>0 DEF CleanupContexts
  <2>2. Stays(StartEmergencyCanceling(c, request))
    <3> HIDE DEF request
    <3> QED
      BY <2>1 DEF StartEmergencyCanceling, CleanupComplete, Accept, EffectIf,
                  TerminalEffects
  <2>3. c.state # "IDLE" /\ c.state \notin RestingStates
    BY DEF RestingStates
  <2> HIDE DEF Stays
  <2> QED BY <1>0, <1>1, <2>2, <2>3 DEF EstopRequested, Contexts, Modes
<1>4. ASSUME c.state = "CANCELING" PROVE Stays(Canceling(c, event))
  <2>1. ASSUME NEW cleanup, cleanup.cleanup_failed
        PROVE  Stays(FinishCanceling(c, [c EXCEPT !.cleanup = cleanup]))
    <3> DEFINE next == [c EXCEPT !.cleanup = cleanup]
    <3>1. next.cleanup.cleanup_failed /\ next.state = "CANCELING"
      BY <1>4, <2>1 DEF Contexts
    <3> HIDE DEF Stays, next
    <3>2. Stays(FinishCanceling(c, next)) BY <1>2, <3>1
    <3> QED BY <3>2 DEF next
  <2>2. /\ [k EXCEPT !.navigation_cancel_confirmed = TRUE].cleanup_failed
        /\ [k EXCEPT !.lease_release_confirmed = TRUE].cleanup_failed
        /\ [k EXCEPT !.lease_acquire_pending = FALSE].cleanup_failed
    BY <1>0 DEF CleanupContexts
  <2>3. Stays(AcquiredInCanceling(c))
    BY <1>0, <1>4
       DEF AcquiredInCanceling, Accept, Reject, Contexts, CleanupContexts,
           TerminalEffects
  <2>4. Stays(CleanupFailed(c))
    BY <1>0 DEF CleanupFailed, Accept, Contexts, CleanupContexts
  <2> HIDE DEF Stays
  <2>5. /\ Stays(NavigationStopped(c)) /\ Stays(ReleasedInCanceling(c))
        /\ Stays(AcquireFailedInCanceling(c))
    BY <1>1, <2>1, <2>2
       DEF NavigationStopped, ReleasedInCanceling, AcquireFailedInCanceling
  <2> QED BY <1>1, <2>3, <2>4, <2>5 DEF Canceling
<1>5. /\ ResumeAllowed(c) = Reject(c) /\ StopRequested(c) = Reject(c)
      /\ ReturnHomeAllowed(c) = Reject(c) /\ SafetyBlockRequested(c) = Reject(c)
      /\ ResetEstopAllowed(c) = Reject(c)
      /\ GoalPrepared(c) = Reject(c) /\ TargetNotReady(c) = Reject(c)
      /\ TargetWaitTimeout(c) = Reject(c)
      /\ PauseRequested(c) \in {Reject(c), Accept(c, {})}
  BY <1>0
     DEF ResumeAllowed, StopRequested, ReturnHomeAllowed, EndExecution,
         SafetyBlockRequested, ResetEstopAllowed, GoalPrepared, TargetNotReady,
         TargetWaitTimeout, PauseRequested, RestingStates, MovingStates
<1>6. Stays(AdapterEvent(c, event))
  <2> HIDE DEF Stays
  <2> QED BY <1>1, <1>4 DEF AdapterEvent
<1>7. Stays(Transition(c, event))
  <2> HIDE DEF Stays
  <2> QED BY <1>1, <1>3, <1>5, <1>6 DEF Transition
<1>8. event = "RESUME_ALLOWED" => ~Transition(c, event).accepted
  BY <1>5 DEF Transition, Reject
<1> QED BY <1>7, <1>8

LEMMA AppliedFailureStays ==
  ASSUME IInv, ctx.cleanup.cleanup_failed,
         NEW event, NEW goals, NEW leases, NEW next, Apply(event, goals, leases, next)
  PROVE  /\ ctx'.cleanup.cleanup_failed
         /\ active' = active
         /\ ctx'.state \in {"SAFETY_BLOCKED", "CANCELING"}
<1>1. ctx \in Contexts /\ ctx.state \in {"SAFETY_BLOCKED", "CANCELING"}
  BY DEF IInv, TypeOK, Consistent, ContextFits
<1> QED BY <1>1, FailureStays DEF Apply

\* A failed cleanup is never forgotten: nothing makes the execution clean again,
\* ends it or starts another.
THEOREM FailureIsSticky == Spec => FailedCleanupSticks
<1>1. ASSUME IInv, Next, ctx.cleanup.cleanup_failed
      PROVE  /\ ctx'.cleanup.cleanup_failed
             /\ active' = active
             /\ ctx'.state \in {"SAFETY_BLOCKED", "CANCELING"}
  <2>1. /\ ctx \in Contexts /\ ctx.state \in {"SAFETY_BLOCKED", "CANCELING"}
        /\ active # 0
    BY <1>1 DEF IInv, TypeOK, Consistent, ContextFits, Ownership
  <2>2. ~Transition(ctx, "RESUME_ALLOWED").accepted
    BY <1>1, <2>1, FailureStays
  <2>3. CASE Call
    BY <1>1, <2>1, <2>2, <2>3, AppliedFailureStays
       DEF Call, Pause, Stop, Estop, ResetSucceeded, TargetResolved, Resume, Start,
           TargetWaitExpires
  <2>4. CASE NavigationAnswer
    BY <1>1, <2>1, <2>4, AppliedFailureStays
       DEF NavigationAnswer, GoalAccepted, GoalRejected, GoalSucceeded, GoalFailed,
           CancelConfirmed, CancelFailed, NavigationEvent, coreVars
  <2>5. CASE LeaseAnswer
    BY <1>1, <2>1, <2>5, AppliedFailureStays
       DEF LeaseAnswer, LeaseAcquired, LeaseAcquireFailed, LeaseReleased,
           LeaseReleaseFailed, LeaseEvent, coreVars
  <2>6. CASE \E h \in Handles : OrphanEnds(h)
    BY <1>1, <2>1, <2>6 DEF OrphanEnds, coreVars
  <2> QED BY <1>1, <2>3, <2>4, <2>5, <2>6 DEF Next
<1>2. IInv /\ [Next]_vars =>
        [ctx.cleanup.cleanup_failed
           => /\ ctx'.cleanup.cleanup_failed
              /\ active' = active
              /\ ctx'.state \in {"SAFETY_BLOCKED", "CANCELING"}]_vars
  BY <1>1
<1> QED BY <1>2, Invariant, PTL DEF Spec, FailedCleanupSticks

-----------------------------------------------------------------------------
(***************************************************************************)
(* What an execution ends as: what was asked of it, and nothing else.      *)
(***************************************************************************)

\* The terminal effects of a decision in context c agree with what its execution
\* is canceled for, and only a finished goal succeeds.
EndFits(c, effects) ==
  /\ c.cancel_intent = "STOP" =>
       effects \cap TerminalEffects
         \subseteq {"TERMINAL_CANCELED", "TERMINAL_EMERGENCY_STOPPED"}
  /\ c.cancel_intent = "ESTOP" =>
       effects \cap TerminalEffects \subseteq {"TERMINAL_EMERGENCY_STOPPED"}
  /\ "TERMINAL_SUCCEEDED" \in effects => c.state = "FINALIZING"

Decided(c, d) ==
  /\ IntentFits(d.next)
  /\ c.manager_mode = "EMERGENCY_LATCHED" =>
       d.next.manager_mode = "EMERGENCY_LATCHED"
  /\ EndFits(c, d.effects)

LEMMA CleanIntent ==
  ASSUME NEW state \in States \ {"CANCELING"}, NEW mode \in Modes,
         mode = "NORMAL" \/ state = "IDLE"
  PROVE  IntentFits(CleanContext(state, mode))
BY DEF IntentFits, CleanContext, Modes

\* No decision that is not a cancellation's end concerns a canceled execution.
LEMMA OpenEnd ==
  ASSUME NEW c \in Contexts, c.cancel_intent = "NONE", NEW effects,
         "TERMINAL_SUCCEEDED" \notin effects
  PROVE  EndFits(c, effects)
BY DEF EndFits

\* Finishing a cancellation, with what is confirmed by now in `cleanup`.
LEMMA FinishDecided ==
  ASSUME NEW c \in Contexts, c.state = "CANCELING", IntentFits(c),
         NEW cleanup \in CleanupContexts
  PROVE  Decided(c, FinishCanceling(c, [c EXCEPT !.cleanup = cleanup]))
<1> DEFINE next == [c EXCEPT !.cleanup = cleanup]
<1>1. /\ next.state = "CANCELING" /\ next.cleanup = cleanup
      /\ next.cancel_intent = c.cancel_intent
      /\ next.pending_outcome = c.pending_outcome
      /\ next.manager_mode = c.manager_mode
  BY DEF Contexts
<1> HIDE DEF next
<1>2. c.manager_mode \in Modes BY DEF Contexts
<1>3. CASE ~CleanupComplete(cleanup)
  <2>1. FinishCanceling(c, next) = Accept(next, {})
    BY <1>1, <1>3 DEF FinishCanceling
  <2>2. IntentFits(next) BY <1>1, <1>3 DEF IntentFits
  <2>3. Decided(c, Accept(next, {}))
    BY <1>1, <2>2 DEF Accept, Decided, EndFits
  <2> QED BY <2>1, <2>3 DEF next
<1>4. CASE CleanupComplete(cleanup)
  <2>1. /\ IntentFits(CleanContext("PAUSED", "NORMAL"))
        /\ IntentFits(CleanContext("SAFETY_BLOCKED", "NORMAL"))
        /\ IntentFits(CleanContext("IDLE", "NORMAL"))
        /\ IntentFits(CleanContext("IDLE", "EMERGENCY_LATCHED"))
    BY CleanIntent DEF States, Modes
  <2>2. c.manager_mode = "EMERGENCY_LATCHED" =>
          c.pending_outcome = "EMERGENCY_STOPPED"
    BY DEF IntentFits
  <2>3. /\ c.cancel_intent = "STOP" => c.pending_outcome = "CANCELED"
        /\ c.cancel_intent = "ESTOP" => c.pending_outcome = "EMERGENCY_STOPPED"
    BY DEF IntentFits
  <2>4. ASSUME NEW state, NEW mode, NEW effects,
               IntentFits(CleanContext(state, mode)),
               c.manager_mode = "EMERGENCY_LATCHED" => mode = "EMERGENCY_LATCHED",
               EndFits(c, effects)
        PROVE  Decided(c, Accept(CleanContext(state, mode), effects))
    BY <2>4 DEF Decided, Accept, CleanContext
  <2>5. Decided(c, Reject(c))
    BY DEF Decided, Reject, EndFits
  <2>6. CASE c.pending_outcome = "PAUSED"
    <3>1. EndFits(c, {}) BY DEF EndFits
    <3>2. FinishCanceling(c, next) = Accept(CleanContext("PAUSED", "NORMAL"), {})
      BY <1>1, <1>4, <2>6 DEF FinishCanceling
    <3> QED BY <2>1, <2>2, <2>4, <2>6, <3>1, <3>2 DEF next
  <2>7. CASE c.pending_outcome = "SAFETY_BLOCKED"
    <3>1. EndFits(c, {}) BY DEF EndFits
    <3>2. FinishCanceling(c, next)
            = Accept(CleanContext("SAFETY_BLOCKED", "NORMAL"), {})
      BY <1>1, <1>4, <2>7 DEF FinishCanceling
    <3> QED BY <2>1, <2>2, <2>4, <2>7, <3>1, <3>2 DEF next
  <2>8. CASE c.pending_outcome = "CANCELED"
    <3>1. EndFits(c, {"TERMINAL_CANCELED"})
      BY <2>3, <2>8 DEF EndFits
    <3>2. FinishCanceling(c, next)
            = Accept(CleanContext("IDLE", "NORMAL"), {"TERMINAL_CANCELED"})
      BY <1>1, <1>4, <2>8 DEF FinishCanceling
    <3> QED BY <2>1, <2>2, <2>4, <2>8, <3>1, <3>2 DEF next
  <2>9. CASE c.pending_outcome = "START_RETURN_HOME"
    <3>1. EndFits(c, {"TERMINAL_CANCELED", "START_RETURN_HOME"})
      BY <2>3, <2>9 DEF EndFits
    <3>2. FinishCanceling(c, next)
            = Accept(CleanContext("IDLE", "NORMAL"),
                     {"TERMINAL_CANCELED", "START_RETURN_HOME"})
      BY <1>1, <1>4, <2>9 DEF FinishCanceling
    <3> QED BY <2>1, <2>2, <2>4, <2>9, <3>1, <3>2 DEF next
  <2>10. CASE c.pending_outcome = "EMERGENCY_STOPPED"
    <3>1. EndFits(c, {"TERMINAL_EMERGENCY_STOPPED"})
      BY <2>3, <2>10 DEF EndFits, TerminalEffects
    <3>2. FinishCanceling(c, next)
            = Accept(CleanContext("IDLE", "EMERGENCY_LATCHED"),
                     {"TERMINAL_EMERGENCY_STOPPED"})
      BY <1>1, <1>4, <2>10 DEF FinishCanceling
    <3> QED BY <2>1, <2>2, <2>4, <2>10, <3>1, <3>2 DEF next
  <2>11. CASE c.pending_outcome \notin {"PAUSED", "SAFETY_BLOCKED", "CANCELED",
                                        "START_RETURN_HOME", "EMERGENCY_STOPPED"}
    <3>1. FinishCanceling(c, next) = Reject(c)
      BY <1>1, <1>4, <2>11 DEF FinishCanceling
    <3> QED BY <2>5, <3>1 DEF next
  <2> QED BY <2>6, <2>7, <2>8, <2>9, <2>10, <2>11
<1> QED BY <1>3, <1>4

\* Starting a cancellation that there is something to clean up for.
LEMMA StartCancelingDecided ==
  ASSUME NEW c \in Contexts, c.cancel_intent = "NONE", c.manager_mode = "NORMAL",
         c.cleanup.navigation_submitted, ~c.cleanup.navigation_cancel_confirmed,
         NEW intent \in Intents \ {"ESTOP"}, NEW outcome,
         intent = "STOP" => outcome = "CANCELED"
  PROVE  Decided(c, StartCanceling(c, intent, outcome))
<1> DEFINE d == StartCanceling(c, intent, outcome)
           k == c.cleanup
           cleanup == [k EXCEPT
             !.navigation_cancel_required = @ \/ k.navigation_submitted,
             !.lease_release_required = @ \/ k.lease_was_active]
<1>1. k \in CleanupContexts BY DEF Contexts
<1>2. /\ cleanup.navigation_cancel_required
      /\ ~cleanup.navigation_cancel_confirmed
  BY <1>1 DEF CleanupContexts
<1>3. ~CleanupComplete(cleanup)
  <2> HIDE DEF cleanup
  <2> QED BY <1>2 DEF CleanupComplete
<1>4. /\ d.next.state = "CANCELING" /\ d.next.cancel_intent = intent
      /\ d.next.pending_outcome = outcome /\ d.next.manager_mode = "NORMAL"
      /\ d.next.cleanup = cleanup
  BY DEF StartCanceling, Accept, Contexts
<1>5. "TERMINAL_SUCCEEDED" \notin d.effects
  BY DEF StartCanceling, Accept, EffectIf
<1> HIDE DEF d, cleanup
<1>6. IntentFits(d.next) BY <1>3, <1>4 DEF IntentFits
<1>7. EndFits(c, d.effects) BY <1>5, OpenEnd
<1> QED BY <1>6, <1>7 DEF Decided, d

LEMMA EmergencyDecided ==
  ASSUME NEW c \in Contexts, c.manager_mode = "NORMAL", IntentFits(c),
         NEW request \in BOOLEAN
  PROVE  Decided(c, StartEmergencyCanceling(c, request))
<1> DEFINE k         == c.cleanup
           cancel    == request /\ CancelDue(k)
           release   == request /\ ReleaseDue(k)
           cleanup   == [k EXCEPT !.navigation_cancel_required = @ \/ cancel,
                                  !.lease_release_required = @ \/ release]
           requested == {"REQUEST_SAFETY_ESTOP"}
                          \cup EffectIf(cancel, "CANCEL_NAVIGATION")
                          \cup EffectIf(release, "RELEASE_LEASE")
           canceling == [state           |-> "CANCELING",
                         manager_mode    |-> "EMERGENCY_LATCHED",
                         cancel_intent   |-> "ESTOP",
                         pending_outcome |-> "EMERGENCY_STOPPED",
                         cleanup         |-> cleanup]
<1>1. requested \cap TerminalEffects = {}
  BY DEF EffectIf, TerminalEffects
<1>2. c.cancel_intent # "ESTOP" BY DEF IntentFits
<1>3. StartEmergencyCanceling(c, request)
        = IF CleanupComplete(cleanup)
          THEN Accept(CleanContext("IDLE", "EMERGENCY_LATCHED"),
                      requested \cup {"TERMINAL_EMERGENCY_STOPPED"})
          ELSE Accept(canceling, requested)
  BY DEF StartEmergencyCanceling
<1> HIDE DEF requested, cleanup
<1>4. CASE CleanupComplete(cleanup)
  <2>1. IntentFits(CleanContext("IDLE", "EMERGENCY_LATCHED"))
    BY CleanIntent DEF States, Modes
  <2>2. EndFits(c, requested \cup {"TERMINAL_EMERGENCY_STOPPED"})
    BY <1>1, <1>2 DEF EndFits, TerminalEffects
  <2> QED BY <1>3, <1>4, <2>1, <2>2 DEF Decided, Accept
<1>5. CASE ~CleanupComplete(cleanup)
  <2>1. IntentFits(canceling) BY <1>5 DEF IntentFits
  <2>2. EndFits(c, requested) BY <1>1, <1>2 DEF EndFits, TerminalEffects
  <2> QED BY <1>3, <1>5, <2>1, <2>2 DEF Decided, Accept
<1> QED BY <1>4, <1>5

\* What is known of a context that is not yet, or no longer, canceled.
LEMMA OpenContext ==
  ASSUME NEW c \in Contexts, ContextFits(c), IntentFits(c)
  PROVE  /\ c.state \notin {"CANCELING", "SAFETY_BLOCKED"} => c.cancel_intent = "NONE"
         /\ IsClean(c) => c.cancel_intent = "NONE"
         /\ c.state \notin {"IDLE", "CANCELING", "SAFETY_BLOCKED"} =>
              c.manager_mode = "NORMAL"
         /\ IsCleanSafetyBlocked(c) => c.manager_mode = "NORMAL"
         /\ c.state \in MovingStates => /\ c.cleanup.navigation_submitted
                                        /\ ~c.cleanup.navigation_cancel_confirmed
         /\ c.state = "FINALIZING" => ~CleanupComplete(c.cleanup)
<1>1. /\ c.state \notin {"CANCELING", "SAFETY_BLOCKED"} => c.cancel_intent = "NONE"
      /\ IsClean(c) => c.cancel_intent = "NONE"
  BY DEF IntentFits, IsClean
<1>2. c.manager_mode \in Modes BY DEF Contexts
<1>3. /\ c.state \notin {"IDLE", "CANCELING", "SAFETY_BLOCKED"} =>
              c.manager_mode = "NORMAL"
      /\ IsCleanSafetyBlocked(c) => c.manager_mode = "NORMAL"
  BY <1>2 DEF ContextFits, IntentFits, Modes, IsCleanSafetyBlocked, IsClean
<1>4. c.state \in MovingStates => /\ c.cleanup.navigation_submitted
                                  /\ ~c.cleanup.navigation_cancel_confirmed
  BY DEF ContextFits, MovingStates, NavigationSubmitted, NoCleanup
<1>5. c.state = "FINALIZING" => ~CleanupComplete(c.cleanup)
  <2> SUFFICES ASSUME c.state = "FINALIZING" PROVE ~CleanupComplete(c.cleanup)
    OBVIOUS
  <2>1. c.cleanup.lease_release_required /\ ~c.cleanup.lease_release_confirmed
    BY DEF ContextFits, NavigationSubmitted, NoCleanup
  <2> QED BY <2>1 DEF CleanupComplete
<1> QED BY <1>1, <1>3, <1>4, <1>5

\* A request only ends an execution that has nothing to clean up.
LEMMA RequestEndsAtRest ==
  ASSUME NEW c \in Contexts, ContextFits(c), IntentFits(c),
         NEW event \in {"PAUSE_REQUESTED", "STOP_REQUESTED", "ESTOP_REQUESTED"},
         Ends(Transition(c, event))
  PROVE  c.state \in RestingStates \cup {"SAFETY_BLOCKED"}
<1>1. /\ ~Ends(Reject(c)) /\ ~Ends(Accept(c, {}))
      /\ \A next : ~Ends(Accept(next, {}))
      /\ \A intent, outcome : ~Ends(StartCanceling(c, intent, outcome))
  BY DEF Ends, Reject, Accept, StartCanceling, EffectIf, TerminalEffects
<1>2. Transition(c, event) \in {PauseRequested(c), StopRequested(c), EstopRequested(c),
                                Reject(c)}
  BY DEF Transition
<1>3. ~Ends(PauseRequested(c)) BY <1>1 DEF PauseRequested
<1>4. Ends(StopRequested(c)) => c.state \in RestingStates \cup {"SAFETY_BLOCKED"}
  BY <1>1 DEF StopRequested, EndExecution, IsCleanSafetyBlocked
<1>5. ASSUME c.state \in MovingStates \cup {"FINALIZING", "CANCELING"}
      PROVE  ~Ends(StartEmergencyCanceling(c, c.state # "FINALIZING"))
  <2> DEFINE request   == c.state # "FINALIZING"
             k         == c.cleanup
             cancel    == request /\ CancelDue(k)
             release   == request /\ ReleaseDue(k)
             cleanup   == [k EXCEPT !.navigation_cancel_required = @ \/ cancel,
                                    !.lease_release_required = @ \/ release]
             requested == {"REQUEST_SAFETY_ESTOP"}
                            \cup EffectIf(cancel, "CANCEL_NAVIGATION")
                            \cup EffectIf(release, "RELEASE_LEASE")
  <2>1. k \in CleanupContexts BY DEF Contexts
  <2>2. /\ cleanup.navigation_cancel_required
             <=> (k.navigation_cancel_required \/ cancel)
        /\ cleanup.lease_release_required <=> (k.lease_release_required \/ release)
        /\ cleanup.navigation_cancel_confirmed = k.navigation_cancel_confirmed
        /\ cleanup.lease_release_confirmed = k.lease_release_confirmed
        /\ cleanup.lease_acquire_pending = k.lease_acquire_pending
        /\ cleanup.cleanup_failed = k.cleanup_failed
    BY <2>1 DEF CleanupContexts
  <2>3. c.state \in {"FINALIZING", "CANCELING"} => ~CleanupComplete(k)
    BY OpenContext DEF IntentFits
  <2>4. c.state \in MovingStates => /\ k.navigation_submitted
                                    /\ ~k.navigation_cancel_confirmed
                                    /\ request
    BY OpenContext DEF MovingStates
  <2> HIDE DEF cleanup, k, request
  <2>5. ~CleanupComplete(cleanup)
    BY <1>5, <2>2, <2>3, <2>4 DEF CleanupComplete, CancelDue
  <2>6. StartEmergencyCanceling(c, request)
          = Accept([state           |-> "CANCELING",
                    manager_mode    |-> "EMERGENCY_LATCHED",
                    cancel_intent   |-> "ESTOP",
                    pending_outcome |-> "EMERGENCY_STOPPED",
                    cleanup         |-> cleanup], requested)
    BY <2>5 DEF StartEmergencyCanceling, cleanup, k
  <2>7. requested \cap TerminalEffects = {} BY DEF EffectIf, TerminalEffects
  <2> QED BY <2>6, <2>7 DEF Ends, Accept, request
<1>6. Ends(EstopRequested(c)) => c.state \in RestingStates \cup {"SAFETY_BLOCKED"}
  <2>1. ~Ends(Accept(CleanContext("IDLE", "EMERGENCY_LATCHED"),
                     {"REQUEST_SAFETY_ESTOP"}))
    BY DEF Ends, Accept, TerminalEffects
  <2>2. c.manager_mode \in Modes /\ c.state \in States BY DEF Contexts
  <2>3. CASE /\ c.manager_mode = "NORMAL"
             /\ c.state \in MovingStates \cup {"FINALIZING", "CANCELING"}
    <3>1. EstopRequested(c) = StartEmergencyCanceling(c, c.state # "FINALIZING")
      BY <2>3 DEF EstopRequested, RestingStates, MovingStates, IsCleanSafetyBlocked
    <3> QED BY <1>5, <2>3, <3>1
  <2>4. CASE c.manager_mode = "NORMAL" /\ c.state = "IDLE"
    <3>1. EstopRequested(c) = Accept(CleanContext("IDLE", "EMERGENCY_LATCHED"),
                                     {"REQUEST_SAFETY_ESTOP"})
      BY <2>4 DEF EstopRequested, RestingStates, IsCleanSafetyBlocked
    <3> QED BY <2>1, <3>1
  <2>5. CASE c.manager_mode = "EMERGENCY_LATCHED"
    BY <1>1, <2>5 DEF EstopRequested
  <2> QED BY <2>2, <2>3, <2>4, <2>5 DEF Modes, States, RestingStates, MovingStates
<1> QED BY <1>1, <1>2, <1>3, <1>4, <1>6

\* An execution that is not canceled goes on in normal mode, or ends.
LEMMA OpenDecided ==
  ASSUME NEW c \in Contexts, c.cancel_intent = "NONE", c.manager_mode = "NORMAL",
         NEW next, next.cancel_intent = "NONE", next.manager_mode = "NORMAL",
         next.state # "CANCELING",
         NEW effects, "TERMINAL_SUCCEEDED" \in effects => c.state = "FINALIZING"
  PROVE  Decided(c, Accept(next, effects))
BY DEF Decided, IntentFits, EndFits, Accept

LEMMA SameDecided ==
  ASSUME NEW c, IntentFits(c)
  PROVE  Decided(c, Reject(c)) /\ Decided(c, Accept(c, {}))
BY DEF Decided, EndFits, Reject, Accept

LEMMA EstopDecided ==
  ASSUME NEW c \in Contexts, ContextFits(c), IntentFits(c)
  PROVE  Decided(c, EstopRequested(c))
<1>1. c.manager_mode \in Modes BY DEF Contexts
<1>2. ASSUME NEW effects, c.cancel_intent = "NONE",
             "TERMINAL_SUCCEEDED" \notin effects
      PROVE  Decided(c, Accept(CleanContext("IDLE", "EMERGENCY_LATCHED"), effects))
  <2>1. IntentFits(CleanContext("IDLE", "EMERGENCY_LATCHED"))
    BY CleanIntent DEF States, Modes
  <2>2. EndFits(c, effects) BY <1>2, OpenEnd
  <2> QED BY <2>1, <2>2 DEF Decided, Accept, CleanContext
<1>3. c.state \in {"IDLE"} \cup RestingStates \/ IsCleanSafetyBlocked(c) =>
        c.cancel_intent = "NONE"
  BY OpenContext DEF RestingStates, IsCleanSafetyBlocked
<1>4. CASE c.manager_mode = "EMERGENCY_LATCHED"
  BY <1>4, SameDecided DEF EstopRequested
<1>5. CASE c.manager_mode = "NORMAL" /\ c.state = "IDLE"
  BY <1>2, <1>3, <1>5 DEF EstopRequested
<1>6. CASE /\ c.manager_mode = "NORMAL" /\ c.state # "IDLE"
           /\ c.state \in RestingStates \/ IsCleanSafetyBlocked(c)
  <2>1. EstopRequested(c) = Accept(CleanContext("IDLE", "EMERGENCY_LATCHED"),
                             {"REQUEST_SAFETY_ESTOP", "TERMINAL_EMERGENCY_STOPPED"})
    BY <1>6 DEF EstopRequested
  <2> QED BY <1>2, <1>3, <1>6, <2>1
<1>7. CASE /\ c.manager_mode = "NORMAL" /\ c.state # "IDLE"
           /\ ~(c.state \in RestingStates \/ IsCleanSafetyBlocked(c))
  <2>1. EstopRequested(c) = StartEmergencyCanceling(c, c.state # "FINALIZING")
    BY <1>7 DEF EstopRequested
  <2> QED BY <1>7, <2>1, EmergencyDecided
<1> QED BY <1>1, <1>4, <1>5, <1>6, <1>7 DEF Modes

LEMMA CanceledDecided ==
  ASSUME NEW c \in Contexts, ContextFits(c), IntentFits(c), c.state = "CANCELING",
         NEW event
  PROVE  Decided(c, Canceling(c, event))
<1> DEFINE k == c.cleanup
<1>1. k \in CleanupContexts BY DEF Contexts
<1>2. /\ [k EXCEPT !.navigation_cancel_confirmed = TRUE] \in CleanupContexts
      /\ [k EXCEPT !.lease_release_confirmed = TRUE] \in CleanupContexts
      /\ [k EXCEPT !.lease_acquire_pending = FALSE] \in CleanupContexts
  BY <1>1 DEF CleanupContexts
<1> HIDE DEF k
<1>3. Decided(c, Reject(c)) BY SameDecided
<1>4. /\ Decided(c, NavigationStopped(c)) /\ Decided(c, ReleasedInCanceling(c))
      /\ Decided(c, AcquireFailedInCanceling(c))
  BY <1>2, <1>3, FinishDecided
     DEF NavigationStopped, ReleasedInCanceling, AcquireFailedInCanceling, k
<1>5. Decided(c, CleanupFailed(c))
  <2> DEFINE next == CleanupFailed(c).next
  <2>1. /\ next.state = "SAFETY_BLOCKED" /\ next.cancel_intent = c.cancel_intent
        /\ next.pending_outcome = c.pending_outcome
        /\ next.manager_mode = c.manager_mode
        /\ CleanupFailed(c).effects = {}
    BY DEF CleanupFailed, Accept, Contexts
  <2> HIDE DEF next
  <2>2. IntentFits(next) BY <2>1 DEF IntentFits
  <2> QED BY <2>1, <2>2 DEF Decided, EndFits, next
<1>6. Decided(c, AcquiredInCanceling(c))
  <2> DEFINE cleanup == [k EXCEPT !.lease_acquire_pending = FALSE,
                                  !.lease_was_active = TRUE,
                                  !.lease_release_required = TRUE,
                                  !.lease_release_confirmed = FALSE]
             next == [c EXCEPT !.cleanup = cleanup]
  <2>1. cleanup.lease_release_required /\ ~cleanup.lease_release_confirmed
    BY <1>1 DEF CleanupContexts
  <2> HIDE DEF cleanup
  <2>2. /\ next.state = "CANCELING" /\ next.cancel_intent = c.cancel_intent
        /\ next.pending_outcome = c.pending_outcome
        /\ next.manager_mode = c.manager_mode /\ next.cleanup = cleanup
    BY DEF Contexts
  <2> HIDE DEF next
  <2>3. IntentFits(next) BY <2>1, <2>2 DEF IntentFits, CleanupComplete
  <2>4. Decided(c, Accept(next, {"RELEASE_LEASE"}))
    BY <2>2, <2>3 DEF Decided, EndFits, Accept, TerminalEffects
  <2> QED BY <1>3, <2>4 DEF AcquiredInCanceling, next, cleanup, k
<1> QED BY <1>3, <1>4, <1>5, <1>6 DEF Canceling

LEMMA RequestDecided ==
  ASSUME NEW c \in Contexts, ContextFits(c), IntentFits(c), c.manager_mode = "NORMAL"
  PROVE  /\ Decided(c, PauseRequested(c)) /\ Decided(c, StopRequested(c))
         /\ Decided(c, ReturnHomeAllowed(c)) /\ Decided(c, ResumeAllowed(c))
         /\ Decided(c, SafetyBlockRequested(c)) /\ Decided(c, GoalPrepared(c))
         /\ Decided(c, TargetNotReady(c)) /\ Decided(c, TargetWaitTimeout(c))
<1>1. Decided(c, Reject(c)) /\ Decided(c, Accept(c, {})) BY SameDecided
<1>2. c.state \notin {"CANCELING", "SAFETY_BLOCKED"} \/ IsCleanSafetyBlocked(c) =>
        c.cancel_intent = "NONE"
  BY OpenContext DEF IsCleanSafetyBlocked
<1>3. ASSUME NEW state, state # "CANCELING", c.cancel_intent = "NONE",
             NEW effects, "TERMINAL_SUCCEEDED" \notin effects
      PROVE  Decided(c, Accept(CleanContext(state, "NORMAL"), effects))
  BY <1>3, OpenDecided DEF CleanContext
<1>4. ASSUME c.state \in MovingStates, NEW intent \in Intents \ {"ESTOP"}, NEW outcome,
             intent = "STOP" => outcome = "CANCELED"
      PROVE  Decided(c, StartCanceling(c, intent, outcome))
  BY <1>2, <1>4, OpenContext, StartCancelingDecided DEF MovingStates
<1>5. ASSUME NEW intent \in Intents \ {"ESTOP"}, NEW outcome,
             intent = "STOP" => outcome = "CANCELED",
             NEW effects, "TERMINAL_SUCCEEDED" \notin effects
      PROVE  Decided(c, EndExecution(c, intent, outcome, effects))
  <2>1. ASSUME c.state = "FINALIZING"
        PROVE  Decided(c, Accept([c EXCEPT !.state = "CANCELING",
                                           !.cancel_intent = intent,
                                           !.pending_outcome = outcome], {}))
    <3> DEFINE next == [c EXCEPT !.state = "CANCELING", !.cancel_intent = intent,
                                 !.pending_outcome = outcome]
    <3>1. /\ next.state = "CANCELING" /\ next.cancel_intent = intent
          /\ next.pending_outcome = outcome /\ next.manager_mode = "NORMAL"
          /\ next.cleanup = c.cleanup
      BY DEF Contexts
    <3> HIDE DEF next
    <3>2. ~CleanupComplete(c.cleanup) BY <2>1, OpenContext
    <3>3. IntentFits(next) BY <1>5, <3>1, <3>2 DEF IntentFits
    <3>4. Decided(c, Accept(next, {})) BY <3>3 DEF Decided, EndFits, Accept
    <3> QED BY <3>4 DEF next
  <2> QED BY <1>1, <1>2, <1>3, <1>4, <1>5, <2>1 DEF EndExecution, RestingStates
<1>6. Decided(c, StopRequested(c)) /\ Decided(c, ReturnHomeAllowed(c))
  BY <1>5 DEF StopRequested, ReturnHomeAllowed, Intents
<1>7. Decided(c, PauseRequested(c))
  BY <1>1, <1>2, <1>3, <1>4 DEF PauseRequested, Intents
<1>8. Decided(c, ResumeAllowed(c))
  BY <1>1, <1>2, <1>3 DEF ResumeAllowed
<1>9. Decided(c, SafetyBlockRequested(c))
  BY <1>1, <1>2, <1>3, <1>4 DEF SafetyBlockRequested, Intents, RestingStates
<1>10. Decided(c, GoalPrepared(c))
  <2> DEFINE next == [c EXCEPT !.state = "NAVIGATION_STARTING",
                               !.cleanup = [@ EXCEPT !.navigation_submitted = TRUE]]
  <2>1. /\ next.state = "NAVIGATION_STARTING" /\ next.manager_mode = "NORMAL"
        /\ next.cancel_intent = c.cancel_intent
    BY DEF Contexts
  <2>2. ASSUME c.state \in {"WAITING_TARGET", "PREPARING_GOAL"}
        PROVE  Decided(c, Accept(next, {"SUBMIT_NAVIGATION"}))
    <3> HIDE DEF next
    <3> QED BY <1>2, <2>1, <2>2, OpenDecided
  <2> QED BY <1>1, <2>2 DEF GoalPrepared
<1>11. Decided(c, TargetNotReady(c))
  <2> DEFINE next == [c EXCEPT !.state = "WAITING_TARGET"]
  <2>1. /\ next.state = "WAITING_TARGET" /\ next.manager_mode = "NORMAL"
        /\ next.cancel_intent = c.cancel_intent
    BY DEF Contexts
  <2>2. ASSUME c.state = "PREPARING_GOAL" PROVE Decided(c, Accept(next, {}))
    <3> HIDE DEF next
    <3> QED BY <1>2, <2>1, <2>2, OpenDecided
  <2> QED BY <1>1, <2>2 DEF TargetNotReady
<1>12. Decided(c, TargetWaitTimeout(c))
  BY <1>1, <1>2, <1>3 DEF TargetWaitTimeout
<1> QED BY <1>6, <1>7, <1>8, <1>9, <1>10, <1>11, <1>12

LEMMA AdapterDecided ==
  ASSUME NEW c \in Contexts, ContextFits(c), IntentFits(c), NEW event
  PROVE  Decided(c, AdapterEvent(c, event))
<1>1. Decided(c, Reject(c)) BY SameDecided
<1>2. c.state \in MovingStates \cup {"FINALIZING"} =>
        c.cancel_intent = "NONE" /\ c.manager_mode = "NORMAL"
  BY OpenContext DEF MovingStates
<1>3. ASSUME c.state \in MovingStates \cup {"FINALIZING"},
             NEW next \in Contexts, next.state # "CANCELING",
             next.cancel_intent = c.cancel_intent, next.manager_mode = c.manager_mode,
             NEW effects, "TERMINAL_SUCCEEDED" \in effects => c.state = "FINALIZING"
      PROVE  Decided(c, Accept(next, effects))
  BY <1>2, <1>3, OpenDecided
<1>4. CleanContext("IDLE", c.manager_mode) \in Contexts
  BY CleanContextType DEF Contexts, States
<1>5. ASSUME NEW effects, c.state \in MovingStates \cup {"FINALIZING"},
             "TERMINAL_SUCCEEDED" \in effects => c.state = "FINALIZING"
      PROVE  Decided(c, Accept(CleanContext("IDLE", c.manager_mode), effects))
  BY <1>2, <1>3, <1>4, <1>5 DEF CleanContext
<1>6. CASE c.state = "NAVIGATION_STARTING"
  <2> DEFINE next == [c EXCEPT !.state = "LEASE_ACQUIRING",
                               !.cleanup = [@ EXCEPT !.lease_acquire_pending = TRUE]]
  <2>1. /\ next \in Contexts /\ next.state = "LEASE_ACQUIRING"
        /\ next.cancel_intent = c.cancel_intent
        /\ next.manager_mode = c.manager_mode
    BY DEF Contexts, CleanupContexts, States
  <2> HIDE DEF next
  <2>2. Decided(c, Accept(next, {"ACQUIRE_LEASE"}))
    BY <1>3, <1>6, <2>1 DEF MovingStates
  <2>3. Decided(c, NavigationStarting(c, event))
    BY <1>1, <1>5, <1>6, <2>2 DEF NavigationStarting, MovingStates, next
  <2> QED BY <1>6, <2>3 DEF AdapterEvent
<1>7. CASE c.state = "LEASE_ACQUIRING"
  <2> DEFINE next == [c EXCEPT !.state = "EXECUTING",
                               !.cleanup = [@ EXCEPT !.lease_acquire_pending = FALSE,
                                                     !.lease_was_active = TRUE]]
             cleanup == [NoCleanup EXCEPT !.navigation_submitted = TRUE,
                                          !.navigation_cancel_required = TRUE]
             canceled == [c EXCEPT !.state = "CANCELING",
                                   !.cancel_intent = "SAFETY_BLOCK",
                                   !.pending_outcome = "SAFETY_BLOCKED",
                                   !.cleanup = cleanup]
  <2>1. /\ next \in Contexts /\ next.state = "EXECUTING"
        /\ next.cancel_intent = c.cancel_intent
        /\ next.manager_mode = c.manager_mode
    BY DEF Contexts, CleanupContexts, States
  <2>2. ~CleanupComplete(cleanup)
    BY DEF CleanupComplete, NoCleanup
  <2>3. /\ canceled.state = "CANCELING" /\ canceled.cancel_intent = "SAFETY_BLOCK"
        /\ canceled.manager_mode = c.manager_mode /\ canceled.cleanup = cleanup
    BY DEF Contexts
  <2> HIDE DEF next, cleanup, canceled
  <2>4. Decided(c, Accept(next, {}))
    BY <1>3, <1>7, <2>1 DEF MovingStates
  <2>5. IntentFits(canceled)
    BY <1>2, <1>7, <2>2, <2>3 DEF IntentFits, MovingStates
  <2>6. Decided(c, Accept(canceled, {"CANCEL_NAVIGATION"}))
    BY <1>2, <1>7, <2>3, <2>5 DEF Decided, EndFits, Accept, MovingStates
  <2>7. Decided(c, LeaseAcquiring(c, event))
    BY <1>1, <2>4, <2>6 DEF LeaseAcquiring, next, canceled, cleanup
  <2> QED BY <1>7, <2>7 DEF AdapterEvent
<1>8. CASE c.state = "EXECUTING"
  <2> DEFINE next == [c EXCEPT
                 !.state = "FINALIZING",
                 !.pending_outcome =
                    IF event = "NAV_SUCCEEDED" THEN "SUCCEEDED" ELSE "FAILED",
                 !.cleanup = [@ EXCEPT !.lease_release_required = TRUE]]
  <2>1. /\ next \in Contexts /\ next.state = "FINALIZING"
        /\ next.cancel_intent = c.cancel_intent
        /\ next.manager_mode = c.manager_mode
    BY DEF Contexts, CleanupContexts, States, Outcomes
  <2> HIDE DEF next
  <2>2. Decided(c, Accept(next, {"RELEASE_LEASE"}))
    BY <1>3, <1>8, <2>1 DEF MovingStates
  <2>3. Decided(c, Executing(c, event))
    BY <1>1, <2>2 DEF Executing, next
  <2> QED BY <1>8, <2>3 DEF AdapterEvent
<1>9. CASE c.state = "FINALIZING"
  <2> DEFINE next == CleanupFailed(c).next
  <2>1. /\ next.state = "SAFETY_BLOCKED" /\ next.cancel_intent = c.cancel_intent
        /\ next.manager_mode = c.manager_mode
        /\ CleanupFailed(c) = Accept(next, {})
    BY DEF CleanupFailed, Accept, Contexts
  <2>2. next \in Contexts BY CleanupFailedType DEF Decisions
  <2> HIDE DEF next
  <2>3. Decided(c, CleanupFailed(c))
    BY <1>3, <1>9, <2>1, <2>2
  <2>4. Decided(c, Finalizing(c, event))
    BY <1>1, <1>5, <1>9, <2>3 DEF Finalizing
  <2> QED BY <1>9, <2>4 DEF AdapterEvent
<1>10. CASE c.state = "CANCELING"
  BY <1>10, CanceledDecided DEF AdapterEvent
<1>11. CASE c.state \notin MovingStates \cup {"FINALIZING", "CANCELING"}
  BY <1>1, <1>11 DEF AdapterEvent, MovingStates
<1> QED BY <1>6, <1>7, <1>8, <1>9, <1>10, <1>11 DEF MovingStates

\* Every decision keeps IntentFits and ends an execution as what it was canceled
\* for; only a reset leaves the latch, and it ends nothing.
LEMMA TransitionDecided ==
  ASSUME NEW c \in Contexts, ContextFits(c), IntentFits(c), NEW event
  PROVE  LET d == Transition(c, event)
         IN /\ IntentFits(d.next) /\ EndFits(c, d.effects)
            /\ event # "RESET_ESTOP_ALLOWED" => Decided(c, d)
            /\ event = "RESET_ESTOP_ALLOWED" => d.effects = {}
<1> DEFINE d == Transition(c, event)
<1>1. CASE event = "RESET_ESTOP_ALLOWED"
  <2>1. d = ResetEstopAllowed(c) BY <1>1 DEF Transition
  <2>2. d.effects = {} /\ d.next \in {c, CleanContext("IDLE", "NORMAL")}
    BY <2>1 DEF ResetEstopAllowed, Accept, Reject
  <2>3. IntentFits(CleanContext("IDLE", "NORMAL"))
    BY CleanIntent DEF States, Modes
  <2> HIDE DEF d
  <2> QED BY <1>1, <2>2, <2>3 DEF EndFits, d
<1>2. CASE event # "RESET_ESTOP_ALLOWED"
  <2>1. Decided(c, Reject(c)) BY SameDecided
  <2>2. Decided(c, EstopRequested(c)) BY EstopDecided
  <2>3. CASE c.manager_mode = "NORMAL"
    <3> HIDE DEF Decided
    <3>1. Decided(c, d)
      BY <1>2, <2>1, <2>2, <2>3, RequestDecided, AdapterDecided DEF Transition
    <3> QED BY <1>2, <3>1 DEF Decided
  <2>4. CASE c.manager_mode # "NORMAL"
    <3>1. PassesLatch(c, event) => event \in NavigationEvents \cup LeaseEvents
      BY <2>4 DEF PassesLatch
    <3>2. PassesLatch(c, event) => d = AdapterEvent(c, event)
      BY <1>2, <3>1 DEF Transition, NavigationEvents, LeaseEvents
    <3>3. ~PassesLatch(c, event) => d \in {Reject(c), EstopRequested(c)}
      BY <1>2 DEF Transition
    <3> HIDE DEF Decided, d
    <3>4. Decided(c, d)
      BY <2>1, <2>2, <3>2, <3>3, AdapterDecided
    <3> QED BY <1>2, <3>4 DEF Decided, d
  <2> QED BY <2>3, <2>4
<1> QED BY <1>1, <1>2

\* A goal is prepared from a clean context, which nothing is asked of.
LEMMA PreparedIntent ==
  LET c == CleanContext("PREPARING_GOAL", "NORMAL")
  IN /\ IntentFits(Transition(c, "GOAL_PREPARED").next)
     /\ IntentFits(Transition(c, "TARGET_NOT_READY").next)
<1> DEFINE c == CleanContext("PREPARING_GOAL", "NORMAL")
<1>1. c \in Contexts BY CleanContextType DEF States, Modes
<1>2. IntentFits(c) BY CleanIntent DEF States, Modes
<1>3. ContextFits(c)
  BY DEF ContextFits, CleanContext, IsClean, NoCleanup, MovingStates
<1> HIDE DEF c
<1>4. /\ IntentFits(Transition(c, "GOAL_PREPARED").next)
      /\ IntentFits(Transition(c, "TARGET_NOT_READY").next)
  BY <1>1, <1>2, <1>3, TransitionDecided
<1> QED BY <1>4 DEF c

LEMMA ActivatedIntent ==
  ASSUME NEW next
  PROVE  IntentFits(Activated(next))
<1>1. IntentFits(CleanContext("WAITING_TARGET", "NORMAL"))
  BY CleanIntent DEF States, Modes
<1> QED BY <1>1, PreparedIntent DEF Activated

LEMMA AppliedIntent ==
  ASSUME IInv, IntentFits(ctx),
         NEW event, NEW goals, NEW leases, NEW next, Apply(event, goals, leases, next)
  PROVE  IntentFits(ctx')
<1>1. ctx \in Contexts /\ ContextFits(ctx) BY DEF IInv, TypeOK, Consistent
<1>2. IntentFits(Transition(ctx, event).next) BY <1>1, TransitionDecided
<1>3. ctx' \in {Transition(ctx, event).next, Activated(next)}
  BY DEF Apply, EndThenActivate
<1> QED BY <1>2, <1>3, ActivatedIntent

LEMMA NextIntent ==
  ASSUME IInv, IntentFits(ctx), Next
  PROVE  IntentFits(ctx')
<1>1. ctx \in Contexts /\ ContextFits(ctx) BY DEF IInv, TypeOK, Consistent
<1>2. ASSUME NEW next, Start(next) PROVE IntentFits(ctx')
  <2>1. ctx' \in {ctx, Activated(next)} BY <1>2 DEF Start, EndThenActivate
  <2> QED BY <2>1, ActivatedIntent
<1>3. CASE TargetResolved
  <2>1. ctx' = Transition(ctx, "GOAL_PREPARED").next
    BY <1>3 DEF TargetResolved, Submit
  <2> QED BY <1>1, <2>1, TransitionDecided
<1>4. ASSUME NEW resolved, Resume(resolved) PROVE IntentFits(ctx')
  <2> DEFINE d == Transition(ctx, "RESUME_ALLOWED")
  <2>1. d.accepted /\ d \in {ResumeAllowed(ctx), Reject(ctx)}
    BY <1>4 DEF Resume, Transition
  <2>2. d.next = CleanContext("PREPARING_GOAL", "NORMAL")
    BY <2>1 DEF ResumeAllowed, Accept, Reject
  <2>3. ctx' \in {Transition(d.next, "GOAL_PREPARED").next,
                  Transition(d.next, "TARGET_NOT_READY").next}
    BY <1>4 DEF Resume, Submit
  <2> HIDE DEF d
  <2> QED BY <2>2, <2>3, PreparedIntent
<1>5. CASE Call
  BY <1>2, <1>3, <1>4, <1>5, AppliedIntent
     DEF Call, Pause, Stop, Estop, ResetSucceeded, TargetWaitExpires
<1>6. CASE NavigationAnswer
  BY <1>6, AppliedIntent
     DEF NavigationAnswer, GoalAccepted, GoalRejected, GoalSucceeded, GoalFailed,
         CancelConfirmed, CancelFailed, NavigationEvent, coreVars
<1>7. CASE LeaseAnswer
  BY <1>7, AppliedIntent
     DEF LeaseAnswer, LeaseAcquired, LeaseAcquireFailed, LeaseReleased,
         LeaseReleaseFailed, LeaseEvent, coreVars
<1>8. CASE \E h \in Handles : OrphanEnds(h)
  BY <1>8 DEF OrphanEnds, coreVars
<1> QED BY <1>5, <1>6, <1>7, <1>8 DEF Next

\* What an execution is canceled for stays known until it has ended as that, and
\* a cancellation with nothing left to clean up is never left open.
THEOREM IntentIsKept == Spec => []IntentFits(ctx)
<1>1. Init => IntentFits(ctx)
  BY CleanIntent DEF Init, States, Modes
<1>2. IInv /\ IntentFits(ctx) /\ [Next]_vars => IntentFits(ctx)'
  <2>1. ASSUME IntentFits(ctx), UNCHANGED vars PROVE IntentFits(ctx)'
    BY <2>1 DEF vars, coreVars, IntentFits
  <2> QED BY <2>1, NextIntent
<1> QED BY <1>1, <1>2, Invariant, PTL DEF Spec

-----------------------------------------------------------------------------
(***************************************************************************)
(* What the liveness of the life cycle rests on, with the fairness of the  *)
(* adapters: a state that waits is owed an answer, and takes it.           *)
(***************************************************************************)
LEMMA OwedAnswer ==
  ASSUME IInv, IntentFits(ctx)
  PROVE  AnswerIsOwed
<1> DEFINE c == ctx
           k == ctx.cleanup
           g == GateGoal
           l == ActiveLease
<1>1. /\ ContextFits(c) /\ GoalFits(c, g, gate \in cancelAsked)
      /\ ~k.cleanup_failed => LeaseFits(k, l)
  BY DEF IInv, Consistent
<1>2. c.state # "IDLE" => l = lease[active]
  BY DEF IInv, Ownership, ActiveLease
<1>3. /\ gate = NoHandle => g = "none"
      /\ gate # NoHandle => g = goal[gate] /\ gate \in Handles
  BY DEF GateGoal, IInv, TypeOK
<1>4. CASE c.state = "NAVIGATION_STARTING"
  <2>1. g = "sent" BY <1>1, <1>4 DEF GoalFits
  <2> QED BY <1>3, <1>4, <2>1 DEF AnswerIsOwed
<1>5. CASE c.state = "LEASE_ACQUIRING"
  <2>1. k.lease_acquire_pending /\ ~k.cleanup_failed
    BY <1>1, <1>5 DEF ContextFits, NavigationSubmitted, NoCleanup
  <2>2. l = "asked" BY <1>1, <2>1 DEF LeaseFits
  <2> QED BY <1>2, <1>5, <2>2 DEF AnswerIsOwed
<1>6. CASE c.state = "FINALIZING"
  <2>1. k.lease_release_required /\ ~k.lease_release_confirmed /\ ~k.cleanup_failed
    BY <1>1, <1>6 DEF ContextFits, NavigationSubmitted, NoCleanup
  <2>2. l = "returning" BY <1>1, <2>1 DEF LeaseFits
  <2> QED BY <1>2, <1>6, <2>2 DEF AnswerIsOwed
<1>7. CASE c.state = "CANCELING" /\ ~k.cleanup_failed
  <2>1. ~CleanupComplete(k) BY <1>7 DEF IntentFits
  <2>2. CASE k.lease_acquire_pending
    <3>1. l = "asked" BY <1>1, <1>7, <2>2 DEF LeaseFits
    <3> QED BY <1>2, <1>7, <3>1 DEF AnswerIsOwed
  <2>3. CASE k.lease_release_required /\ ~k.lease_release_confirmed
    <3>1. l = "returning" BY <1>1, <1>7, <2>3 DEF LeaseFits
    <3> QED BY <1>2, <1>7, <3>1 DEF AnswerIsOwed
  <2>4. CASE k.navigation_cancel_required /\ ~k.navigation_cancel_confirmed
    <3>1. g \in {"sent", "accepted", "over"} /\ (gate \in cancelAsked \/ g = "over")
      BY <1>1, <1>7, <2>4 DEF GoalFits
    <3>2. gate # NoHandle /\ g = goal[gate] BY <1>3, <3>1
    <3> QED BY <1>7, <2>4, <3>1, <3>2 DEF AnswerIsOwed, ResultWonRace
  <2> QED BY <1>7, <2>1, <2>2, <2>3, <2>4 DEF CleanupComplete
<1> QED BY <1>4, <1>5, <1>6, <1>7 DEF AnswerIsOwed

\* No execution waits for an answer that nobody owes, for any number of executions and
\* generations (StartupSettles and CancellationSettles without the fairness).
THEOREM OwedAnswers == Spec => []AnswerIsOwed
<1>1. IInv /\ IntentFits(ctx) => AnswerIsOwed BY OwedAnswer
<1> QED BY <1>1, Invariant, IntentIsKept, PTL

\* The cleanup flags determine the lease, so no answer of the Safety service can leave
\* them as they were.
LEMMA TakenAnswer ==
  ASSUME IInv, IInv', SameGeneration, ~ctx.cleanup.cleanup_failed, ctx' = ctx
  PROVE  /\ lease'[active] = lease[active]
         /\ ctx.state = "NAVIGATION_STARTING" => goal'[gate] = goal[gate]
<1> DEFINE k == ctx.cleanup
<1>1. LeaseFits(k, lease[active]) /\ LeaseFits(k, lease'[active])
  BY DEF IInv, Consistent, ActiveLease, SameGeneration
<1>2. lease'[active] = lease[active]
  <2> HIDE DEF k
  <2> QED BY <1>1 DEF LeaseFits
<1>3. CASE ctx.state = "NAVIGATION_STARTING"
  <2>1. GateGoal = "sent" /\ GateGoal' = "sent"
    BY <1>3 DEF IInv, Consistent, GoalFits
  <2>2. /\ goal[gate] = "sent" /\ gate = <<active, generation>>
        /\ goal'[gate'] = "sent" /\ gate' = <<active', generation'>>
    BY <2>1 DEF IInv, Ownership, GateGoal
  <2> QED BY <1>2, <1>3, <2>2 DEF SameGeneration
<1> QED BY <1>2, <1>3

\* Until a cleanup step has failed every answer of the Safety service is taken, and so is
\* the first answer of the Facade.
THEOREM NoAnswerIsIgnored == Spec => AnswersAreTaken
<1> DEFINE Taken ==
      SameGeneration /\ ~ctx.cleanup.cleanup_failed /\ ctx' = ctx
        => /\ lease'[active] = lease[active]
           /\ ctx.state = "NAVIGATION_STARTING" => goal'[gate] = goal[gate]
<1>1. IInv /\ IInv' => [Taken]_vars
  <2> SUFFICES ASSUME IInv, IInv' PROVE Taken OBVIOUS
  <2> QED BY TakenAnswer
<1> QED BY <1>1, Invariant, PTL DEF AnswersAreTaken
=============================================================================
