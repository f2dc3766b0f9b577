------------------------- MODULE MissionCore_proofs -------------------------
(***************************************************************************)
(* The core with its commands and its queue, for any commands and any      *)
(* capacity.  It implements ExecutionLifecycle, so that everything proved  *)
(* of the execution life cycle holds of it too.  The invariant CoreIInv    *)
(* adds what the stores, the queue and the pending reset have to do with   *)
(* the active execution.  Its proof follows the code: what expire leaves   *)
(* of the queue, what a decision of the state machine can be, what         *)
(* _activate_next and _finish_execution then do to the stores and the      *)
(* queue a handler has prepared (Keeps), and the handlers one by one.      *)
(***************************************************************************)
EXTENDS MissionCore, ExecutionLifecycle_proofs, WellFoundedInduction

\* A handler of the core is one step of the life cycle, or leaves it alone.
LEMMA HandlerIsLifecycleStep ==
  ASSUME CoreNext
  PROVE  [Next]_vars
<1>1. ASSUME NEW c \in Commands, SubmitCommand(c) PROVE [Next]_vars
  <2>1. CASE MissionRejected(c) \/ MissionQueued(c) \/ ResumeRejected(c) \/ SubmitReset(c)
    BY <2>1 DEF MissionRejected, MissionQueued, ResumeRejected, SubmitReset
  <2>2. CASE MissionStarted(c)
    BY <2>2 DEF MissionStarted, Next, Call
  <2>3. CASE SubmitResume(c)
    BY <2>3 DEF SubmitResume, Next, Call
  <2>4. CASE SubmitPause(c) \/ SubmitStop(c) \/ SubmitEstop(c)
    BY <2>4 DEF SubmitPause, SubmitStop, SubmitEstop, Next, Call
  <2> QED BY <1>1, <2>1, <2>2, <2>3, <2>4 DEF SubmitCommand
<1>2. CASE \E c \in Commands : Expire(c)
  BY <1>2 DEF Expire
<1>3. CASE \E h \in Handles : NavigationAnswered(h)
  BY <1>3 DEF NavigationAnswered, Next, NavigationAnswer
<1>4. CASE \E e \in Executions : LeaseAnswered(e)
  BY <1>4 DEF LeaseAnswered, Next, LeaseAnswer
<1>5. CASE ResetFails \/ ResetSucceeds
  BY <1>5 DEF ResetFails, ResetSucceeds, Next, Call
<1>6. CASE TargetAppears \/ TargetTimesOut \/ OrphanedGoalEnds
  BY <1>6 DEF TargetAppears, TargetTimesOut, OrphanedGoalEnds, Next, Call
<1> QED BY <1>1, <1>2, <1>3, <1>4, <1>5, <1>6 DEF CoreNext

\* MissionCore implements the execution life cycle: the queue only ever chooses
\* among the missions the life cycle leaves open.
THEOREM CoreImplementsLifecycle == CoreSpec => ImplementsLifecycle
<1>1. CoreInit => Init BY DEF CoreInit
<1>2. [CoreNext]_coreAllVars => [Next]_vars
  BY HandlerIsLifecycleStep DEF coreAllVars
<1> QED BY <1>1, <1>2, PTL DEF CoreSpec, ImplementsLifecycle, Spec

\* So under the core, too, a robot at rest is at rest, and only the active
\* execution's goal may move it; and what the active one waits for is on its way.
THEOREM CoreIsSafe ==
  CoreSpec => [](QuietAtRest /\ OnlyOwnedGoalMoves /\ AnswerIsOwed)
<1>1. CoreSpec => Spec
  BY CoreImplementsLifecycle DEF ImplementsLifecycle
<1> QED BY <1>1, RestIsQuiet, GoalOwnership, OwedAnswers, PTL

-----------------------------------------------------------------------------
(***************************************************************************)
(* MissionQueue.expire: induction over the items, by least counterexample. *)
(***************************************************************************)

\* A nonempty set of naturals has a least element.
LEMMA LeastNat ==
  ASSUME NEW T, T \subseteq Nat, T # {}
  PROVE  \E n \in T : \A m \in T : n <= m
<1>1. PICK n \in T : \A m \in T : ~(<<m, n>> \in OpToRel(<, Nat))
  BY WFMin, NatLessThanWellFounded
<1>2. \A m \in T : ~(m < n)
  BY <1>1 DEF OpToRel
<1> QED BY <1>2

\* The passes of Kept over the first items of a queue.
Passes(f, waiting, late, n) ==
  f = [i \in 0..n |-> IF i = 0 THEN <<>>
                      ELSE IF waiting[i] \in late THEN f[i - 1]
                      ELSE Append(f[i - 1], waiting[i])]

LEMMA PassesExist ==
  ASSUME NEW waiting, NEW late, NEW n \in Nat
  PROVE  \E f : Passes(f, waiting, late, n)
<1> DEFINE T == { i \in Nat : ~\E f : Passes(f, waiting, late, i) }
<1>1. SUFFICES ASSUME n \in T PROVE FALSE
  OBVIOUS
<1>2. PICK least \in T : \A m \in T : least <= m
  BY <1>1, LeastNat
<1>3. least # 0
  <2>1. Passes([i \in 0..0 |-> <<>>], waiting, late, 0)
    BY DEF Passes
  <2> QED BY <2>1
<1>4. PICK g : Passes(g, waiting, late, least - 1)
  BY <1>2, <1>3
<1> DEFINE F == [i \in 0..least |->
                   IF i < least THEN g[i]
                   ELSE IF waiting[i] \in late THEN g[i - 1]
                   ELSE Append(g[i - 1], waiting[i])]
<1>5. ASSUME NEW i \in 0..least
      PROVE  F[i] = IF i = 0 THEN <<>>
                    ELSE IF waiting[i] \in late THEN F[i - 1]
                    ELSE Append(F[i - 1], waiting[i])
  <2>1. CASE i < least
    <3>1. i \in 0..(least - 1) /\ (i # 0 => i - 1 \in 0..(least - 1) /\ i - 1 < least)
      BY <1>2, <2>1
    <3>2. F[i] = g[i] /\ (i # 0 => F[i - 1] = g[i - 1])
      BY <2>1, <3>1
    <3>3. g[i] = IF i = 0 THEN <<>>
                 ELSE IF waiting[i] \in late THEN g[i - 1]
                 ELSE Append(g[i - 1], waiting[i])
      BY <1>4, <3>1 DEF Passes
    <3> QED BY <3>2, <3>3
  <2>2. CASE i = least
    <3>1. i # 0 /\ i - 1 \in 0..least /\ i - 1 < least
      BY <1>2, <1>3, <2>2
    <3>2. F[i - 1] = g[i - 1]
      BY <3>1
    <3> QED BY <2>2, <3>1, <3>2
  <2> QED BY <1>2, <2>1, <2>2
<1>6. Passes(F, waiting, late, least)
  <2> HIDE DEF F
  <2>1. F = [i \in 0..least |-> F[i]] BY DEF F
  <2> QED BY <1>5, <2>1 DEF Passes
<1> QED BY <1>2, <1>6

LEMMA KeptIsLastPass ==
  ASSUME NEW waiting, Len(waiting) \in Nat, NEW late
  PROVE  \E f : /\ Passes(f, waiting, late, Len(waiting))
                /\ Kept(waiting, late) = f[Len(waiting)]
<1> DEFINE F == CHOOSE f : Passes(f, waiting, late, Len(waiting))
<1>1. Passes(F, waiting, late, Len(waiting))
  BY PassesExist
<1>2. Kept(waiting, late) = F[Len(waiting)]
  BY DEF Kept, Passes
<1> QED BY <1>1, <1>2

\* What is left of a queue is in it, in the same order.
LEMMA KeptFacts ==
  ASSUME NEW waiting \in Seq(Commands), NEW late
  PROVE  LET kept == Kept(waiting, late)
         IN /\ kept \in Seq(Commands) /\ Len(kept) <= Len(waiting)
            /\ \A i \in DOMAIN kept : \E p \in DOMAIN waiting : kept[i] = waiting[p]
            /\ \A i, j \in DOMAIN kept : i < j =>
                 \E p, q \in DOMAIN waiting :
                    p < q /\ kept[i] = waiting[p] /\ kept[j] = waiting[q]
<1> DEFINE n == Len(waiting)
           Fits(kept, k) ==
             /\ kept \in Seq(Commands) /\ Len(kept) <= k
             /\ \A i \in DOMAIN kept : \E p \in 1..k : kept[i] = waiting[p]
             /\ \A i, j \in DOMAIN kept : i < j =>
                  \E p, q \in 1..k : p < q /\ kept[i] = waiting[p] /\ kept[j] = waiting[q]
<1>1. n \in Nat /\ DOMAIN waiting = 1..n
  OBVIOUS
<1>2. PICK f : Passes(f, waiting, late, n) /\ Kept(waiting, late) = f[n]
  BY <1>1, KeptIsLastPass
<1>3. \A i \in 0..n : f[i] = IF i = 0 THEN <<>>
                             ELSE IF waiting[i] \in late THEN f[i - 1]
                             ELSE Append(f[i - 1], waiting[i])
  BY <1>2 DEF Passes
<1> HIDE DEF Fits, n
<1>4. Fits(f[n], n)
  <2> DEFINE T == { i \in 0..n : ~Fits(f[i], i) }
  <2>1. SUFFICES ASSUME T # {} PROVE FALSE
    BY <1>1
  <2> HIDE DEF T
  <2>2. T \subseteq Nat BY <1>1 DEF T
  <2>3. PICK least \in T : \A m \in T : least <= m
    BY <2>1, <2>2, LeastNat
  <2>4. least \in 0..n /\ ~Fits(f[least], least)
    BY <2>3 DEF T
  <2>5. least # 0
    <3>1. f[0] = <<>> BY <1>1, <1>3
    <3>2. Fits(<<>>, 0) BY DEF Fits
    <3> QED BY <2>4, <3>1, <3>2
  <2>6. least \in 1..n /\ least - 1 \in 0..n /\ least - 1 \in Nat
    BY <1>1, <2>4, <2>5
  <2>7. Fits(f[least - 1], least - 1)
    BY <2>3, <2>6 DEF T
  <2>8. f[least] = IF waiting[least] \in late THEN f[least - 1]
                   ELSE Append(f[least - 1], waiting[least])
    BY <1>3, <2>4, <2>5
  <2> DEFINE before == f[least - 1]
             after  == Append(before, waiting[least])
  <2>9. Fits(before, least - 1) BY <2>7
  <2>10. f[least] \in {before, after} BY <2>8
  <2> HIDE DEF before
  <2>11. Fits(before, least)
    <3>1. 1..(least - 1) \subseteq 1..least
      BY <2>6
    <3>2. before \in Seq(Commands) /\ Len(before) <= least
      BY <2>6, <2>9 DEF Fits
    <3>3. \A i \in DOMAIN before : \E p \in 1..least : before[i] = waiting[p]
      BY <2>9, <3>1 DEF Fits
    <3>4. ASSUME NEW i \in DOMAIN before, NEW j \in DOMAIN before, i < j
          PROVE  \E p, q \in 1..least :
                   p < q /\ before[i] = waiting[p] /\ before[j] = waiting[q]
      <4>1. PICK p \in 1..(least - 1), q \in 1..(least - 1) :
              p < q /\ before[i] = waiting[p] /\ before[j] = waiting[q]
        BY <2>9, <3>4 DEF Fits
      <4> QED BY <3>1, <4>1
    <3> QED BY <3>2, <3>3, <3>4 DEF Fits
  <2>12. Fits(after, least)
    <3>3. before \in Seq(Commands) /\ Len(before) \in Nat /\ Len(before) <= least - 1
      BY <2>9 DEF Fits
    <3>4. waiting[least] \in Commands
      BY <1>1, <2>6
    <3>5. /\ after \in Seq(Commands) /\ Len(after) = Len(before) + 1
          /\ \A i \in 1..Len(before) : after[i] = before[i]
          /\ after[Len(before) + 1] = waiting[least]
      BY <3>3, <3>4
    <3> HIDE DEF after
    <3>6. /\ DOMAIN after = 1..(Len(before) + 1)
          /\ DOMAIN before = 1..Len(before)
      BY <3>3, <3>5
    <3>7. ASSUME NEW i \in DOMAIN after
          PROVE  \E p \in 1..least : after[i] = waiting[p]
      BY <2>6, <2>9, <3>3, <3>5, <3>6 DEF Fits
    <3>8. ASSUME NEW i \in DOMAIN after, NEW j \in DOMAIN after, i < j
          PROVE  \E p, q \in 1..least : 
                   p < q /\ after[i] = waiting[p] /\ after[j] = waiting[q]
      <4>1. i \in DOMAIN before /\ after[i] = before[i]
        BY <3>3, <3>5, <3>6, <3>8
      <4>2. CASE j \in DOMAIN before
        <5>1. after[j] = before[j] BY <3>5, <3>6, <4>2
        <5>2. PICK p \in 1..(least - 1), q \in 1..(least - 1) :
                p < q /\ before[i] = waiting[p] /\ before[j] = waiting[q]
          BY <2>9, <3>8, <4>1, <4>2 DEF Fits
        <5> QED BY <2>6, <4>1, <5>1, <5>2
      <4>3. CASE j = Len(before) + 1
        <5>1. PICK p \in 1..(least - 1) : before[i] = waiting[p]
          BY <2>9, <4>1 DEF Fits
        <5>2. p \in 1..least /\ least \in 1..least /\ p < least
          BY <2>6
        <5> QED BY <3>5, <4>1, <4>3, <5>1, <5>2
      <4> QED BY <3>3, <3>6, <4>2, <4>3
    <3>9. Len(after) <= least BY <2>6, <3>3, <3>5
    <3> QED BY <3>5, <3>7, <3>8, <3>9 DEF Fits
  <2> QED BY <2>4, <2>10, <2>11, <2>12
<1>5. Fits(Kept(waiting, late), n)
  BY <1>2, <1>4
<1>6. n = Len(waiting) BY DEF n
<1> DEFINE kept == Kept(waiting, late)
<1>7. /\ kept \in Seq(Commands) /\ Len(kept) <= Len(waiting)
      /\ \A i \in DOMAIN kept : \E p \in DOMAIN waiting : kept[i] = waiting[p]
  BY <1>1, <1>5, <1>6 DEF Fits
<1>8. ASSUME NEW i \in DOMAIN kept, NEW j \in DOMAIN kept, i < j
      PROVE  \E p, q \in DOMAIN waiting :
               p < q /\ kept[i] = waiting[p] /\ kept[j] = waiting[q]
  <2> HIDE DEF kept
  <2>1. Fits(kept, n) BY <1>5 DEF kept
  <2> QED BY <1>1, <1>8, <2>1 DEF Fits
<1> HIDE DEF kept
<1>9. /\ kept \in Seq(Commands) /\ Len(kept) <= Len(waiting)
      /\ \A i \in DOMAIN kept : \E p \in DOMAIN waiting : kept[i] = waiting[p]
      /\ \A i, j \in DOMAIN kept : i < j =>
           \E p, q \in DOMAIN waiting :
              p < q /\ kept[i] = waiting[p] /\ kept[j] = waiting[q]
  BY <1>7, <1>8
<1> QED BY <1>9 DEF kept

\* What is left of a queue is what has not expired.
LEMMA KeptIsUnexpired ==
  ASSUME NEW waiting \in Seq(Commands), NEW late
  PROVE  LET kept == Kept(waiting, late)
         IN { kept[i] : i \in DOMAIN kept } = { waiting[p] : p \in DOMAIN waiting } \ late
<1> DEFINE n == Len(waiting)
           Fits(kept, k) ==
             /\ kept \in Seq(Commands)
             /\ \A c : (\E i \in DOMAIN kept : kept[i] = c)
                       <=> (c \notin late /\ \E p \in 1..k : waiting[p] = c)
<1>1. n \in Nat /\ DOMAIN waiting = 1..n
  OBVIOUS
<1>2. PICK f : Passes(f, waiting, late, n) /\ Kept(waiting, late) = f[n]
  BY <1>1, KeptIsLastPass
<1>3. \A i \in 0..n : f[i] = IF i = 0 THEN <<>>
                             ELSE IF waiting[i] \in late THEN f[i - 1]
                             ELSE Append(f[i - 1], waiting[i])
  BY <1>2 DEF Passes
<1> HIDE DEF Fits, n
<1>4. Fits(f[n], n)
  <2> DEFINE T == { i \in 0..n : ~Fits(f[i], i) }
  <2>1. SUFFICES ASSUME T # {} PROVE FALSE
    BY <1>1
  <2> HIDE DEF T
  <2>2. T \subseteq Nat BY <1>1 DEF T
  <2>3. PICK least \in T : \A m \in T : least <= m
    BY <2>1, <2>2, LeastNat
  <2>4. least \in 0..n /\ ~Fits(f[least], least)
    BY <2>3 DEF T
  <2>5. least # 0
    <3>1. f[0] = <<>> BY <1>1, <1>3
    <3>2. Fits(<<>>, 0) BY DEF Fits
    <3> QED BY <2>4, <3>1, <3>2
  <2>6. least \in 1..n /\ least - 1 \in 0..n /\ waiting[least] \in Commands
    BY <1>1, <2>4, <2>5
  <2>7. Fits(f[least - 1], least - 1)
    BY <2>3, <2>6 DEF T
  <2>8. f[least] = IF waiting[least] \in late THEN f[least - 1]
                   ELSE Append(f[least - 1], waiting[least])
    BY <1>3, <2>4, <2>5
  <2> DEFINE before == f[least - 1]
  <2>9. /\ before \in Seq(Commands)
        /\ \A c : (\E i \in DOMAIN before : before[i] = c)
                  <=> (c \notin late /\ \E p \in 1..(least - 1) : waiting[p] = c)
    BY <2>7 DEF Fits
  <2>10. \A c : (\E p \in 1..least : waiting[p] = c)
                 <=> (c = waiting[least] \/ \E p \in 1..(least - 1) : waiting[p] = c)
    <3>1. 1..least = 1..(least - 1) \cup {least} BY <1>1, <2>6
    <3> QED BY <3>1
  <2> HIDE DEF before
  <2>11. CASE waiting[least] \in late
    BY <2>4, <2>8, <2>9, <2>10, <2>11 DEF Fits, before
  <2>12. CASE waiting[least] \notin late
    <3> DEFINE after == Append(before, waiting[least])
    <3>1. /\ after \in Seq(Commands)
          /\ \A c : (\E i \in DOMAIN after : after[i] = c)
                    <=> (c = waiting[least] \/ \E i \in DOMAIN before : before[i] = c)
      <4>1. /\ after \in Seq(Commands)
            /\ DOMAIN after = DOMAIN before \cup {Len(before) + 1}
            /\ \A i \in DOMAIN before : after[i] = before[i]
            /\ after[Len(before) + 1] = waiting[least]
        BY <2>6, <2>9
      <4> HIDE DEF after
      <4> QED BY <4>1
    <3>2. f[least] = after BY <2>8, <2>12 DEF before
    <3> HIDE DEF after
    <3> QED BY <2>4, <2>9, <2>10, <2>12, <3>1, <3>2 DEF Fits
  <2> QED BY <2>11, <2>12
<1>5. Fits(Kept(waiting, late), n)
  BY <1>2, <1>4
<1> DEFINE kept == Kept(waiting, late)
<1> HIDE DEF kept
<1>6. \A c : (\E i \in DOMAIN kept : kept[i] = c)
             <=> (c \notin late /\ \E p \in DOMAIN waiting : waiting[p] = c)
  BY <1>1, <1>5 DEF Fits, kept
<1> QED BY <1>6 DEF kept

-----------------------------------------------------------------------------
(***************************************************************************)
(* The decisions of the state machine, as the core sees them.              *)
(***************************************************************************)

\* What every decision but that of RESUME gives the handlers of the core.
Sound(c, d) ==
  /\ ~d.accepted => d.next = c /\ d.effects = {}
  /\ d.effects \cap TerminalEffects # {} => c.state # "IDLE"
  /\ d.next.state # "PREPARING_GOAL"

LEMMA DecisionIsSound ==
  ASSUME NEW c \in Contexts, c.state # "PREPARING_GOAL",
         NEW event, event # "RESUME_ALLOWED"
  PROVE  Sound(c, Transition(c, event))
<1>1. Sound(c, Reject(c)) /\ Sound(c, Accept(c, {}))
  BY DEF Sound, Reject, Accept
<1>2. ASSUME NEW state \in States \ {"PREPARING_GOAL"}, NEW mode, NEW effects,
             c.state # "IDLE" \/ effects \cap TerminalEffects = {}
      PROVE  Sound(c, Accept(CleanContext(state, mode), effects))
  BY <1>2 DEF Sound, Accept, CleanContext
<1>3. ASSUME NEW next, next.state # "PREPARING_GOAL", NEW effects,
             c.state # "IDLE" \/ effects \cap TerminalEffects = {}
      PROVE  Sound(c, Accept(next, effects))
  BY <1>3 DEF Sound, Accept
<1>4. ASSUME NEW next, next.state = "CANCELING", c.state # "IDLE"
      PROVE  Sound(c, FinishCanceling(c, next))
  <2> HIDE DEF Sound
  <2> QED BY <1>1, <1>2, <1>3, <1>4 DEF FinishCanceling, States
<1>5. ASSUME NEW intent, NEW outcome, c.state # "IDLE"
      PROVE  Sound(c, StartCanceling(c, intent, outcome))
  <2>1. StartCanceling(c, intent, outcome).next.state = "CANCELING"
    BY DEF StartCanceling, Accept, Contexts
  <2>2. StartCanceling(c, intent, outcome).accepted
    BY DEF StartCanceling, Accept
  <2> QED BY <1>5, <2>1, <2>2 DEF Sound
<1>6. Sound(c, EstopRequested(c))
  <2>1. ASSUME NEW request, c.state # "IDLE"
        PROVE  Sound(c, StartEmergencyCanceling(c, request))
    BY <2>1 DEF StartEmergencyCanceling, Accept, CleanContext, Sound
  <2>2. \/ EstopRequested(c) = Accept(c, {})
        \/ EstopRequested(c) = Accept(CleanContext("IDLE", "EMERGENCY_LATCHED"),
                                      {"REQUEST_SAFETY_ESTOP"})
        \/ /\ c.state # "IDLE"
           /\ \/ EstopRequested(c)
                   = Accept(CleanContext("IDLE", "EMERGENCY_LATCHED"),
                       {"REQUEST_SAFETY_ESTOP", "TERMINAL_EMERGENCY_STOPPED"})
              \/ EstopRequested(c)
                   = StartEmergencyCanceling(c, c.state # "FINALIZING")
    BY DEF EstopRequested, Contexts, Modes, RestingStates, IsCleanSafetyBlocked
  <2>3. {"REQUEST_SAFETY_ESTOP"} \cap TerminalEffects = {}
    BY DEF TerminalEffects
  <2> HIDE DEF Sound
  <2> QED BY <1>1, <1>2, <2>1, <2>2, <2>3 DEF States
<1>7. /\ Sound(c, ResetEstopAllowed(c)) /\ Sound(c, PauseRequested(c))
      /\ Sound(c, SafetyBlockRequested(c))
  <2> HIDE DEF Sound
  <2> QED BY <1>1, <1>2, <1>5
      DEF ResetEstopAllowed, PauseRequested, SafetyBlockRequested, States,
          RestingStates, MovingStates
<1>8. Sound(c, StopRequested(c)) /\ Sound(c, ReturnHomeAllowed(c))
  <2>1. ASSUME NEW intent, NEW outcome, NEW effects
        PROVE  Sound(c, EndExecution(c, intent, outcome, effects))
    <3> DEFINE next == [c EXCEPT !.state = "CANCELING", !.cancel_intent = intent,
                                 !.pending_outcome = outcome]
    <3>1. next.state = "CANCELING" BY DEF Contexts
    <3> HIDE DEF Sound, next
    <3>2. c.state = "FINALIZING" => Sound(c, Accept(next, {}))
      BY <1>3, <3>1
    <3> QED BY <1>1, <1>2, <1>5, <3>2
        DEF EndExecution, States, RestingStates, MovingStates,
            IsCleanSafetyBlocked, next
  <2> QED BY <2>1 DEF StopRequested, ReturnHomeAllowed
<1>9. /\ Sound(c, GoalPrepared(c)) /\ Sound(c, TargetNotReady(c))
      /\ Sound(c, TargetWaitTimeout(c))
  BY DEF Sound, GoalPrepared, TargetNotReady, TargetWaitTimeout, Accept, Reject,
         Contexts, CleanContext, TerminalEffects
<1>10. ASSUME c.state = "CANCELING"
       PROVE  Sound(c, Canceling(c, event))
  <2>1. ASSUME NEW cleanup
        PROVE  [c EXCEPT !.cleanup = cleanup].state = "CANCELING"
    BY <1>10 DEF Contexts
  <2>2. Sound(c, AcquiredInCanceling(c)) /\ Sound(c, CleanupFailed(c))
    BY <1>10 DEF AcquiredInCanceling, CleanupFailed, Sound, Accept, Reject, Contexts
  <2>3. /\ Sound(c, NavigationStopped(c)) /\ Sound(c, ReleasedInCanceling(c))
        /\ Sound(c, AcquireFailedInCanceling(c))
    <3> HIDE DEF Sound
    <3> QED BY <1>1, <1>4, <1>10, <2>1
        DEF NavigationStopped, ReleasedInCanceling, AcquireFailedInCanceling
  <2> HIDE DEF Sound
  <2> QED BY <1>1, <2>2, <2>3 DEF Canceling
<1>11. /\ c.state = "NAVIGATION_STARTING" => Sound(c, NavigationStarting(c, event))
       /\ c.state = "LEASE_ACQUIRING" => Sound(c, LeaseAcquiring(c, event))
       /\ c.state = "EXECUTING" => Sound(c, Executing(c, event))
       /\ c.state = "FINALIZING" => Sound(c, Finalizing(c, event))
  BY DEF Sound, NavigationStarting, LeaseAcquiring, Executing, Finalizing,
         CleanupFailed, Accept, Reject, CleanContext, Contexts
<1>12. Sound(c, AdapterEvent(c, event))
  <2> HIDE DEF Sound
  <2> QED BY <1>1, <1>10, <1>11 DEF AdapterEvent
<1> HIDE DEF Sound
<1> QED BY <1>1, <1>6, <1>7, <1>8, <1>9, <1>12 DEF Transition

-----------------------------------------------------------------------------
(***************************************************************************)
(* The stores and the queue after a handler.                               *)
(***************************************************************************)

\* What a handler leaves of the stores and the queue it has prepared: records r,
\* statuses s, queue w.
Keeps(r, s, w) ==
  /\ Stored(record', status', queue', mission')
  /\ Len(queue') <= Len(w)
  /\ mission' \in Commands \cup {NoCommand}
  /\ (mission' = NoCommand) <=> (active' = 0)
  /\ mission' # NoCommand => status'[mission'] = ExternalState(ctx'.state)
  /\ alive' \in BOOLEAN
  /\ alive' /\ active' = 0 => queue' = <<>>
  /\ \A c \in Commands \ {mission} :
       /\ r[c] # "QUEUED" => record'[c] = r[c] /\ status'[c] = s[c]
       /\ r[c] = "QUEUED" => record'[c] # "absent"
  /\ \A c \in Commands \ {mission, mission'} : record'[c] = r[c] /\ status'[c] = s[c]
  /\ mission # NoCommand => record'[mission] # "absent"
  /\ mission' \in {mission, NoCommand} \/ (w # <<>> /\ mission' = w[1])
  /\ \A i, j \in DOMAIN queue' : i < j =>
       \E p, q \in DOMAIN w : p < q /\ queue'[i] = w[p] /\ queue'[j] = w[q]

LEMMA ExternalStateType ==
  ASSUME NEW state \in States \ {"PREPARING_GOAL", "IDLE"}
  PROVE  ExternalState(state) \in StatusStates \ FinalStatuses
BY DEF ExternalState, States, StatusStates, FinalStatuses, MovingStates

\* The order of what is left when the head is taken out, and of nothing at all.
LEMMA TailFacts ==
  ASSUME NEW s \in Seq(Commands), s # <<>>
  PROVE  /\ Tail(s) \in Seq(Commands) /\ Len(Tail(s)) = Len(s) - 1
         /\ s[1] \in Commands /\ 1 \in DOMAIN s
         /\ \A i \in DOMAIN Tail(s) : i + 1 \in DOMAIN s /\ Tail(s)[i] = s[i + 1]
  OBVIOUS

\* Advancing the queue, after the active execution has ended.
LEMMA AdvanceKeeps ==
  ASSUME NEW r, NEW s, NEW w, NEW next,
         Stored(r, s, w, NoCommand),
         mission # NoCommand => r[mission] = "TERMINAL",
         mission \in Commands \cup {NoCommand},
         ActivateNext(r, s, w, next),
         (next = "none") <=> (active' = 0),
         next # "none" => ctx'.state \in States \ {"PREPARING_GOAL", "IDLE"}
  PROVE  Keeps(r, s, w)
<1> DEFINE valid     == Kept(w, expired)
           activates == valid # <<>> /\ valid[1] = w[1]
<1> HIDE DEF valid
<1>1. /\ valid \in Seq(Commands) /\ Len(valid) <= Len(w)
      /\ \A i \in DOMAIN valid : \E p \in DOMAIN w : valid[i] = w[p]
      /\ \A i, j \in DOMAIN valid : i < j =>
           \E p, q \in DOMAIN w : p < q /\ valid[i] = w[p] /\ valid[j] = w[q]
  BY KeptFacts DEF Stored, valid
<1>2. /\ (next # "none") <=> activates
      /\ queue' = IF valid = <<>> THEN <<>> ELSE Tail(valid)
      /\ alive' = (valid # <<>> => activates)
      /\ IF activates
         THEN /\ mission' = valid[1]
              /\ record' = [r EXCEPT ![valid[1]] = "APPLIED"]
              /\ status' = [s EXCEPT ![valid[1]] = ExternalState(ctx'.state)]
         ELSE mission' = NoCommand /\ record' = r /\ status' = s
  BY DEF ActivateNext, valid
<1>3. w \in Seq(Commands) /\ Len(w) \in Nat /\ Len(valid) \in Nat
  BY <1>1 DEF Stored
<1>4. ASSUME valid # <<>>
      PROVE  /\ Tail(valid) \in Seq(Commands) /\ Len(Tail(valid)) <= Len(w)
             /\ valid[1] \in Commands /\ w # <<>>
             /\ \A i, j \in DOMAIN Tail(valid) : i < j =>
                  \E p, q \in DOMAIN w : p < q /\ Tail(valid)[i] = w[p]
                                               /\ Tail(valid)[j] = w[q]
             /\ \A i \in DOMAIN Tail(valid) :
                  \E p, q \in DOMAIN w : p < q /\ valid[1] = w[p]
                                               /\ Tail(valid)[i] = w[q]
  <2>1. /\ Tail(valid) \in Seq(Commands) /\ Len(Tail(valid)) = Len(valid) - 1
        /\ valid[1] \in Commands /\ 1 \in DOMAIN valid
        /\ \A i \in DOMAIN Tail(valid) :
             i + 1 \in DOMAIN valid /\ Tail(valid)[i] = valid[i + 1]
    BY <1>1, <1>4, TailFacts
  <2>2. DOMAIN Tail(valid) \subseteq Nat \ {0}
    BY <2>1
  <2>3. w # <<>> BY <1>1, <1>3, <2>1
  <2>4. ASSUME NEW i \in DOMAIN Tail(valid)
        PROVE  \E p, q \in DOMAIN w : p < q /\ valid[1] = w[p]
                                             /\ Tail(valid)[i] = w[q]
    <3>1. i + 1 \in DOMAIN valid /\ 1 \in DOMAIN valid /\ 1 < i + 1
      BY <2>1, <2>2, <2>4
    <3> QED BY <1>1, <2>1, <3>1
  <2>5. ASSUME NEW i \in DOMAIN Tail(valid), NEW j \in DOMAIN Tail(valid), i < j
        PROVE  \E p, q \in DOMAIN w : p < q /\ Tail(valid)[i] = w[p]
                                             /\ Tail(valid)[j] = w[q]
    <3>1. i + 1 \in DOMAIN valid /\ j + 1 \in DOMAIN valid /\ i + 1 < j + 1
      BY <2>1, <2>2, <2>5
    <3> QED BY <1>1, <2>1, <3>1
  <2> QED BY <1>1, <1>3, <2>1, <2>3, <2>4, <2>5
<1>5. /\ queue' \in Seq(Commands) /\ Len(queue') <= Len(w)
      /\ \A i, j \in DOMAIN queue' : i < j =>
           \E p, q \in DOMAIN w : p < q /\ queue'[i] = w[p] /\ queue'[j] = w[q]
      /\ \A i \in DOMAIN queue' : \E q \in DOMAIN w : queue'[i] = w[q]
  <2>1. CASE valid = <<>> BY <1>2, <1>3, <2>1
  <2>2. CASE valid # <<>>
    <3>1. queue' = Tail(valid) BY <1>2, <2>2
    <3> QED BY <1>4, <2>2, <3>1
  <2> QED BY <2>1, <2>2
<1>6. \A i, j \in DOMAIN queue' : queue'[i] = queue'[j] => i = j
  <2> SUFFICES ASSUME NEW i \in DOMAIN queue', NEW j \in DOMAIN queue', i < j
               PROVE  queue'[i] # queue'[j]
    BY <1>5
  <2>1. PICK p \in DOMAIN w, q \in DOMAIN w :
          p < q /\ queue'[i] = w[p] /\ queue'[j] = w[q]
    BY <1>5
  <2>2. p # q BY <1>3, <2>1
  <2> QED BY <2>1, <2>2 DEF Stored
<1>7. alive' \in BOOLEAN BY <1>2
<1>8. CASE ~activates
  <2>1. /\ active' = 0 /\ mission' = NoCommand
        /\ record' = r /\ status' = s
        /\ alive' => queue' = <<>>
    BY <1>2, <1>8
  <2>2. \A i \in DOMAIN queue' : record'[queue'[i]] = "QUEUED"
    BY <1>5, <2>1 DEF Stored
  <2>3. Stored(record', status', queue', mission')
    BY <1>5, <1>6, <2>1, <2>2 DEF Stored
  <2> QED BY <1>5, <1>7, <2>1, <2>3 DEF Keeps
<1>9. CASE activates
  <2> DEFINE m == w[1]
  <2>1. /\ valid # <<>> /\ active' # 0 /\ mission' = m /\ valid[1] = m
        /\ record' = [r EXCEPT ![m] = "APPLIED"]
        /\ status' = [s EXCEPT ![m] = ExternalState(ctx'.state)]
        /\ queue' = Tail(valid)
        /\ ctx'.state \in States \ {"PREPARING_GOAL", "IDLE"}
    BY <1>2, <1>9
  <2>2. m \in Commands /\ w # <<>> /\ 1 \in DOMAIN w
    BY <1>3, <1>4, <2>1
  <2>3. r[m] = "QUEUED" BY <2>2 DEF Stored
  <2> HIDE DEF m
  <2>4. ExternalState(ctx'.state) \in StatusStates
    BY <2>1, ExternalStateType
  <2>5. \A i \in DOMAIN queue' : queue'[i] # m
    <3> SUFFICES ASSUME NEW i \in DOMAIN queue' PROVE queue'[i] # m
      OBVIOUS
    <3>1. PICK p \in DOMAIN w, q \in DOMAIN w : p < q /\ m = w[p] /\ queue'[i] = w[q]
      BY <1>4, <2>1
    <3>2. p # q BY <1>3, <3>1
    <3> QED BY <3>1, <3>2 DEF Stored
  <2>6. /\ r \in [Commands -> RecordStates] /\ s \in [Commands -> StatusStates]
    BY DEF Stored
  <2>7. /\ record' \in [Commands -> RecordStates]
        /\ status' \in [Commands -> StatusStates]
        /\ record'[m] = "APPLIED" /\ status'[m] = ExternalState(ctx'.state)
        /\ \A c \in Commands \ {m} : record'[c] = r[c] /\ status'[c] = s[c]
    BY <2>1, <2>2, <2>4, <2>6 DEF RecordStates
  <2>8. \A i \in DOMAIN queue' : record'[queue'[i]] = "QUEUED"
    <3> SUFFICES ASSUME NEW i \in DOMAIN queue' PROVE record'[queue'[i]] = "QUEUED"
      OBVIOUS
    <3>1. queue'[i] \in Commands \ {m} BY <1>5, <2>5
    <3>2. r[queue'[i]] = "QUEUED" BY <1>5 DEF Stored
    <3> QED BY <2>7, <3>1, <3>2
  <2>9. \A c \in Commands :
          /\ record'[c] \in {"absent", "QUEUED"} => status'[c] = record'[c]
          /\ record'[c] = "APPLIED" => c = m \/ status'[c] = "ACCEPTED"
          /\ record'[c] = "TERMINAL" => status'[c] \in FinalStatuses
    BY <2>7, CommandsAssumption DEF Stored
  <2>10. Stored(record', status', queue', mission')
    BY <1>5, <1>6, <2>1, <2>7, <2>8, <2>9 DEF Stored
  <2>11. mission' # NoCommand BY <2>1, <2>2, CommandsAssumption
  <2>12. /\ \A c \in Commands \ {mission} :
              /\ r[c] # "QUEUED" => record'[c] = r[c] /\ status'[c] = s[c]
              /\ r[c] = "QUEUED" => record'[c] # "absent"
         /\ mission # NoCommand => record'[mission] # "absent"
    BY <2>3, <2>7
  <2>13. mission' = w[1] BY <2>1 DEF m
  <2> QED BY <1>5, <1>7, <2>1, <2>2, <2>7, <2>10, <2>11, <2>12, <2>13 DEF Keeps
<1> QED BY <1>8, <1>9

\* The stores, the queue and the active mission a handler starts from.
Prepared(r, s, w) ==
  /\ Stored(r, s, w, mission)
  /\ mission # NoCommand => s[mission] = status[mission]

\* Writing an event's outcome, given what the life cycle does with it.
LEMMA FollowKeeps ==
  ASSUME CoreIInv, alive, NEW r, NEW s, NEW w, Prepared(r, s, w),
         active = 0 => w = <<>>,
         NEW event, NEW next, Follow(event, r, s, w, next),
         LET d    == Transition(ctx, event)
             ends == d.effects \cap TerminalEffects # {}
         IN /\ ends => /\ ctx.state # "IDLE"
                       /\ (next = "none") <=> (active' = 0)
                       /\ next # "none" => ctx'.state \in {"NAVIGATION_STARTING",
                                                            "WAITING_TARGET"}
            /\ ~ends => /\ active' = active
                        /\ ~d.accepted => ctx' = ctx,
         ctx'.state \in States \ {"PREPARING_GOAL"},
         (active' = 0) <=> (ctx'.state = "IDLE")
  PROVE  Keeps(r, s, w)
<1> DEFINE d    == Transition(ctx, event)
           ends == d.effects \cap TerminalEffects # {}
<1>0. /\ mission \in Commands \cup {NoCommand}
      /\ (mission = NoCommand) <=> (active = 0)
      /\ mission # NoCommand => s[mission] = ExternalState(ctx.state)
      /\ Stored(r, s, w, mission)
      /\ (active = 0) <=> (ctx.state = "IDLE")
  BY DEF CoreIInv, MissionFits, IInv, Ownership, Prepared
<1>1. /\ r \in [Commands -> RecordStates] /\ s \in [Commands -> StatusStates]
      /\ w \in Seq(Commands)
      /\ mission # NoCommand => r[mission] = "APPLIED"
  BY <1>0 DEF Stored
<1>2. CASE ends
  <2>1. mission \in Commands BY <1>0, <1>2
  <2> DEFINE r2 == [r EXCEPT ![mission] = "TERMINAL"]
             s2 == [s EXCEPT ![mission] = FinalState(d.effects)]
  <2>2. FinalState(d.effects) \in StatusStates \cap FinalStatuses
    BY DEF FinalState, StatusStates, FinalStatuses
  <2>3. ActivateNext(r2, s2, w, next)
    BY <1>2 DEF Follow
  <2>4. /\ r2 \in [Commands -> RecordStates] /\ s2 \in [Commands -> StatusStates]
        /\ r2[mission] = "TERMINAL" /\ s2[mission] \in FinalStatuses
        /\ \A c \in Commands \ {mission} : r2[c] = r[c] /\ s2[c] = s[c]
    BY <1>1, <2>1, <2>2 DEF RecordStates
  <2> HIDE DEF r2, s2, ends, d
  <2>5. Stored(r2, s2, w, NoCommand)
    <3>1. \A i \in DOMAIN w : w[i] \in Commands /\ r2[w[i]] = "QUEUED"
      BY <1>0, <1>1, <2>1, <2>4 DEF Stored
    <3>2. \A c \in Commands :
            /\ r2[c] \in {"absent", "QUEUED"} => s2[c] = r2[c]
            /\ r2[c] = "APPLIED" => s2[c] = "ACCEPTED"
            /\ r2[c] = "TERMINAL" => s2[c] \in FinalStatuses
      BY <1>0, <2>1, <2>4 DEF Stored
    <3> QED BY <1>0, <2>4, <3>1, <3>2 DEF Stored
  <2>6. Keeps(r2, s2, w)
    <3>1. (next = "none") <=> (active' = 0)
      BY <1>2 DEF ends, d
    <3>2. next # "none" => ctx'.state \in States \ {"PREPARING_GOAL", "IDLE"}
      BY <1>2 DEF ends, d, States
    <3> QED BY <1>0, <2>3, <2>4, <2>5, <3>1, <3>2, AdvanceKeeps
  <2> QED BY <2>4, <2>6 DEF Keeps
<1>3. CASE ~ends
  <2>1. /\ active' = active /\ (~d.accepted => ctx' = ctx)
        /\ record' = r
        /\ status' = IF d.accepted /\ mission # NoCommand
                     THEN [s EXCEPT ![mission] = ExternalState(ctx'.state)]
                     ELSE s
        /\ queue' = w /\ mission' = mission /\ alive' = alive
    BY <1>3 DEF Follow
  <2> HIDE DEF ends, d
  <2>2. mission # NoCommand =>
          /\ ExternalState(ctx'.state) \in StatusStates
          /\ mission \in Commands
    BY <1>0, <2>1, ExternalStateType
  <2>3. /\ status' \in [Commands -> StatusStates]
        /\ \A c \in Commands \ {mission} : status'[c] = s[c]
        /\ mission # NoCommand => status'[mission] = ExternalState(ctx'.state)
    BY <1>0, <1>1, <2>1, <2>2
  <2>4. Stored(record', status', queue', mission')
    <3>1. \A c \in Commands :
            /\ r[c] \in {"absent", "QUEUED"} => status'[c] = r[c]
            /\ r[c] = "APPLIED" => c = mission \/ status'[c] = "ACCEPTED"
            /\ r[c] = "TERMINAL" => status'[c] \in FinalStatuses
      BY <1>0, <1>1, <2>3, CommandsAssumption DEF Stored
    <3> QED BY <1>0, <2>1, <2>3, <3>1 DEF Stored
  <2>5. \A i, j \in DOMAIN w : i < j =>
          \E p, q \in DOMAIN w : p < q /\ w[i] = w[p] /\ w[j] = w[q]
    OBVIOUS
  <2>6. Len(w) <= Len(w) /\ alive' \in BOOLEAN
    BY <1>1, <2>1 DEF CoreIInv
  <2> QED BY <1>0, <1>1, <2>1, <2>3, <2>4, <2>5, <2>6 DEF Keeps
<1> QED BY <1>2, <1>3

-----------------------------------------------------------------------------

\* What a step of the core does to what was published and to the queue.
FinalKept ==
  \A c \in Commands : status[c] \in FinalStatuses => status'[c] = status[c]

OrderKept ==
  \A c \in Waiting, d \in Commands :
    c # d /\ (Ahead(d, c, queue') \/ (mission' = d /\ mission # d))
      => Ahead(d, c, queue)

GoodStep == CoreIInv' /\ FinalKept /\ OrderKept

\* Only a TERMINAL record has a final status.
LEMMA FinalIsTerminal ==
  ASSUME CoreIInv, NEW c \in Commands, status[c] \in FinalStatuses
  PROVE  record[c] = "TERMINAL" /\ c # mission
<1>1. /\ record[c] \in RecordStates
      /\ record[c] \in {"absent", "QUEUED"} => status[c] = record[c]
      /\ record[c] = "APPLIED" => c = mission \/ status[c] = "ACCEPTED"
  BY DEF CoreIInv, Stored
<1>2. c # mission
  <2>1. SUFFICES ASSUME c = mission PROVE FALSE
    OBVIOUS
  <2>2. status[c] = ExternalState(ctx.state) /\ ctx.state # "IDLE"
        /\ ctx.state # "PREPARING_GOAL" /\ ctx.state \in States
    BY <2>1, CommandsAssumption
       DEF CoreIInv, MissionFits, IInv, TypeOK, Ownership, Contexts
  <2> QED BY <2>2, ExternalStateType
<1> QED BY <1>1, <1>2 DEF RecordStates, FinalStatuses

\* The queue a handler has prepared: cleared, or with a new mission at its end.
PreparedQueue(w) ==
  \/ w \in {queue, <<>>}
  \/ \E c \in Commands : w = Append(queue, c) /\ record[c] = "absent"

LEMMA QueueOrder ==
  ASSUME CoreIInv, NEW w, PreparedQueue(w),
         NEW c \in Waiting, NEW p \in DOMAIN w, NEW q \in DOMAIN w,
         p < q, w[q] = c
  PROVE  Ahead(w[p], c, queue)
<1>1. queue \in Seq(Commands) /\ record[c] = "QUEUED" /\ w # <<>>
  BY DEF CoreIInv, Stored, Waiting
<1>2. CASE w = queue
  BY <1>2 DEF Ahead
<1>3. ASSUME NEW e \in Commands, w = Append(queue, e), record[e] = "absent"
      PROVE  Ahead(w[p], c, queue)
  <2>1. /\ DOMAIN w = 1..(Len(queue) + 1) /\ w[Len(queue) + 1] = e
        /\ \A i \in 1..Len(queue) : w[i] = queue[i]
        /\ Len(queue) \in Nat /\ DOMAIN queue = 1..Len(queue)
    BY <1>1, <1>3
  <2>2. q # Len(queue) + 1 BY <1>1, <1>3, <2>1
  <2>3. p \in 1..Len(queue) /\ q \in 1..Len(queue) BY <2>1, <2>2
  <2> QED BY <2>1, <2>3 DEF Ahead
<1> QED BY <1>1, <1>2, <1>3 DEF PreparedQueue

LEMMA KeepsGood ==
  ASSUME CoreIInv, IInv', NEW r, NEW s, NEW w, Keeps(r, s, w),
         r \in [Commands -> RecordStates],
         Len(w) <= QueueCapacity, PreparedQueue(w), w \in Seq(Commands),
         \A c \in Commands : record[c] = "TERMINAL" =>
                               r[c] = "TERMINAL" /\ s[c] = status[c],
         \A c \in Commands : record[c] # "absent" => r[c] # "absent",
         pendingReset' \in Commands \cup {NoCommand},
         pendingReset' # NoCommand =>
           r[pendingReset'] = "APPLIED" /\ pendingReset' # mission,
         \A i \in DOMAIN w : r[w[i]] = "QUEUED",
         UNCHANGED expired,
         resetsAsked' \in Nat, safetyLatched' \in BOOLEAN,
         estopSinceReset' \in BOOLEAN,
         ctx'.state # "PREPARING_GOAL"
  PROVE  GoodStep
<1>1. FinalKept
  BY FinalIsTerminal DEF Keeps, FinalKept
<1>2. OrderKept
  <2> SUFFICES ASSUME NEW c \in Waiting, NEW d \in Commands, c # d,
                      Ahead(d, c, queue') \/ (mission' = d /\ mission # d)
               PROVE  Ahead(d, c, queue)
    BY DEF OrderKept
  <2>1. CASE Ahead(d, c, queue')
    <3>1. PICK i \in DOMAIN queue', j \in DOMAIN queue' :
            i < j /\ queue'[i] = d /\ queue'[j] = c
      BY <2>1 DEF Ahead
    <3>2. PICK p \in DOMAIN w, q \in DOMAIN w :
            p < q /\ d = w[p] /\ c = w[q]
      BY <3>1 DEF Keeps
    <3> QED BY <3>2, QueueOrder
  <2>2. CASE mission' = d /\ mission # d
    <3>1. w # <<>> /\ w[1] = d
      BY <2>2, CommandsAssumption DEF Keeps
    <3>2. queue \in Seq(Commands) BY DEF CoreIInv, Stored
    <3>3. PICK i \in DOMAIN queue : queue[i] = c
      BY DEF Waiting
    <3>4. i \in DOMAIN w /\ w[i] = c /\ 1 \in DOMAIN w
      BY <3>1, <3>2, <3>3 DEF PreparedQueue
    <3>5. 1 < i BY <3>1, <3>2, <3>3, <3>4
    <3> QED BY <3>1, <3>4, <3>5, QueueOrder
  <2> QED BY <2>1, <2>2
<1>3. ResetFits'
  <2>1. ASSUME pendingReset' # NoCommand
        PROVE  record'[pendingReset'] = "APPLIED" /\ pendingReset' # mission'
    <3>1. /\ pendingReset' \in Commands /\ pendingReset' # mission
          /\ r[pendingReset'] = "APPLIED"
      BY <2>1
    <3>2. record'[pendingReset'] = "APPLIED"
      BY <3>1 DEF Keeps
    <3>3. w # <<>> => r[w[1]] = "QUEUED"
      OBVIOUS
    <3> QED BY <2>1, <3>1, <3>2, <3>3 DEF Keeps
  <2> QED BY <2>1 DEF ResetFits
<1>4. MissionFits'
  BY DEF Keeps, MissionFits
<1>5. expired' \subseteq { c \in Commands : record'[c] # "absent" }
  <2> SUFFICES ASSUME NEW c \in expired
               PROVE  c \in Commands /\ record'[c] # "absent"
    OBVIOUS
  <2>1. c \in Commands /\ r[c] # "absent" BY DEF CoreIInv
  <2>2. CASE c = mission
    BY <2>1, <2>2, CommandsAssumption DEF Keeps
  <2>3. CASE c # mission
    BY <2>1, <2>3 DEF Keeps
  <2> QED BY <2>1, <2>2, <2>3
<1>6. Len(queue') <= QueueCapacity
  BY CommandsAssumption DEF Keeps, Stored
<1>7. Stored(record, status, queue, mission)' /\ IdleQueueIsEmpty'
      /\ alive' \in BOOLEAN
  BY DEF Keeps, Stored, IdleQueueIsEmpty
<1>8. CoreIInv'
  BY <1>3, <1>4, <1>5, <1>6, <1>7 DEF CoreIInv
<1> QED BY <1>1, <1>2, <1>8 DEF GoodStep

-----------------------------------------------------------------------------
(***************************************************************************)
(* The shapes a step of the life cycle can have, seen from the core.       *)
(***************************************************************************)

\* What FollowKeeps and KeepsGood ask of the life cycle's step for an event.
Steps(event, next) ==
  LET d    == Transition(ctx, event)
      ends == d.effects \cap TerminalEffects # {}
  IN /\ ends => /\ ctx.state # "IDLE"
                /\ (next = "none") <=> (active' = 0)
                /\ next # "none" => ctx'.state \in {"NAVIGATION_STARTING",
                                                     "WAITING_TARGET"}
     /\ ~ends => /\ active' = active
                 /\ ~d.accepted => ctx' = ctx
     /\ ctx'.state \in States \ {"PREPARING_GOAL"}

\* A goal is prepared from a clean context.
LEMMA PreparedState ==
  LET c == CleanContext("PREPARING_GOAL", "NORMAL")
  IN /\ Transition(c, "GOAL_PREPARED").next.state = "NAVIGATION_STARTING"
     /\ Transition(c, "TARGET_NOT_READY").next.state = "WAITING_TARGET"
<1> DEFINE c == CleanContext("PREPARING_GOAL", "NORMAL")
<1>1. c \in Contexts BY CleanContextType DEF States, Modes
<1>2. c.state = "PREPARING_GOAL" /\ c.manager_mode = "NORMAL"
  BY DEF CleanContext
<1> HIDE DEF c
<1>3. /\ Transition(c, "GOAL_PREPARED") = GoalPrepared(c)
      /\ Transition(c, "TARGET_NOT_READY") = TargetNotReady(c)
  BY <1>2 DEF Transition, PassesLatch
<1>4. /\ GoalPrepared(c).next.state = "NAVIGATION_STARTING"
      /\ TargetNotReady(c).next.state = "WAITING_TARGET"
  BY <1>1, <1>2 DEF GoalPrepared, TargetNotReady, Accept, Contexts
<1> QED BY <1>3, <1>4 DEF c

LEMMA ActivatedState ==
  ASSUME NEW next \in NextMission, next # "none"
  PROVE  Activated(next).state \in {"NAVIGATION_STARTING", "WAITING_TARGET"}
<1>1. CleanContext("WAITING_TARGET", "NORMAL").state = "WAITING_TARGET"
  BY DEF CleanContext
<1> QED BY <1>1, PreparedState DEF Activated, NextMission

LEMMA ApplySteps ==
  ASSUME CoreIInv, IInv', NEW event, event # "RESUME_ALLOWED",
         NEW goals, NEW leases, NEW next \in NextMission,
         Apply(event, goals, leases, next)
  PROVE  Steps(event, next)
<1> DEFINE d == Transition(ctx, event)
           ends == d.effects \cap TerminalEffects # {}
<1>1. ctx \in Contexts /\ ctx.state # "PREPARING_GOAL" /\ ctx'.state \in States
      /\ started \in Nat
  BY DEF CoreIInv, IInv, TypeOK, MissionFits, Contexts
<1>2. Sound(ctx, d) BY <1>1, DecisionIsSound
<1>3. CASE ends
  <2>1. EndThenActivate(d.next, goals, next) BY <1>3 DEF Apply
  <2> HIDE DEF d
  <2>2. CASE next = "none"
    BY <1>1, <1>2, <1>3, <2>1, <2>2 DEF EndThenActivate, Sound, Steps, d
  <2>3. CASE next # "none"
    <3>1. active' = started + 1 /\ ctx' = Activated(next)
      BY <2>1, <2>3 DEF EndThenActivate
    <3>2. ctx'.state \in {"NAVIGATION_STARTING", "WAITING_TARGET"}
      BY <2>3, <3>1, ActivatedState
    <3>3. active' # 0 BY <1>1, <3>1
    <3> QED BY <1>1, <1>2, <1>3, <2>3, <3>2, <3>3 DEF Steps, Sound, d
  <2> QED BY <2>2, <2>3
<1>4. CASE ~ends
  <2>1. ctx' = d.next /\ active' = active BY <1>4 DEF Apply
  <2> QED BY <1>1, <1>2, <1>4, <2>1 DEF Steps, Sound
<1> QED BY <1>3, <1>4

LEMMA SubmitSteps ==
  ASSUME CoreIInv, IInv', TargetResolved
  PROVE  Steps("GOAL_PREPARED", "none")
<1> DEFINE d == Transition(ctx, "GOAL_PREPARED")
<1>1. ctx \in Contexts /\ ctx.state # "PREPARING_GOAL" /\ ctx'.state \in States
  BY DEF CoreIInv, IInv, TypeOK, MissionFits, Contexts
<1>2. Sound(ctx, d) BY <1>1, DecisionIsSound
<1>3. ctx' = d.next /\ active' = active
  BY DEF TargetResolved, Submit
<1>4. d.effects \cap TerminalEffects = {}
  <2>1. d \in {GoalPrepared(ctx), Reject(ctx)} BY DEF Transition
  <2> QED BY <2>1 DEF GoalPrepared, Accept, Reject, TerminalEffects
<1> QED BY <1>1, <1>2, <1>3, <1>4 DEF Steps, Sound

LEMMA ResumeSteps ==
  ASSUME CoreIInv, IInv', NEW resolved \in BOOLEAN, Resume(resolved)
  PROVE  Steps("RESUME_ALLOWED", "none")
<1> DEFINE d == Transition(ctx, "RESUME_ALLOWED")
<1>1. d.accepted /\ active' = active BY DEF Resume
<1>2. d \in {ResumeAllowed(ctx), Reject(ctx)} BY DEF Transition
<1>3. /\ d.next = CleanContext("PREPARING_GOAL", "NORMAL")
      /\ d.effects = {"ADVANCE_GENERATION"}
  BY <1>1, <1>2 DEF ResumeAllowed, Accept, Reject
<1>4. \/ ctx' = Transition(d.next, "GOAL_PREPARED").next
      \/ ctx' = Transition(d.next, "TARGET_NOT_READY").next
  BY DEF Resume, Submit
<1>5. ctx'.state \in {"NAVIGATION_STARTING", "WAITING_TARGET"}
  BY <1>3, <1>4, PreparedState
<1> HIDE DEF d
<1>6. d.effects \cap TerminalEffects = {} BY <1>3 DEF TerminalEffects
<1> QED BY <1>1, <1>5, <1>6 DEF Steps, States, d

LEMMA StepsFollow ==
  ASSUME CoreIInv, IInv', alive, NEW r, NEW s, NEW w, Prepared(r, s, w),
         active = 0 => w = <<>>,
         NEW event, NEW next, Steps(event, next), Follow(event, r, s, w, next)
  PROVE  Keeps(r, s, w)
<1>1. (active' = 0) <=> (ctx'.state = "IDLE")
  BY DEF IInv, Ownership
<1> QED BY <1>1, FollowKeeps DEF Steps

\* A handler that only writes to the stores, or nothing.
LEMMA StoresKeep ==
  ASSUME CoreIInv, UNCHANGED <<active, mission>>,
         Stored(record', status', queue', mission),
         mission # NoCommand => status'[mission] = ExternalState(ctx'.state),
         alive' \in BOOLEAN, alive' /\ active = 0 => queue' = <<>>
  PROVE  Keeps(record', status', queue')
<1>1. queue' \in Seq(Commands) /\ Len(queue') <= Len(queue')
  BY DEF Stored
<1>2. \A i, j \in DOMAIN queue' : i < j =>
        \E p, q \in DOMAIN queue' :
           p < q /\ queue'[i] = queue'[p] /\ queue'[j] = queue'[q]
  OBVIOUS
<1>3. /\ mission \in Commands \cup {NoCommand}
      /\ (mission = NoCommand) <=> (active = 0)
      /\ mission # NoCommand => record'[mission] # "absent"
  BY DEF CoreIInv, MissionFits, Stored
<1>4. /\ mission' = mission /\ active' = active
      /\ Stored(record', status', queue', mission')
  OBVIOUS
<1> HIDE DEF Stored
<1> QED BY <1>1, <1>2, <1>3, <1>4 DEF Keeps

-----------------------------------------------------------------------------
(***************************************************************************)
(* The handlers.                                                           *)
(***************************************************************************)

LEMMA NewCommand ==
  ASSUME CoreIInv, NEW c \in Commands, record[c] = "absent"
  PROVE  /\ c # mission /\ c # pendingReset /\ c \notin expired
         /\ \A i \in DOMAIN queue : queue[i] # c
         /\ c # NoCommand
<1>1. c # NoCommand BY CommandsAssumption
<1>2. c # mission BY <1>1 DEF CoreIInv, Stored
<1>3. c # pendingReset BY <1>1 DEF CoreIInv, ResetFits
<1>4. c \notin expired BY DEF CoreIInv
<1>5. \A i \in DOMAIN queue : queue[i] # c BY DEF CoreIInv, Stored
<1> QED BY <1>1, <1>2, <1>3, <1>4, <1>5

\* The invariant's facts about what is stored now.
LEMMA Now ==
  ASSUME CoreIInv
  PROVE  /\ Stored(record, status, queue, mission)
         /\ record \in [Commands -> RecordStates]
         /\ status \in [Commands -> StatusStates]
         /\ queue \in Seq(Commands) /\ Len(queue) <= QueueCapacity
         /\ mission \in Commands \cup {NoCommand}
         /\ mission # NoCommand => status[mission] = ExternalState(ctx.state)
         /\ pendingReset \in Commands \cup {NoCommand}
         /\ pendingReset # NoCommand =>
              record[pendingReset] = "APPLIED" /\ pendingReset # mission
         /\ resetsAsked \in Nat /\ safetyLatched \in BOOLEAN
         /\ estopSinceReset \in BOOLEAN
         /\ ctx.state # "PREPARING_GOAL"
         /\ PreparedQueue(queue) /\ PreparedQueue(<<>>)
         /\ Prepared(record, status, queue)
         /\ alive /\ active = 0 => queue = <<>>
BY DEF CoreIInv, Stored, MissionFits, ResetFits, PreparedQueue, Prepared,
       IdleQueueIsEmpty

\* A new control's own record and status, on top of what else was prepared.
LEMMA ControlStored ==
  ASSUME NEW r, NEW s, NEW w, Prepared(r, s, w),
         NEW c \in Commands, r[c] = "absent", c # mission,
         mission \in Commands \cup {NoCommand},
         NEW accepted \in BOOLEAN
  PROVE  LET r2 == ControlRecords(c, accepted, r)
             s2 == ControlStatuses(c, accepted, s)
         IN /\ Prepared(r2, s2, w)
            /\ r2 \in [Commands -> RecordStates]
            /\ r2[c] = IF accepted THEN "APPLIED" ELSE "TERMINAL"
            /\ \A d \in Commands \ {c} : r2[d] = r[d] /\ s2[d] = s[d]
<1> DEFINE r2 == ControlRecords(c, accepted, r)
           s2 == ControlStatuses(c, accepted, s)
<1>1. /\ r \in [Commands -> RecordStates] /\ s \in [Commands -> StatusStates]
      /\ w \in Seq(Commands)
  BY DEF Prepared, Stored
<1>2. /\ r2 \in [Commands -> RecordStates] /\ s2 \in [Commands -> StatusStates]
      /\ r2[c] = IF accepted THEN "APPLIED" ELSE "TERMINAL"
      /\ s2[c] = IF accepted THEN "ACCEPTED" ELSE "REJECTED"
      /\ \A d \in Commands \ {c} : r2[d] = r[d] /\ s2[d] = s[d]
  BY <1>1 DEF ControlRecords, ControlStatuses, RecordStates, StatusStates
<1> HIDE DEF r2, s2
<1>3. \A i \in DOMAIN w : r2[w[i]] = "QUEUED"
  <2> SUFFICES ASSUME NEW i \in DOMAIN w PROVE r2[w[i]] = "QUEUED"
    OBVIOUS
  <2>1. w[i] \in Commands /\ r[w[i]] = "QUEUED"
    BY <1>1 DEF Prepared, Stored
  <2> QED BY <1>2, <2>1
<1>4. \A d \in Commands :
        /\ r2[d] \in {"absent", "QUEUED"} => s2[d] = r2[d]
        /\ r2[d] = "APPLIED" => d = mission \/ s2[d] = "ACCEPTED"
        /\ r2[d] = "TERMINAL" => s2[d] \in FinalStatuses
  <2> SUFFICES ASSUME NEW d \in Commands
               PROVE  /\ r2[d] \in {"absent", "QUEUED"} => s2[d] = r2[d]
                      /\ r2[d] = "APPLIED" => d = mission \/ s2[d] = "ACCEPTED"
                      /\ r2[d] = "TERMINAL" => s2[d] \in FinalStatuses
    OBVIOUS
  <2>1. CASE d = c BY <1>2, <2>1 DEF FinalStatuses
  <2>2. CASE d # c BY <1>2, <2>2 DEF Prepared, Stored
  <2> QED BY <2>1, <2>2
<1>5. mission # NoCommand => r2[mission] = "APPLIED" /\ s2[mission] = status[mission]
  BY <1>2 DEF Prepared, Stored
<1>6. Prepared(r2, s2, w)
  BY <1>1, <1>2, <1>3, <1>4, <1>5 DEF Prepared, Stored
<1> QED BY <1>2, <1>6 DEF r2, s2

\* _clear_waiting_queue.
LEMMA ClearedStored ==
  ASSUME CoreIInv
  PROVE  LET r == Cleared(record, "TERMINAL")
             s == Cleared(status, "CANCELED")
         IN /\ Prepared(r, s, <<>>)
            /\ \A c \in Commands :
                 /\ record[c] = "QUEUED" => r[c] \in {"QUEUED", "TERMINAL"}
                 /\ record[c] # "QUEUED" => r[c] = record[c] /\ s[c] = status[c]
<1> DEFINE r == Cleared(record, "TERMINAL")
           s == Cleared(status, "CANCELED")
<1>1. \A c \in Commands :
        \/ /\ r[c] = record[c] /\ s[c] = status[c]
        \/ /\ r[c] = "TERMINAL" /\ s[c] = "CANCELED" /\ record[c] = "QUEUED"
  BY DEF Cleared, CoreIInv, Stored
<1>2. r = [c \in Commands |-> r[c]] /\ s = [c \in Commands |-> s[c]]
  BY DEF Cleared
<1> HIDE DEF r, s
<1>3. r \in [Commands -> RecordStates] /\ s \in [Commands -> StatusStates]
  BY <1>1, <1>2, Now DEF RecordStates, StatusStates
<1>4. \A c \in Commands :
        /\ r[c] \in {"absent", "QUEUED"} => s[c] = r[c]
        /\ r[c] = "APPLIED" => c = mission \/ s[c] = "ACCEPTED"
        /\ r[c] = "TERMINAL" => s[c] \in FinalStatuses
  BY <1>1 DEF CoreIInv, Stored, FinalStatuses
<1>5. mission # NoCommand => r[mission] = "APPLIED" /\ s[mission] = status[mission]
  BY <1>1 DEF CoreIInv, Stored, MissionFits
<1>6. Prepared(r, s, <<>>)
  BY <1>3, <1>4, <1>5 DEF Prepared, Stored
<1> QED BY <1>1, <1>6 DEF r, s

\* A control that applies an event.
LEMMA ControlGood ==
  ASSUME CoreIInv, IInv', alive, NEW c \in Commands, record[c] = "absent",
         NEW accepted \in BOOLEAN, NEW r, NEW s, NEW w, Prepared(r, s, w),
         PreparedQueue(w), Len(w) <= QueueCapacity, active = 0 => w = <<>>,
         \A d \in Commands :
           /\ record[d] = "QUEUED" => r[d] \in {"QUEUED", "TERMINAL"}
           /\ record[d] # "QUEUED" => r[d] = record[d] /\ s[d] = status[d],
         NEW event, Steps(event, "none"),
         Follow(event, ControlRecords(c, accepted, r),
                ControlStatuses(c, accepted, s), w, "none"),
         UNCHANGED <<expired, pendingReset, resetsAsked>>,
         safetyLatched' \in BOOLEAN, estopSinceReset' \in BOOLEAN
  PROVE  GoodStep
<1> DEFINE r2 == ControlRecords(c, accepted, r)
           s2 == ControlStatuses(c, accepted, s)
<1>1. r[c] = "absent" /\ c # mission /\ c # pendingReset
  BY NewCommand
<1>2. mission \in Commands \cup {NoCommand} BY Now
<1>3. /\ Prepared(r2, s2, w)
      /\ r2 \in [Commands -> RecordStates]
      /\ r2[c] = IF accepted THEN "APPLIED" ELSE "TERMINAL"
      /\ \A d \in Commands \ {c} : r2[d] = r[d] /\ s2[d] = s[d]
  BY <1>1, <1>2, ControlStored
<1>4. Follow(event, r2, s2, w, "none") OBVIOUS
<1> HIDE DEF r2, s2
<1>5. Keeps(r2, s2, w)
  BY <1>3, <1>4, StepsFollow
<1>6. /\ w \in Seq(Commands) /\ \A i \in DOMAIN w : r2[w[i]] = "QUEUED"
  BY <1>3 DEF Prepared, Stored
<1>7. \A d \in Commands :
        /\ record[d] = "TERMINAL" => r2[d] = "TERMINAL" /\ s2[d] = status[d]
        /\ record[d] # "absent" => r2[d] # "absent"
  BY <1>3
<1>8. /\ pendingReset' \in Commands \cup {NoCommand}
      /\ pendingReset' # NoCommand =>
           r2[pendingReset'] = "APPLIED" /\ pendingReset' # mission
      /\ resetsAsked' \in Nat
  BY <1>1, <1>3, Now
<1>9. ctx'.state # "PREPARING_GOAL" /\ expired' = expired
  BY DEF Steps
<1> QED BY <1>3, <1>5, <1>6, <1>7, <1>8, <1>9, KeepsGood

LEMMA ControlSteps ==
  ASSUME CoreIInv, IInv', NEW c \in Commands,
         SubmitPause(c) \/ SubmitResume(c) \/ SubmitStop(c) \/ SubmitEstop(c)
  PROVE  GoodStep
<1>1. alive /\ record[c] = "absent"
  BY DEF SubmitPause, SubmitResume, SubmitStop, SubmitEstop, IsNew
<1>2. \A event \in Events : Transition(ctx, event).accepted \in BOOLEAN
  BY TransitionType DEF CoreIInv, IInv, TypeOK, Decisions
<1>3. /\ "PAUSE_REQUESTED" \in Events /\ "STOP_REQUESTED" \in Events
      /\ "ESTOP_REQUESTED" \in Events
  BY DEF Events, RequestEvents
<1>4. "none" \in NextMission BY DEF NextMission
<1> USE <1>1
<1>5. CASE SubmitPause(c)
  <2> DEFINE accepted == Transition(ctx, "PAUSE_REQUESTED").accepted
  <2>1. /\ Pause
        /\ Follow("PAUSE_REQUESTED", ControlRecords(c, accepted, record),
                  ControlStatuses(c, accepted, status), queue, "none")
        /\ UNCHANGED <<expired, resetVars>>
    BY <1>5 DEF SubmitPause
  <2>2. accepted \in BOOLEAN BY <1>2, <1>3
  <2> HIDE DEF accepted
  <2>3. Steps("PAUSE_REQUESTED", "none")
    BY <1>4, <2>1, ApplySteps DEF Pause
  <2>4. UNCHANGED <<expired, pendingReset, resetsAsked, safetyLatched, estopSinceReset>>
    BY <2>1 DEF resetVars
  <2> QED BY <2>1, <2>2, <2>3, <2>4, Now, ControlGood
<1>6. CASE SubmitResume(c)
  <2>1. PICK resolved \in BOOLEAN : Resume(resolved)
    BY <1>6 DEF SubmitResume
  <2>2. /\ Follow("RESUME_ALLOWED", ControlRecords(c, TRUE, record),
                  ControlStatuses(c, TRUE, status), queue, "none")
        /\ UNCHANGED <<expired, resetVars>>
    BY <1>6 DEF SubmitResume
  <2>3. Steps("RESUME_ALLOWED", "none")
    BY <2>1, ResumeSteps
  <2>4. UNCHANGED <<expired, pendingReset, resetsAsked, safetyLatched, estopSinceReset>>
    BY <2>2 DEF resetVars
  <2> QED BY <2>2, <2>3, <2>4, Now, ControlGood
<1> DEFINE r == Cleared(record, "TERMINAL")
           s == Cleared(status, "CANCELED")
<1>7. /\ Prepared(r, s, <<>>)
      /\ \A d \in Commands :
           /\ record[d] = "QUEUED" => r[d] \in {"QUEUED", "TERMINAL"}
           /\ record[d] # "QUEUED" => r[d] = record[d] /\ s[d] = status[d]
  BY ClearedStored
<1>8. Len(<<>>) <= QueueCapacity /\ PreparedQueue(<<>>)
  BY Now, CommandsAssumption
<1>9. CASE SubmitStop(c)
  <2> DEFINE accepted == Transition(ctx, "STOP_REQUESTED").accepted
  <2>1. /\ Stop
        /\ Follow("STOP_REQUESTED", ControlRecords(c, accepted, r),
                  ControlStatuses(c, accepted, s), <<>>, "none")
        /\ UNCHANGED <<expired, resetVars>>
    BY <1>9 DEF SubmitStop
  <2>2. accepted \in BOOLEAN BY <1>2, <1>3
  <2> HIDE DEF accepted, r, s
  <2>3. Steps("STOP_REQUESTED", "none")
    BY <1>4, <2>1, ApplySteps DEF Stop
  <2>4. UNCHANGED <<expired, pendingReset, resetsAsked, safetyLatched, estopSinceReset>>
    BY <2>1 DEF resetVars
  <2> QED BY <1>7, <1>8, <2>1, <2>2, <2>3, <2>4, Now, ControlGood
<1>10. CASE SubmitEstop(c)
  <2> DEFINE d        == Transition(ctx, "ESTOP_REQUESTED")
             accepted == d.accepted
  <2>1. /\ Estop
        /\ Follow("ESTOP_REQUESTED", ControlRecords(c, accepted, r),
                  ControlStatuses(c, accepted, s), <<>>, "none")
        /\ safetyLatched' = (safetyLatched \/ "REQUEST_SAFETY_ESTOP" \in d.effects)
        /\ estopSinceReset' = TRUE
        /\ UNCHANGED <<expired, pendingReset, resetsAsked>>
    BY <1>10 DEF SubmitEstop
  <2>2. accepted \in BOOLEAN BY <1>2, <1>3
  <2>3. safetyLatched' \in BOOLEAN /\ estopSinceReset' \in BOOLEAN
    BY <2>1
  <2> HIDE DEF accepted, d, r, s
  <2>4. Steps("ESTOP_REQUESTED", "none")
    BY <1>4, <2>1, ApplySteps DEF Estop
  <2> QED BY <1>7, <1>8, <2>1, <2>2, <2>3, <2>4, Now, ControlGood
<1> QED BY <1>5, <1>6, <1>9, <1>10

\* Handlers that write to the stores and leave the life cycle where it is, or at
\* least the active execution.
LEMMA StoresGood ==
  ASSUME CoreIInv, IInv', UNCHANGED <<active, mission, expired>>,
         Stored(record', status', queue', mission),
         mission # NoCommand => status'[mission] = ExternalState(ctx'.state),
         ctx'.state # "PREPARING_GOAL",
         alive' \in BOOLEAN, alive' /\ active = 0 => queue' = <<>>,
         PreparedQueue(queue'), Len(queue') <= QueueCapacity,
         \A d \in Commands :
           /\ record[d] = "TERMINAL" => record'[d] = "TERMINAL" /\ status'[d] = status[d]
           /\ record[d] # "absent" => record'[d] # "absent",
         pendingReset' \in Commands \cup {NoCommand},
         pendingReset' # NoCommand =>
           record'[pendingReset'] = "APPLIED" /\ pendingReset' # mission,
         resetsAsked' \in Nat, safetyLatched' \in BOOLEAN, estopSinceReset' \in BOOLEAN
  PROVE  GoodStep
<1>1. Keeps(record', status', queue') BY StoresKeep
<1>2. /\ record' \in [Commands -> RecordStates] /\ queue' \in Seq(Commands)
      /\ \A i \in DOMAIN queue' : record'[queue'[i]] = "QUEUED"
  BY DEF Stored
<1> QED BY <1>1, <1>2, KeepsGood

\* A control, or a mission that is rejected, that only gets its own answer.
LEMMA AnswerGood ==
  ASSUME CoreIInv, IInv', alive, NEW c \in Commands, record[c] = "absent",
         NEW accepted \in BOOLEAN,
         record' = ControlRecords(c, accepted, record),
         status' = ControlStatuses(c, accepted, status),
         UNCHANGED <<active, ctx, queue, mission, expired, alive>>,
         pendingReset' = pendingReset \/ (accepted /\ pendingReset' = c),
         resetsAsked' \in Nat, safetyLatched' \in BOOLEAN, estopSinceReset' \in BOOLEAN
  PROVE  GoodStep
<1>1. /\ c # mission /\ c # pendingReset BY NewCommand
<1>2. /\ Prepared(record', status', queue)
      /\ record'[c] = IF accepted THEN "APPLIED" ELSE "TERMINAL"
      /\ \A d \in Commands \ {c} : record'[d] = record[d] /\ status'[d] = status[d]
  BY <1>1, Now, ControlStored
<1>3. /\ pendingReset' \in Commands \cup {NoCommand}
      /\ pendingReset' # NoCommand =>
           record'[pendingReset'] = "APPLIED" /\ pendingReset' # mission
  <2>1. CASE pendingReset' = pendingReset
    <3>1. pendingReset # NoCommand => pendingReset \in Commands \ {c}
      BY <1>1, Now
    <3> QED BY <1>2, <2>1, <3>1, Now
  <2>2. CASE accepted /\ pendingReset' = c
    BY <1>1, <1>2, <2>2
  <2> QED BY <2>1, <2>2
<1>4. /\ Stored(record', status', queue', mission)
      /\ mission # NoCommand => status'[mission] = ExternalState(ctx'.state)
  BY <1>2, Now DEF Prepared
<1>5. \A d \in Commands :
        /\ record[d] = "TERMINAL" => record'[d] = "TERMINAL" /\ status'[d] = status[d]
        /\ record[d] # "absent" => record'[d] # "absent"
  BY <1>2
<1>6. /\ PreparedQueue(queue') /\ Len(queue') <= QueueCapacity
      /\ alive' \in BOOLEAN /\ (alive' /\ active = 0 => queue' = <<>>)
      /\ ctx'.state # "PREPARING_GOAL"
  <2>1. PreparedQueue(queue') BY DEF PreparedQueue
  <2>2. alive' \in BOOLEAN BY DEF CoreIInv
  <2> QED BY <2>1, <2>2, Now
<1> QED BY <1>3, <1>4, <1>5, <1>6, StoresGood

LEMMA RejectionGood ==
  ASSUME CoreIInv, IInv', NEW c \in Commands, MissionRejected(c) \/ ResumeRejected(c)
  PROVE  GoodStep
<1>1. /\ alive /\ record[c] = "absent"
      /\ record' = ControlRecords(c, FALSE, record)
      /\ status' = ControlStatuses(c, FALSE, status)
      /\ UNCHANGED <<active, ctx, queue, mission, expired, pendingReset,
                     resetsAsked, safetyLatched, estopSinceReset, alive>>
  BY DEF MissionRejected, ResumeRejected, IsNew, ControlRecords, ControlStatuses,
         resetVars, vars, coreVars
<1> QED BY <1>1, Now, AnswerGood

LEMMA SubmitResetGood ==
  ASSUME CoreIInv, IInv', NEW c \in Commands, SubmitReset(c)
  PROVE  GoodStep
<1> DEFINE accepted == Transition(ctx, "RESET_ESTOP_ALLOWED").accepted
<1>1. /\ alive /\ record[c] = "absent"
      /\ record' = ControlRecords(c, accepted, record)
      /\ status' = ControlStatuses(c, accepted, status)
      /\ IF accepted
         THEN /\ pendingReset' = c
              /\ resetsAsked' = resetsAsked + 1
              /\ estopSinceReset' = FALSE
         ELSE UNCHANGED <<pendingReset, resetsAsked, estopSinceReset>>
      /\ UNCHANGED <<active, ctx, queue, mission, expired, safetyLatched, alive>>
  BY DEF SubmitReset, IsNew, vars, coreVars
<1>2. accepted \in BOOLEAN
  BY TransitionType DEF CoreIInv, IInv, TypeOK, Decisions
<1> HIDE DEF accepted
<1>3. resetsAsked' \in Nat /\ estopSinceReset' \in BOOLEAN /\ safetyLatched' \in BOOLEAN
  <2>1. resetsAsked \in Nat /\ estopSinceReset \in BOOLEAN /\ safetyLatched \in BOOLEAN
    BY Now
  <2>2. /\ resetsAsked' = resetsAsked + 1 \/ resetsAsked' = resetsAsked
        /\ estopSinceReset' = FALSE \/ estopSinceReset' = estopSinceReset
        /\ safetyLatched' = safetyLatched
    BY <1>1, Zenon
  <2>3. resetsAsked' \in Nat
    BY <2>1, <2>2
  <2>4. estopSinceReset' \in BOOLEAN /\ safetyLatched' \in BOOLEAN
    BY <2>1, <2>2, Zenon
  <2> QED BY <2>3, <2>4
<1> QED BY <1>1, <1>2, <1>3, AnswerGood

LEMMA AppendFacts ==
  ASSUME CoreIInv, NEW c \in Commands, record[c] = "absent", NEW m,
         mission # NoCommand => m = mission,
         m \in {mission, NoCommand}
  PROVE  /\ Stored([record EXCEPT ![c] = "QUEUED"], [status EXCEPT ![c] = "QUEUED"],
                   Append(queue, c), m)
         /\ PreparedQueue(Append(queue, c))
         /\ Len(Append(queue, c)) = Len(queue) + 1
         /\ Append(queue, c) # <<>>
<1> DEFINE r == [record EXCEPT ![c] = "QUEUED"]
           s == [status EXCEPT ![c] = "QUEUED"]
           w == Append(queue, c)
<1>1. c # mission /\ \A i \in DOMAIN queue : queue[i] # c
  BY NewCommand
<1>2. /\ r \in [Commands -> RecordStates] /\ s \in [Commands -> StatusStates]
      /\ r[c] = "QUEUED" /\ s[c] = "QUEUED"
      /\ \A d \in Commands \ {c} : r[d] = record[d] /\ s[d] = status[d]
  BY Now DEF RecordStates, StatusStates
<1>3. /\ w \in Seq(Commands) /\ Len(w) = Len(queue) + 1 /\ w # <<>>
      /\ Len(queue) \in Nat
      /\ DOMAIN w = 1..(Len(queue) + 1) /\ w[Len(queue) + 1] = c
      /\ DOMAIN queue = 1..Len(queue)
      /\ \A i \in 1..Len(queue) : w[i] = queue[i]
  BY Now
<1> HIDE DEF r, s, w
<1>4. \A i, j \in DOMAIN w : w[i] = w[j] => i = j
  BY <1>1, <1>3 DEF CoreIInv, Stored
<1>5. \A i \in DOMAIN w : r[w[i]] = "QUEUED"
  <2> SUFFICES ASSUME NEW i \in DOMAIN w PROVE r[w[i]] = "QUEUED"
    OBVIOUS
  <2>1. CASE i = Len(queue) + 1 BY <1>2, <1>3, <2>1
  <2>2. CASE i \in DOMAIN queue
    <3>1. w[i] = queue[i] /\ queue[i] \in Commands \ {c}
      BY <1>1, <1>3, <2>2, Now
    <3>2. record[queue[i]] = "QUEUED" BY <2>2 DEF CoreIInv, Stored
    <3> QED BY <1>2, <3>1, <3>2
  <2> QED BY <1>3, <2>1, <2>2
<1>6. \A d \in Commands :
        /\ r[d] \in {"absent", "QUEUED"} => s[d] = r[d]
        /\ r[d] = "APPLIED" => d = m \/ s[d] = "ACCEPTED"
        /\ r[d] = "TERMINAL" => s[d] \in FinalStatuses
  <2> SUFFICES ASSUME NEW d \in Commands
               PROVE  /\ r[d] \in {"absent", "QUEUED"} => s[d] = r[d]
                      /\ r[d] = "APPLIED" => d = m \/ s[d] = "ACCEPTED"
                      /\ r[d] = "TERMINAL" => s[d] \in FinalStatuses
    OBVIOUS
  <2>1. CASE d = c BY <1>2, <2>1
  <2>2. CASE d # c
    <3>1. d = mission => d = m
      BY CommandsAssumption
    <3> QED BY <1>2, <2>2, <3>1 DEF CoreIInv, Stored
  <2> QED BY <2>1, <2>2
<1>7. m # NoCommand => r[m] = "APPLIED"
  <2>1. mission # NoCommand => mission \in Commands \ {c} /\ record[mission] = "APPLIED"
    BY <1>1, Now DEF Stored
  <2> QED BY <1>2, <2>1
<1>8. Stored(r, s, w, m)
  BY <1>2, <1>3, <1>4, <1>5, <1>6, <1>7 DEF Stored
<1>9. PreparedQueue(w) BY DEF PreparedQueue, w
<1> QED BY <1>3, <1>8, <1>9 DEF r, s, w

LEMMA MissionQueuedGood ==
  ASSUME CoreIInv, IInv', NEW c \in Commands, MissionQueued(c)
  PROVE  GoodStep
<1>1. /\ alive /\ record[c] = "absent" /\ Len(queue) < QueueCapacity /\ active # 0
      /\ record' = [record EXCEPT ![c] = "QUEUED"]
      /\ status' = [status EXCEPT ![c] = "QUEUED"]
      /\ queue' = Append(queue, c)
      /\ UNCHANGED <<active, ctx, mission, expired, pendingReset,
                     resetsAsked, safetyLatched, estopSinceReset, alive>>
  BY DEF MissionQueued, IsNew, resetVars, vars, coreVars
<1>2. c # mission /\ c # pendingReset BY <1>1, NewCommand
<1>3. /\ Stored(record', status', queue', mission) /\ PreparedQueue(queue')
      /\ Len(queue') = Len(queue) + 1
  BY <1>1, AppendFacts
<1>4. Len(queue') <= QueueCapacity
  BY <1>1, <1>3, Now, CommandsAssumption
<1>5. \A d \in Commands :
        /\ d # c => record'[d] = record[d] /\ status'[d] = status[d]
        /\ record'[c] = "QUEUED"
  BY <1>1, Now
<1>6. \A d \in Commands :
        /\ record[d] = "TERMINAL" => record'[d] = "TERMINAL" /\ status'[d] = status[d]
        /\ record[d] # "absent" => record'[d] # "absent"
  BY <1>1, <1>5
<1>7. /\ mission # NoCommand => status'[mission] = ExternalState(ctx'.state)
      /\ pendingReset # NoCommand =>
           record'[pendingReset] = "APPLIED" /\ pendingReset # mission
  BY <1>1, <1>2, <1>5, Now
<1>8. alive' \in BOOLEAN BY <1>1 DEF CoreIInv
<1> QED BY <1>1, <1>3, <1>4, <1>6, <1>7, <1>8, Now, StoresGood

LEMMA MissionStartedGood ==
  ASSUME CoreIInv, IInv', NEW c \in Commands, MissionStarted(c)
  PROVE  GoodStep
<1> DEFINE r == [record EXCEPT ![c] = "QUEUED"]
           s == [status EXCEPT ![c] = "QUEUED"]
           w == Append(queue, c)
<1>1. /\ alive /\ record[c] = "absent" /\ Len(queue) < QueueCapacity
      /\ UNCHANGED <<expired, pendingReset, resetsAsked, safetyLatched, estopSinceReset>>
  BY DEF MissionStarted, IsNew, resetVars
<1>2. PICK next \in NextMission : Start(next) /\ ActivateNext(r, s, w, next)
  BY DEF MissionStarted
<1>3. active = 0 /\ next # "none" /\ ctx' = Activated(next) /\ active' = started + 1
  BY <1>2 DEF Start, EndThenActivate
<1>4. ctx'.state \in {"NAVIGATION_STARTING", "WAITING_TARGET"}
  BY <1>3, ActivatedState
<1>5. active' # 0 BY <1>3 DEF CoreIInv, IInv, TypeOK
<1>6. mission = NoCommand BY <1>3 DEF CoreIInv, MissionFits
<1>7. Stored(r, s, w, NoCommand) /\ PreparedQueue(w) /\ Len(w) = Len(queue) + 1
  BY <1>1, <1>6, AppendFacts
<1>8. /\ r \in [Commands -> RecordStates]
      /\ \A d \in Commands \ {c} : r[d] = record[d] /\ s[d] = status[d]
      /\ r[c] = "QUEUED"
  BY Now DEF RecordStates
<1> HIDE DEF r, s, w
<1>9. Keeps(r, s, w)
  BY <1>2, <1>3, <1>4, <1>5, <1>6, <1>7, AdvanceKeeps DEF States
<1>10. w \in Seq(Commands) /\ \A i \in DOMAIN w : r[w[i]] = "QUEUED"
  BY <1>7 DEF Stored
<1>11. Len(w) <= QueueCapacity
  BY <1>1, <1>7, Now, CommandsAssumption
<1>12. \A d \in Commands :
         /\ record[d] = "TERMINAL" => r[d] = "TERMINAL" /\ s[d] = status[d]
         /\ record[d] # "absent" => r[d] # "absent"
  BY <1>1, <1>8
<1>13. /\ pendingReset' \in Commands \cup {NoCommand}
       /\ pendingReset' # NoCommand =>
            r[pendingReset'] = "APPLIED" /\ pendingReset' # mission
  <2>1. c # pendingReset BY <1>1, NewCommand
  <2> QED BY <1>1, <1>8, <2>1, Now
<1>14. /\ resetsAsked' \in Nat /\ safetyLatched' \in BOOLEAN
       /\ estopSinceReset' \in BOOLEAN /\ ctx'.state # "PREPARING_GOAL"
  BY <1>1, <1>4, Now
<1> QED BY <1>1, <1>7, <1>8, <1>9, <1>10, <1>11, <1>12, <1>13, <1>14, KeepsGood

LEMMA ExpireGood ==
  ASSUME CoreIInv, IInv', NEW c \in Commands, Expire(c)
  PROVE  GoodStep
<1>1. /\ record[c] = "QUEUED" /\ expired' = expired \cup {c}
      /\ UNCHANGED <<ctx, active, record, status, queue, mission, pendingReset,
                     resetsAsked, safetyLatched, estopSinceReset, alive>>
  BY DEF Expire, resetVars, vars, coreVars
<1>2. CoreIInv'
  BY <1>1 DEF CoreIInv, Stored, MissionFits, ResetFits, IdleQueueIsEmpty
<1>3. FinalKept /\ OrderKept
  BY <1>1 DEF FinalKept, OrderKept, Ahead
<1> QED BY <1>2, <1>3 DEF GoodStep

\* The answer to a reset: the pending command gets its final status, or the
\* handler raises, or there is no pending command.
LEMMA AnsweredResetGood ==
  ASSUME CoreIInv, IInv', resetsAsked \in Nat, resetsAsked > 0,
         resetsAsked' = resetsAsked - 1, pendingReset' = NoCommand,
         safetyLatched' \in BOOLEAN,
         UNCHANGED <<active, queue, mission, expired, estopSinceReset>>,
         \/ UNCHANGED <<record, status>> /\ alive' \in {alive, FALSE}
         \/ /\ pendingReset # NoCommand /\ alive
            /\ \E final \in {"SUCCEEDED", "FAILED"} : FinishReset(final),
         ctx' = ctx \/ (active = 0 /\ ctx'.state = "IDLE")
  PROVE  GoodStep
<1>1. resetsAsked' \in Nat OBVIOUS
<1>2. mission # NoCommand => ctx' = ctx
  BY DEF CoreIInv, MissionFits
<1>3. ctx'.state # "PREPARING_GOAL" BY Now
<1>4. alive' \in BOOLEAN /\ (alive' => alive)
  <2>1. alive \in BOOLEAN BY DEF CoreIInv
  <2>2. \/ alive' = alive \/ alive' = FALSE
        \/ alive' = TRUE /\ alive
    BY Zenon DEF FinishReset
  <2>3. CASE alive' = alive BY <2>1, <2>3, Zenon
  <2>4. CASE alive' = FALSE
    <3>1. ~alive' BY <2>4
    <3>2. alive' \in BOOLEAN BY <2>4
    <3> QED BY <3>1, <3>2
  <2>5. CASE alive' = TRUE /\ alive BY <2>5
  <2> QED BY <2>2, <2>3, <2>4, <2>5, Zenon
<1>5. PreparedQueue(queue') /\ Len(queue') <= QueueCapacity
  BY Now DEF PreparedQueue
<1>6. CASE UNCHANGED <<record, status>>
  <2>1. /\ Stored(record', status', queue', mission)
        /\ mission # NoCommand => status'[mission] = ExternalState(ctx'.state)
        /\ alive' /\ active = 0 => queue' = <<>>
    BY <1>2, <1>4, <1>6, Now
  <2> QED BY <1>1, <1>3, <1>4, <1>5, <1>6, <2>1, Now, StoresGood
<1>7. ASSUME pendingReset # NoCommand, alive,
             NEW final \in {"SUCCEEDED", "FAILED"}, FinishReset(final)
      PROVE  GoodStep
  <2>1. /\ pendingReset \in Commands /\ pendingReset # mission
        /\ record[pendingReset] = "APPLIED"
    BY <1>7, Now
  <2>2. /\ record' \in [Commands -> RecordStates]
        /\ status' \in [Commands -> StatusStates]
        /\ record'[pendingReset] = "TERMINAL"
        /\ status'[pendingReset] \in FinalStatuses
        /\ \A d \in Commands \ {pendingReset} :
             record'[d] = record[d] /\ status'[d] = status[d]
        /\ mission # NoCommand =>
             record'[mission] = record[mission] /\ status'[mission] = status[mission]
    BY <1>7, <2>1, Now DEF FinishReset, RecordStates, StatusStates, FinalStatuses
  <2>3. \A i \in DOMAIN queue : record'[queue[i]] = "QUEUED"
    <3> SUFFICES ASSUME NEW i \in DOMAIN queue PROVE record'[queue[i]] = "QUEUED"
      OBVIOUS
    <3>1. queue[i] \in Commands /\ record[queue[i]] = "QUEUED"
      BY DEF CoreIInv, Stored
    <3> QED BY <2>1, <2>2, <3>1
  <2>4. Stored(record', status', queue, mission)
    BY <2>1, <2>2, <2>3 DEF CoreIInv, Stored
  <2>5. \A d \in Commands :
          /\ record[d] = "TERMINAL" => record'[d] = "TERMINAL" /\ status'[d] = status[d]
          /\ record[d] # "absent" => record'[d] # "absent"
    BY <2>1, <2>2
  <2>6. /\ mission # NoCommand => status'[mission] = ExternalState(ctx'.state)
        /\ alive' /\ active = 0 => queue' = <<>>
    BY <1>2, <1>4, <2>2, Now
  <2> QED BY <1>1, <1>3, <1>4, <1>5, <2>4, <2>5, <2>6, Now, StoresGood
<1> QED BY <1>6, <1>7

LEMMA ResetAnswerGood ==
  ASSUME CoreIInv, IInv', ResetFails \/ ResetSucceeds
  PROVE  GoodStep
<1>1. resetsAsked \in Nat /\ safetyLatched \in BOOLEAN BY Now
<1>2. CASE ResetFails
  <2>1. /\ alive /\ resetsAsked > 0 /\ resetsAsked' = resetsAsked - 1
        /\ pendingReset' = NoCommand
        /\ UNCHANGED <<ctx, active, queue, mission, expired, safetyLatched,
                       estopSinceReset>>
        /\ IF pendingReset # NoCommand THEN FinishReset("FAILED")
           ELSE UNCHANGED <<record, status, alive>>
    BY <1>2 DEF ResetFails, vars, coreVars
  <2> QED BY <1>1, <2>1, AnsweredResetGood
<1>3. CASE ResetSucceeds
  <2>1. /\ alive /\ resetsAsked > 0 /\ resetsAsked' = resetsAsked - 1
        /\ pendingReset' = NoCommand /\ safetyLatched' = FALSE
        /\ UNCHANGED <<queue, mission, expired, estopSinceReset>>
    BY <1>3 DEF ResetSucceeds
  <2>2. CASE ~Transition(ctx, "RESET_ESTOP_ALLOWED").accepted \/ pendingReset = NoCommand
    <3>1. /\ UNCHANGED <<ctx, active, record, status>>
          /\ alive' \in {alive, FALSE}
      BY <1>3, <2>2 DEF ResetSucceeds, vars, coreVars
    <3> QED BY <1>1, <2>1, <3>1, AnsweredResetGood
  <2>3. CASE Transition(ctx, "RESET_ESTOP_ALLOWED").accepted /\ pendingReset # NoCommand
    <3>1. ResetSucceeded /\ FinishReset("SUCCEEDED")
      BY <1>3, <2>3 DEF ResetSucceeds
    <3> DEFINE d == Transition(ctx, "RESET_ESTOP_ALLOWED")
    <3>2. d = ResetEstopAllowed(ctx) BY DEF Transition
    <3>3. /\ ctx.state = "IDLE" /\ d.next = CleanContext("IDLE", "NORMAL")
          /\ d.effects = {}
      BY <2>3, <3>2 DEF ResetEstopAllowed, Accept, Reject
    <3>4. ctx' = d.next /\ active' = active
      BY <3>1, <3>3 DEF ResetSucceeded, Apply
    <3>5. active = 0 /\ ctx'.state = "IDLE"
      BY <3>3, <3>4 DEF CoreIInv, IInv, Ownership, CleanContext
    <3> QED BY <1>1, <2>1, <2>3, <3>1, <3>4, <3>5, AnsweredResetGood
  <2> QED BY <2>2, <2>3
<1> QED BY <1>2, <1>3

\* An answer or a timer that applies an event to the active execution.
LEMMA EventGood ==
  ASSUME CoreIInv, IInv', alive, NEW event, NEW next, Steps(event, next),
         Follow(event, record, status, queue, next), UNCHANGED <<expired, resetVars>>
  PROVE  GoodStep
<1>1. Keeps(record, status, queue) BY Now, StepsFollow
<1>2. ctx'.state # "PREPARING_GOAL" BY DEF Steps
<1>3. /\ pendingReset' \in Commands \cup {NoCommand}
      /\ pendingReset' # NoCommand =>
           record[pendingReset'] = "APPLIED" /\ pendingReset' # mission
      /\ resetsAsked' \in Nat /\ safetyLatched' \in BOOLEAN
      /\ estopSinceReset' \in BOOLEAN
  BY Now DEF resetVars
<1>4. \A i \in DOMAIN queue : record[queue[i]] = "QUEUED"
  BY DEF CoreIInv, Stored
<1> QED BY <1>1, <1>2, <1>3, <1>4, Now, KeepsGood

\* An answer to another execution or generation is dropped.
LEMMA DroppedGood ==
  ASSUME CoreIInv, IInv',
         UNCHANGED <<coreVars, record, status, queue, mission, alive, expired, resetVars>>
  PROVE  GoodStep
<1>1. CoreIInv'
  BY DEF CoreIInv, Stored, MissionFits, ResetFits, IdleQueueIsEmpty, coreVars,
         resetVars
<1>2. FinalKept /\ OrderKept
  BY DEF FinalKept, OrderKept, Ahead
<1> QED BY <1>1, <1>2 DEF GoodStep

LEMMA NavigationAnsweredGood ==
  ASSUME CoreIInv, IInv', NEW h \in Handles, NavigationAnswered(h)
  PROVE  GoodStep
<1>1. PICK next \in NextMission, event \in NavigationEvents, status_ \in GoalStatuses :
        /\ NavigationEvent(h, event, status_, next)
        /\ IF h = gate THEN Follow(event, record, status, queue, next)
           ELSE UNCHANGED <<record, status, queue, mission, alive>>
  BY DEF NavigationAnswered, GoalAccepted, GoalRejected, GoalSucceeded, GoalFailed,
         CancelConfirmed, CancelFailed, NavigationEvents, GoalStatuses
<1>2. alive /\ UNCHANGED <<expired, resetVars>> BY DEF NavigationAnswered
<1>3. event # "RESUME_ALLOWED" BY DEF NavigationEvents
<1>4. CASE h = gate
  <2>1. Steps(event, next)
    BY <1>1, <1>3, <1>4, ApplySteps DEF NavigationEvent
  <2> QED BY <1>1, <1>2, <1>4, <2>1, EventGood
<1>5. CASE h # gate
  <2>1. UNCHANGED <<coreVars, record, status, queue, mission, alive>>
    BY <1>1, <1>5 DEF NavigationEvent
  <2> QED BY <1>2, <2>1, DroppedGood
<1> QED BY <1>4, <1>5

LEMMA LeaseAnsweredGood ==
  ASSUME CoreIInv, IInv', NEW e \in Executions, LeaseAnswered(e)
  PROVE  GoodStep
<1>1. PICK next \in NextMission, event \in LeaseEvents, status_ \in LeaseStatuses :
        /\ LeaseEvent(e, event, status_, next)
        /\ IF e = active THEN Follow(event, record, status, queue, next)
           ELSE UNCHANGED <<record, status, queue, mission, alive>>
  BY DEF LeaseAnswered, LeaseAcquired, LeaseAcquireFailed, LeaseReleased,
         LeaseReleaseFailed, LeaseEvents, LeaseStatuses
<1>2. alive /\ UNCHANGED <<expired, resetVars>> BY DEF LeaseAnswered
<1>3. event # "RESUME_ALLOWED" BY DEF LeaseEvents
<1>4. CASE e = active
  <2>1. Steps(event, next)
    BY <1>1, <1>3, <1>4, ApplySteps DEF LeaseEvent
  <2> QED BY <1>1, <1>2, <1>4, <2>1, EventGood
<1>5. CASE e # active
  <2>1. UNCHANGED <<coreVars, record, status, queue, mission, alive>>
    BY <1>1, <1>5 DEF LeaseEvent
  <2> QED BY <1>2, <2>1, DroppedGood
<1> QED BY <1>4, <1>5

LEMMA TargetGood ==
  ASSUME CoreIInv, IInv', TargetAppears \/ TargetTimesOut
  PROVE  GoodStep
<1>1. alive /\ UNCHANGED <<expired, resetVars>>
  BY DEF TargetAppears, TargetTimesOut
<1>2. CASE TargetAppears
  <2>1. Steps("GOAL_PREPARED", "none") BY <1>2, SubmitSteps DEF TargetAppears
  <2> QED BY <1>1, <1>2, <2>1, EventGood DEF TargetAppears
<1>3. CASE TargetTimesOut
  <2>1. PICK next \in NextMission :
          /\ TargetWaitExpires(next)
          /\ Follow("TARGET_WAIT_TIMEOUT", record, status, queue, next)
    BY <1>3 DEF TargetTimesOut
  <2>2. Steps("TARGET_WAIT_TIMEOUT", next)
    BY <2>1, ApplySteps DEF TargetWaitExpires
  <2> QED BY <1>1, <2>1, <2>2, EventGood
<1> QED BY <1>2, <1>3

LEMMA NextGood ==
  ASSUME CoreIInv, CoreNext
  PROVE  GoodStep
<1>1. IInv'
  BY HandlerIsLifecycleStep, NextIInv DEF CoreIInv
<1>2. ASSUME NEW c \in Commands, SubmitCommand(c) PROVE GoodStep
  BY <1>1, <1>2, ControlSteps, RejectionGood, SubmitResetGood, MissionQueuedGood,
     MissionStartedGood DEF SubmitCommand
<1>3. CASE OrphanedGoalEnds
  <2>1. /\ UNCHANGED <<coreVars, record, status, queue, mission, alive, expired, resetVars>>
    BY <1>3 DEF OrphanedGoalEnds, OrphanEnds, storeVars
  <2> QED BY <1>1, <2>1, DroppedGood
<1> QED BY <1>1, <1>2, <1>3, ExpireGood, NavigationAnsweredGood, LeaseAnsweredGood,
       ResetAnswerGood, TargetGood DEF CoreNext

LEMMA InitCoreIInv ==
  ASSUME CoreInit
  PROVE  CoreIInv
<1>1. IInv BY InitIInv DEF CoreInit
<1>2. Stored(record, status, queue, mission)
  BY CommandsAssumption DEF CoreInit, Stored, RecordStates, StatusStates
<1>3. ctx.state = "IDLE" BY DEF CoreInit, Init, CleanContext
<1>4. MissionFits BY <1>3 DEF CoreInit, Init, MissionFits
<1>5. ResetFits BY DEF CoreInit, ResetFits
<1>6. Len(queue) <= QueueCapacity BY CommandsAssumption DEF CoreInit
<1> QED BY <1>1, <1>2, <1>4, <1>5, <1>6 DEF CoreInit, CoreIInv, IdleQueueIsEmpty

\* Stores, queue, reset and execution agree at every step, for any commands and
\* any capacity of the queue.
THEOREM CoreInvariant == CoreSpec => []CoreIInv
<1>1. CoreInit => CoreIInv BY InitCoreIInv
<1>2. CoreIInv /\ [CoreNext]_coreAllVars => CoreIInv'
  <2>1. ASSUME CoreIInv, UNCHANGED coreAllVars PROVE CoreIInv'
    <3>1. IInv' BY <2>1, NextIInv DEF coreAllVars, CoreIInv
    <3> QED BY <2>1, <3>1, DroppedGood
        DEF coreAllVars, vars, storeVars, GoodStep
  <2> QED BY <2>1, NextGood DEF GoodStep
<1> QED BY <1>1, <1>2, PTL DEF CoreSpec

\* Every variable of the core keeps its type.
THEOREM CoreTypeCorrect == CoreSpec => []CoreTypeOK
<1>1. CoreIInv => CoreTypeOK
  BY DEF CoreIInv, CoreTypeOK, Stored, MissionFits, ResetFits
<1> QED BY <1>1, CoreInvariant, PTL

\* Records, statuses, queue and execution tell one story about each mission.
THEOREM StoresAgree == CoreSpec => []OneStory
<1>1. CoreIInv => OneStory
  BY CommandsAssumption DEF CoreIInv, OneStory, Stored, MissionFits, Waiting
<1> QED BY <1>1, CoreInvariant, PTL

\* The first final status of a command is its last.
THEOREM FinalStatusStays == CoreSpec => FinalStatusIsFinal
<1>1. CoreIInv /\ [CoreNext]_coreAllVars =>
        [\A c \in Commands :
           status[c] \in FinalStatuses => status'[c] = status[c]]_coreAllVars
  BY NextGood DEF GoodStep, FinalKept
<1> QED BY <1>1, CoreInvariant, PTL DEF CoreSpec, FinalStatusIsFinal

\* A waiting mission is never overtaken.
THEOREM QueueIsFair == CoreSpec => FirstInFirstOut
<1>1. CoreIInv /\ [CoreNext]_coreAllVars =>
        [\A c \in Waiting, d \in Commands \ {mission} :
           c # d /\ ~Ahead(d, c, queue)
             => /\ ~Ahead(d, c, queue')
                /\ mission' = d => c \in expired]_coreAllVars
  BY NextGood DEF GoodStep, OrderKept
<1> QED BY <1>1, CoreInvariant, PTL DEF CoreSpec, FirstInFirstOut

-----------------------------------------------------------------------------
(***************************************************************************)
(* What the active mission is published as when its execution ends.        *)
(***************************************************************************)

\* What _activate_next makes of the queue w that the handler has prepared.
Advanced(w) ==
  LET valid     == Kept(w, expired)
      activates == valid # <<>> /\ valid[1] = w[1]
  IN /\ queue' = IF valid = <<>> THEN <<>> ELSE Tail(valid)
     /\ alive' = (valid # <<>> => activates)
     /\ mission' = IF activates THEN valid[1] ELSE NoCommand

\* Only STOP and ESTOP change the queue before it is advanced.
Clearing == { "STOP_REQUESTED", "ESTOP_REQUESTED" }

\* Its execution ends in this step, as an event other than a reset decides, and
\* the queue is advanced.
EndedAsDecided ==
  /\ active' # active
  /\ \E event, w :
       LET d == Transition(ctx, event)
       IN /\ Ends(d) /\ status'[mission] = FinalState(d.effects)
          /\ Advanced(w) /\ (event \in Clearing \/ w = queue)

LEMMA FollowEnds ==
  ASSUME CoreIInv, active # 0, NEW r, NEW s, NEW w, Prepared(r, s, w),
         NEW event, NEW next, Follow(event, r, s, w, next),
         Ends(Transition(ctx, event))
  PROVE  /\ status'[mission] = FinalState(Transition(ctx, event).effects)
         /\ Advanced(w)
<1> DEFINE d  == Transition(ctx, event)
           r2 == [r EXCEPT ![mission] = "TERMINAL"]
           s2 == [s EXCEPT ![mission] = FinalState(d.effects)]
           valid == Kept(w, expired)
<1>1. mission \in Commands /\ mission # NoCommand
  BY DEF CoreIInv, MissionFits
<1>2. /\ s \in [Commands -> StatusStates] /\ w \in Seq(Commands)
      /\ r[mission] = "APPLIED" /\ \A i \in DOMAIN w : r[w[i]] = "QUEUED"
  BY <1>1 DEF Prepared, Stored
<1>3. ActivateNext(r2, s2, w, next) BY DEF Follow, Ends
<1>4. s2 \in [Commands -> StatusStates \cup {FinalState(d.effects)}]
      /\ s2[mission] = FinalState(d.effects)
  BY <1>1, <1>2
<1>5. /\ valid \in Seq(Commands)
      /\ \A i \in DOMAIN valid : \E p \in DOMAIN w : valid[i] = w[p]
  BY <1>2, KeptFacts
<1> HIDE DEF d, r2, s2, valid
<1>6. \/ status' = s2
      \/ valid # <<>> /\ status' = [s2 EXCEPT ![valid[1]] = ExternalState(ctx'.state)]
  BY <1>3 DEF ActivateNext, valid
<1>7. valid # <<>> => valid[1] # mission
  <2> SUFFICES ASSUME valid # <<>> PROVE valid[1] # mission
    OBVIOUS
  <2>1. 1 \in DOMAIN valid BY <1>5
  <2> QED BY <1>2, <1>5, <2>1
<1>8. Advanced(w) BY <1>3 DEF ActivateNext, Advanced
<1> QED BY <1>1, <1>4, <1>6, <1>7, <1>8 DEF d

LEMMA AppliedEnd ==
  ASSUME CoreIInv, active # 0, active' # active \/ mission' # mission,
         NEW r, NEW s, NEW w, Prepared(r, s, w), NEW event, NEW next,
         Follow(event, r, s, w, next), event \in Clearing \/ w = queue,
         NEW goals, NEW leases, Apply(event, goals, leases, next)
  PROVE  EndedAsDecided
<1>1. Ends(Transition(ctx, event))
  BY DEF Apply, Follow, Ends
<1>2. active \in Nat /\ started \in Nat /\ active = started
  BY DEF CoreIInv, IInv, TypeOK, FreshHandles
<1>3. EndThenActivate(Transition(ctx, event).next, goals, next)
  BY <1>1 DEF Apply, Ends
<1>4. active' # active
  BY <1>2, <1>3 DEF EndThenActivate
<1> QED BY <1>1, <1>4, FollowEnds DEF EndedAsDecided

\* Preparing a goal ends nothing.
LEMMA PreparingEndsNothing ==
  /\ ~Ends(Transition(ctx, "RESUME_ALLOWED"))
  /\ ~Ends(Transition(ctx, "GOAL_PREPARED"))
<1>1. /\ Transition(ctx, "RESUME_ALLOWED") \in {ResumeAllowed(ctx), Reject(ctx)}
      /\ Transition(ctx, "GOAL_PREPARED") \in {GoalPrepared(ctx), Reject(ctx)}
  BY DEF Transition
<1>2. ~Ends(ResumeAllowed(ctx)) /\ ~Ends(GoalPrepared(ctx)) /\ ~Ends(Reject(ctx))
  BY DEF ResumeAllowed, GoalPrepared, Accept, Reject, Ends, TerminalEffects
<1> QED BY <1>1, <1>2

LEMMA ControlEnd ==
  ASSUME CoreIInv, active # 0, active' # active \/ mission' # mission,
         NEW c \in Commands, SubmitCommand(c)
  PROVE  EndedAsDecided
<1>1. ASSUME NEW event, NEW r, NEW s, NEW w, Prepared(r, s, w), record[c] = "absent",
             r[c] = "absent", event \in Clearing \/ w = queue,
             Apply(event, goal, lease, "none"),
             Follow(event,
                    ControlRecords(c, Transition(ctx, event).accepted, r),
                    ControlStatuses(c, Transition(ctx, event).accepted, s), w, "none"),
             Transition(ctx, event).accepted \in BOOLEAN
      PROVE  EndedAsDecided
  <2> DEFINE accepted == Transition(ctx, event).accepted
             r2 == ControlRecords(c, accepted, r)
             s2 == ControlStatuses(c, accepted, s)
  <2>1. c # mission /\ mission \in Commands \cup {NoCommand}
    BY <1>1, NewCommand, Now
  <2>2. Prepared(r2, s2, w)
    <3> HIDE DEF accepted
    <3>1. accepted \in BOOLEAN BY <1>1 DEF accepted
    <3> QED BY <1>1, <2>1, <3>1, ControlStored
  <2>3. Follow(event, r2, s2, w, "none") BY <1>1
  <2> HIDE DEF r2, s2
  <2> QED BY <1>1, <2>2, <2>3, AppliedEnd
<1>2. \A event \in Events : Transition(ctx, event).accepted \in BOOLEAN
  BY TransitionType DEF CoreIInv, IInv, TypeOK, Decisions
<1>3. /\ "PAUSE_REQUESTED" \in Events /\ "STOP_REQUESTED" \in Events
      /\ "ESTOP_REQUESTED" \in Events
  BY DEF Events, RequestEvents
<1>4. CASE SubmitPause(c)
  BY <1>1, <1>2, <1>3, <1>4, Now DEF SubmitPause, Pause, IsNew
<1> DEFINE r == Cleared(record, "TERMINAL")
           s == Cleared(status, "CANCELED")
<1>5. Prepared(r, s, <<>>) /\ (record[c] = "absent" => r[c] = "absent")
  BY ClearedStored
<1>6. CASE SubmitStop(c)
  <2> HIDE DEF r, s
  <2>1. /\ record[c] = "absent" /\ Apply("STOP_REQUESTED", goal, lease, "none")
        /\ Follow("STOP_REQUESTED",
                  ControlRecords(c, Transition(ctx, "STOP_REQUESTED").accepted, r),
                  ControlStatuses(c, Transition(ctx, "STOP_REQUESTED").accepted, s),
                  <<>>, "none")
    BY <1>6 DEF SubmitStop, Stop, IsNew, r, s
  <2> QED BY <1>1, <1>2, <1>3, <1>5, <2>1 DEF Clearing
<1>7. CASE SubmitEstop(c)
  <2> HIDE DEF r, s
  <2>1. /\ record[c] = "absent" /\ Apply("ESTOP_REQUESTED", goal, lease, "none")
        /\ Follow("ESTOP_REQUESTED",
                  ControlRecords(c, Transition(ctx, "ESTOP_REQUESTED").accepted, r),
                  ControlStatuses(c, Transition(ctx, "ESTOP_REQUESTED").accepted, s),
                  <<>>, "none")
    BY <1>7 DEF SubmitEstop, Estop, IsNew, r, s
  <2> QED BY <1>1, <1>2, <1>3, <1>5, <2>1 DEF Clearing
<1>8. CASE SubmitResume(c)
  <2>1. active' = active BY <1>8 DEF SubmitResume, Resume
  <2>2. ~Ends(Transition(ctx, "RESUME_ALLOWED")) BY PreparingEndsNothing
  <2>3. mission' = mission BY <1>8, <2>2 DEF SubmitResume, Follow, Ends
  <2> QED BY <2>1, <2>3
<1>9. CASE MissionRejected(c) \/ MissionQueued(c) \/ ResumeRejected(c) \/ SubmitReset(c)
  BY <1>9 DEF MissionRejected, MissionQueued, ResumeRejected, SubmitReset, vars, coreVars
<1>10. CASE MissionStarted(c)
  BY <1>10 DEF MissionStarted, Start
<1> QED BY <1>4, <1>6, <1>7, <1>8, <1>9, <1>10 DEF SubmitCommand

LEMMA StepEnds ==
  ASSUME CoreIInv, CoreNext, active # 0, active' # active \/ mission' # mission
  PROVE  EndedAsDecided
<1>1. Prepared(record, status, queue) BY Now
<1>2. ASSUME NEW h \in Handles, NavigationAnswered(h) PROVE EndedAsDecided
  <2>1. PICK next \in NextMission, event \in NavigationEvents, status_ \in GoalStatuses :
          /\ NavigationEvent(h, event, status_, next)
          /\ IF h = gate THEN Follow(event, record, status, queue, next)
             ELSE UNCHANGED <<record, status, queue, mission, alive>>
    BY <1>2 DEF NavigationAnswered, GoalAccepted, GoalRejected, GoalSucceeded,
                GoalFailed, CancelConfirmed, CancelFailed, NavigationEvents, GoalStatuses
  <2>2. h = gate BY <2>1 DEF NavigationEvent, coreVars
  <2> QED BY <1>1, <2>1, <2>2, AppliedEnd DEF NavigationEvent
<1>3. ASSUME NEW e \in Executions, LeaseAnswered(e) PROVE EndedAsDecided
  <2>1. PICK next \in NextMission, event \in LeaseEvents, status_ \in LeaseStatuses :
          /\ LeaseEvent(e, event, status_, next)
          /\ IF e = active THEN Follow(event, record, status, queue, next)
             ELSE UNCHANGED <<record, status, queue, mission, alive>>
    BY <1>3 DEF LeaseAnswered, LeaseAcquired, LeaseAcquireFailed, LeaseReleased,
                LeaseReleaseFailed, LeaseEvents, LeaseStatuses
  <2>2. e = active BY <2>1 DEF LeaseEvent, coreVars
  <2> QED BY <1>1, <2>1, <2>2, AppliedEnd DEF LeaseEvent
<1>4. CASE TargetAppears
  <2>1. active' = active BY <1>4 DEF TargetAppears, TargetResolved
  <2>2. ~Ends(Transition(ctx, "GOAL_PREPARED")) BY PreparingEndsNothing
  <2>3. mission' = mission BY <1>4, <2>2 DEF TargetAppears, Follow, Ends
  <2> QED BY <2>1, <2>3
<1>5. CASE TargetTimesOut
  BY <1>1, <1>5, AppliedEnd DEF TargetTimesOut, TargetWaitExpires
<1>6. CASE ResetFails
  BY <1>6 DEF ResetFails, vars, coreVars
<1>7. CASE ResetSucceeds
  <2>1. ~Ends(Transition(ctx, "RESET_ESTOP_ALLOWED"))
    BY DEF Transition, ResetEstopAllowed, Accept, Reject, Ends
  <2>2. active' = active
    BY <1>7, <2>1 DEF ResetSucceeds, ResetSucceeded, Apply, Ends, vars, coreVars
  <2>3. mission' = mission BY <1>7 DEF ResetSucceeds
  <2> QED BY <2>2, <2>3
<1>8. CASE OrphanedGoalEnds
  BY <1>8 DEF OrphanedGoalEnds, OrphanEnds, coreVars, storeVars
<1>9. CASE \E c \in Commands : Expire(c)
  BY <1>9 DEF Expire, vars, coreVars
<1> QED BY <1>2, <1>3, <1>4, <1>5, <1>6, <1>7, <1>8, <1>9, ControlEnd DEF CoreNext

-----------------------------------------------------------------------------
(***************************************************************************)
(* How the emergency latch is left.                                        *)
(***************************************************************************)

\* Only a mission's activation makes an event other than a reset leave it.
LEMMA AppliedLatch ==
  ASSUME CoreIInv, IntentFits(ctx), ctx.manager_mode = "EMERGENCY_LATCHED",
         NEW event, event # "RESET_ESTOP_ALLOWED", NEW goals, NEW leases, NEW next,
         Apply(event, goals, leases, next)
  PROVE  ctx'.manager_mode = "EMERGENCY_LATCHED" \/ started' # started
<1>1. ctx \in Contexts /\ ContextFits(ctx) /\ started \in Nat
  BY DEF CoreIInv, IInv, TypeOK, Consistent
<1>2. Transition(ctx, event).next.manager_mode = "EMERGENCY_LATCHED"
  BY <1>1, TransitionDecided DEF Decided
<1> QED BY <1>1, <1>2 DEF Apply, EndThenActivate

LEMMA StepLatch ==
  ASSUME CoreIInv, IntentFits(ctx), CoreNext,
         ctx.manager_mode = "EMERGENCY_LATCHED", ctx'.manager_mode = "NORMAL"
  PROVE  started' # started \/ (safetyLatched' = FALSE /\ \A h \in Handles : ~MayMove(h))
<1>1. /\ ctx \in Contexts /\ ContextFits(ctx) /\ started \in Nat
      /\ ctx' # ctx
  BY DEF CoreIInv, IInv, TypeOK, Consistent
<1>2. ~Transition(ctx, "RESUME_ALLOWED").accepted
  BY DEF Transition, PassesLatch, NavigationEvents, LeaseEvents, Reject
<1>3. ctx.state # "WAITING_TARGET" BY <1>1 DEF ContextFits
<1>4. ASSUME NEW c \in Commands, SubmitCommand(c) PROVE started' # started
  <2>1. CASE SubmitPause(c) \/ SubmitStop(c) \/ SubmitEstop(c)
    BY <2>1, AppliedLatch
       DEF SubmitPause, SubmitStop, SubmitEstop, Pause, Stop, Estop
  <2>2. CASE SubmitResume(c)
    BY <1>2, <2>2 DEF SubmitResume, Resume
  <2>3. CASE MissionStarted(c)
    BY <1>1, <2>3 DEF MissionStarted, Start, EndThenActivate
  <2>4. CASE MissionRejected(c) \/ MissionQueued(c) \/ ResumeRejected(c)
               \/ SubmitReset(c)
    BY <1>1, <2>4
       DEF MissionRejected, MissionQueued, ResumeRejected, SubmitReset, vars, coreVars
  <2> QED BY <1>4, <2>1, <2>2, <2>3, <2>4 DEF SubmitCommand
<1>5. ASSUME NEW h \in Handles, NavigationAnswered(h) PROVE started' # started
  <2>1. PICK next \in NextMission, event \in NavigationEvents, status_ \in GoalStatuses :
          NavigationEvent(h, event, status_, next)
    BY <1>5 DEF NavigationAnswered, GoalAccepted, GoalRejected, GoalSucceeded,
                GoalFailed, CancelConfirmed, CancelFailed, NavigationEvents, GoalStatuses
  <2> QED BY <1>1, <2>1, AppliedLatch DEF NavigationEvent, coreVars, NavigationEvents
<1>6. ASSUME NEW e \in Executions, LeaseAnswered(e) PROVE started' # started
  <2>1. PICK next \in NextMission, event \in LeaseEvents, status_ \in LeaseStatuses :
          LeaseEvent(e, event, status_, next)
    BY <1>6 DEF LeaseAnswered, LeaseAcquired, LeaseAcquireFailed, LeaseReleased,
                LeaseReleaseFailed, LeaseEvents, LeaseStatuses
  <2> QED BY <1>1, <2>1, AppliedLatch DEF LeaseEvent, coreVars, LeaseEvents
<1>7. CASE TargetAppears \/ TargetTimesOut
  BY <1>3, <1>7 DEF TargetAppears, TargetResolved, TargetTimesOut, TargetWaitExpires
<1>8. CASE ResetSucceeds
  <2>1. ResetSucceeded /\ safetyLatched' = FALSE
    BY <1>1, <1>8 DEF ResetSucceeds, vars, coreVars
  <2>2. ctx.state = "IDLE"
    <3>1. Transition(ctx, "RESET_ESTOP_ALLOWED") = ResetEstopAllowed(ctx)
      BY DEF Transition
    <3>2. ctx.state # "IDLE" => ResetEstopAllowed(ctx) = Reject(ctx)
      BY DEF ResetEstopAllowed
    <3>3. Reject(ctx).next = ctx /\ Reject(ctx).effects = {} BY DEF Reject
    <3> QED BY <1>1, <2>1, <3>1, <3>2, <3>3 DEF ResetSucceeded, Apply
  <2>3. QuietAtRest
    BY AtRestFacts DEF CoreIInv, QuietAtRest, AtRest, MayMove
  <2> QED BY <2>1, <2>2, <2>3 DEF QuietAtRest
<1>9. CASE ResetFails \/ OrphanedGoalEnds \/ \E c \in Commands : Expire(c)
  BY <1>1, <1>9 DEF ResetFails, OrphanedGoalEnds, OrphanEnds, Expire, vars, coreVars
<1> QED BY <1>4, <1>5, <1>6, <1>7, <1>8, <1>9 DEF CoreNext

-----------------------------------------------------------------------------

\* The core keeps what an execution is canceled for, as the life cycle does.
LEMMA CoreIntent == CoreSpec => []IntentFits(ctx)
<1>1. CoreSpec => Spec
  BY CoreImplementsLifecycle DEF ImplementsLifecycle
<1> QED BY <1>1, IntentIsKept, PTL

\* STOP and ESTOP decide what the execution is published as, whatever is
\* confirmed, fails or is asked for in between.
THEOREM StopDecides == CoreSpec => StopDecidesOutcome
<1>1. ASSUME CoreIInv, IntentFits(ctx), CoreNext, active # 0, active' # active
      PROVE  /\ ctx.cancel_intent = "STOP"
                  => status'[mission] \in {"CANCELED", "EMERGENCY_STOPPED"}
             /\ ctx.cancel_intent = "ESTOP"
                  => status'[mission] = "EMERGENCY_STOPPED"
  <2>1. ctx \in Contexts /\ ContextFits(ctx)
    BY <1>1 DEF CoreIInv, IInv, TypeOK, Consistent
  <2>2. PICK event : LET d == Transition(ctx, event)
                     IN Ends(d) /\ status'[mission] = FinalState(d.effects)
    BY <1>1, StepEnds DEF EndedAsDecided
  <2> DEFINE effects == Transition(ctx, event).effects
  <2>3. EndFits(ctx, effects) BY <1>1, <2>1, TransitionDecided
  <2>4. effects \cap TerminalEffects # {} /\ status'[mission] = FinalState(effects)
    BY <2>2 DEF Ends
  <2> HIDE DEF effects
  <2> QED BY <2>3, <2>4 DEF EndFits, FinalState, TerminalEffects
<1>2. CoreIInv /\ IntentFits(ctx) /\ [CoreNext]_coreAllVars =>
        [active # 0 /\ active' # active
           => /\ ctx.cancel_intent = "STOP"
                   => status'[mission] \in {"CANCELED", "EMERGENCY_STOPPED"}
              /\ ctx.cancel_intent = "ESTOP"
                   => status'[mission] = "EMERGENCY_STOPPED"]_coreAllVars
  BY <1>1
<1> QED BY <1>2, CoreInvariant, CoreIntent, PTL DEF CoreSpec, StopDecidesOutcome

\* A success is only published for a goal that was finished under a lease, which
\* has been returned.
THEOREM SuccessIsReal == CoreSpec => SuccessIsEarned
<1>1. ASSUME CoreIInv, IntentFits(ctx), CoreNext, NEW c \in Commands, c = mission,
             status[c] # "SUCCEEDED", status'[c] = "SUCCEEDED"
      PROVE  /\ goal[<<active, generation>>] = "over"
             /\ lease[active] = "returning" /\ lease'[active] = "none"
  <2>1. /\ ctx \in Contexts /\ ContextFits(ctx) /\ c # NoCommand /\ active # 0
    BY <1>1, CommandsAssumption DEF CoreIInv, IInv, TypeOK, Consistent, MissionFits
  <2>2. CoreIInv' BY <1>1, NextGood DEF GoodStep
  <2>3. mission' # mission
    <3> SUFFICES ASSUME mission' = mission PROVE FALSE OBVIOUS
    <3>1. status'[c] = ExternalState(ctx'.state)
      BY <1>1, <2>1, <2>2 DEF CoreIInv, MissionFits
    <3>2. ctx'.state \in States BY <2>2 DEF CoreIInv, IInv, TypeOK, Contexts
    <3> QED BY <1>1, <3>1, <3>2 DEF ExternalState, States, MovingStates
  <2>4. PICK event : LET d == Transition(ctx, event)
                     IN Ends(d) /\ status'[mission] = FinalState(d.effects)
    BY <1>1, <2>1, <2>3, StepEnds DEF EndedAsDecided
  <2>5. active' # active BY <1>1, <2>1, <2>3, StepEnds DEF EndedAsDecided
  <2> DEFINE effects == Transition(ctx, event).effects
  <2>6. EndFits(ctx, effects) BY <1>1, <2>1, TransitionDecided
  <2>7. FinalState(effects) = "SUCCEEDED" BY <1>1, <2>4
  <2> HIDE DEF effects
  <2>8. ctx.state = "FINALIZING" BY <2>6, <2>7 DEF EndFits, FinalState
  <2>9. /\ Consistent(ctx, GateGoal, gate \in cancelAsked, ActiveLease)
        /\ gate \in {NoHandle, <<active, generation>>}
    BY <1>1 DEF CoreIInv, IInv, Ownership
  <2>10. goal[<<active, generation>>] = "over"
    BY <2>8, <2>9 DEF Consistent, GoalFits, GateGoal
  <2>11. lease[active] = "returning"
    <3>1. ctx.cleanup = [NavigationSubmitted EXCEPT !.lease_was_active = TRUE,
                                                    !.lease_release_required = TRUE]
      BY <2>8, <2>9 DEF Consistent, ContextFits
    <3>2. /\ ctx.cleanup.lease_release_required
          /\ ~ctx.cleanup.lease_release_confirmed /\ ~ctx.cleanup.cleanup_failed
      BY <3>1 DEF NavigationSubmitted, NoCleanup
    <3> QED BY <2>1, <2>9, <3>2 DEF Consistent, LeaseFits, ActiveLease
  <2>12. active \in Executions
    BY <1>1, <2>1, BoundsAssumption DEF CoreIInv, IInv, TypeOK, Executions
  <2>13. lease'[active] = "none"
    BY <2>2, <2>5, <2>12 DEF CoreIInv, IInv, Ownership, OnlyActiveOwnsLease
  <2> QED BY <2>10, <2>11, <2>13
<1>2. CoreIInv /\ IntentFits(ctx) /\ [CoreNext]_coreAllVars =>
        [\A c \in Commands :
           c = mission /\ status[c] # "SUCCEEDED" /\ status'[c] = "SUCCEEDED"
             => /\ goal[<<active, generation>>] = "over"
                /\ lease[active] = "returning" /\ lease'[active] = "none"]_coreAllVars
  BY <1>1
<1> QED BY <1>2, CoreInvariant, CoreIntent, PTL DEF CoreSpec, SuccessIsEarned

\* A mission that STOP or ESTOP ends at once neither succeeds nor fails.
LEMMA ClearingCancels ==
  ASSUME ctx \in Contexts, NEW event \in Clearing, Ends(Transition(ctx, event))
  PROVE  FinalState(Transition(ctx, event).effects) \in {"CANCELED", "EMERGENCY_STOPPED"}
<1>1. CASE event = "STOP_REQUESTED"
  <2>1. Transition(ctx, event) \in {StopRequested(ctx), Reject(ctx)}
    BY <1>1 DEF Transition
  <2> QED BY <2>1
      DEF StopRequested, EndExecution, StartCanceling, EffectIf, Accept, Reject, Ends,
          FinalState, TerminalEffects
<1>2. CASE event = "ESTOP_REQUESTED"
  <2>1. Transition(ctx, event) \in {EstopRequested(ctx), Reject(ctx)}
    BY <1>2 DEF Transition
  <2> QED BY <2>1
      DEF EstopRequested, StartEmergencyCanceling, EffectIf, Accept, Reject, Ends,
          FinalState, TerminalEffects
<1> QED BY <1>1, <1>2 DEF Clearing

\* After a success, and a failure the queue continues after, the mission at its head
\* is activated at once and no other is lost.
THEOREM QueueIsAdvanced == CoreSpec => QueueContinues
<1>1. ASSUME CoreIInv, CoreNext, EndsContinuing, alive'
      PROVE  /\ mission' = IF Waiting \subseteq expired THEN NoCommand ELSE queue[1]
             /\ Waiting \ expired \subseteq Waiting' \cup {mission'}
  <2>1. PICK event, w : LET d == Transition(ctx, event)
                        IN /\ Ends(d) /\ status'[mission] = FinalState(d.effects)
                           /\ Advanced(w) /\ (event \in Clearing \/ w = queue)
    BY <1>1, StepEnds DEF EndsContinuing, EndedAsDecided
  <2>2. w = queue
    BY <1>1, <2>1, ClearingCancels DEF EndsContinuing, CoreIInv, IInv, TypeOK
  <2> DEFINE valid == Kept(queue, expired)
  <2>3. queue \in Seq(Commands) BY <1>1 DEF CoreIInv, Stored
  <2>4. valid \in Seq(Commands) /\ { valid[i] : i \in DOMAIN valid } = Waiting \ expired
    BY <2>3, KeptFacts, KeptIsUnexpired DEF Waiting
  <2>5. /\ queue' = IF valid = <<>> THEN <<>> ELSE Tail(valid)
        /\ valid # <<>> => valid[1] = queue[1]
        /\ mission' = IF valid # <<>> THEN valid[1] ELSE NoCommand
    BY <1>1, <2>1, <2>2 DEF Advanced
  <2> HIDE DEF valid
  <2>6. CASE valid = <<>>
    BY <2>4, <2>5, <2>6
  <2>7. CASE valid # <<>>
    <3>1. /\ 1 \in DOMAIN valid
          /\ \A i \in DOMAIN valid \ {1} : i - 1 \in DOMAIN Tail(valid)
                                          /\ Tail(valid)[i - 1] = valid[i]
      BY <2>4, <2>7
    <3>2. ASSUME NEW c \in Waiting \ expired, c # mission'
          PROVE  c \in Waiting'
      <4>1. PICK i \in DOMAIN valid : valid[i] = c BY <2>4
      <4>2. i # 1 BY <2>5, <2>7, <3>2, <4>1
      <4> QED BY <2>5, <2>7, <3>1, <4>1, <4>2 DEF Waiting
    <3>3. valid[1] \in Waiting \ expired BY <2>4, <3>1
    <3> QED BY <2>5, <2>7, <3>2, <3>3
  <2> QED BY <2>6, <2>7
<1>2. CoreIInv /\ [CoreNext]_coreAllVars =>
        [EndsContinuing /\ alive'
           => /\ mission' = IF Waiting \subseteq expired THEN NoCommand ELSE queue[1]
              /\ Waiting \ expired \subseteq Waiting' \cup {mission'}]_coreAllVars
  BY <1>1
<1> QED BY <1>2, CoreInvariant, PTL DEF CoreSpec, QueueContinues

\* The latch outlives every cancellation: it is left by a reset that Safety has
\* granted with the robot at rest, or by a mission's activation.
THEOREM LatchIsKept == CoreSpec => LatchSurvivesCleanup
<1>1. CoreIInv /\ IntentFits(ctx) /\ [CoreNext]_coreAllVars =>
        [ctx.manager_mode = "EMERGENCY_LATCHED" /\ ctx'.manager_mode = "NORMAL"
           => \/ started' # started
              \/ /\ safetyLatched' = FALSE
                 /\ \A h \in Handles : ~MayMove(h)]_coreAllVars
  BY StepLatch
<1> QED BY <1>1, CoreInvariant, CoreIntent, PTL DEF CoreSpec, LatchSurvivesCleanup
=============================================================================
