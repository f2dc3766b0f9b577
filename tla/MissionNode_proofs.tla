------------------------- MODULE MissionNode_proofs -------------------------
(***************************************************************************)
(* The node implements the core: publishing statuses and answering retries *)
(* never changes what the core does, so what is proved of the core and of  *)
(* the execution life cycle holds of the running node.                     *)
(***************************************************************************)
EXTENDS MissionNode, MissionCore_proofs, FiniteSetTheorems

\* A callback of the node is one handler of the core, or leaves the core alone.
LEMMA CallbackIsHandler ==
  ASSUME NodeNext
  PROVE  [CoreNext]_coreAllVars
<1>1. ASSUME NEW c \in Commands, ReceiveNew(c) PROVE CoreNext
  BY <1>1 DEF ReceiveNew, CoreNext
<1>2. ASSUME NEW c \in Commands, ReceiveAgain(c) \/ ReceiveTooLate(c)
      PROVE  UNCHANGED coreAllVars
  BY <1>2 DEF ReceiveAgain, ReceiveTooLate
<1>3. ASSUME NEW h \in Handles, NavigationCallback(h) PROVE CoreNext
  BY <1>3 DEF NavigationCallback, CoreNext
<1>4. ASSUME NEW e \in Executions, LeaseCallback(e) PROVE CoreNext
  BY <1>4 DEF LeaseCallback, CoreNext
<1>5. CASE ResetCallback \/ TargetCallback \/ Unnoticed
  BY <1>5 DEF ResetCallback, TargetCallback, Unnoticed, CoreNext
<1>6. CASE BridgeRefresh
  BY <1>6 DEF BridgeRefresh
<1> QED BY <1>1, <1>2, <1>3, <1>4, <1>5, <1>6 DEF NodeNext

\* The node implements MissionCore, whatever is repeated, late or published.
THEOREM NodeImplementsCore == NodeSpec => CoreSpec
<1>1. NodeInit => CoreInit BY DEF NodeInit
<1>2. [NodeNext]_nodeVars => [CoreNext]_coreAllVars
  BY CallbackIsHandler DEF nodeVars
<1> QED BY <1>1, <1>2, PTL DEF NodeSpec, CoreSpec

\* A retry of a command never executes anything: the robot is only ever driven
\* by the one goal the core owns, nothing is left behind by an execution, and none waits
\* for an answer that nobody owes.
THEOREM NodeIsSafe ==
  NodeSpec => [](QuietAtRest /\ OnlyOwnedGoalMoves /\ AnswerIsOwed)
  BY NodeImplementsCore, CoreIsSafe, PTL

-----------------------------------------------------------------------------
(***************************************************************************)
(* What a step does to the execution and to the stores.                    *)
(***************************************************************************)

\* A step ends the execution, starts the next one, or leaves it active.
ActiveMoves ==
  \/ started' = started /\ active' \in {active, 0}
  \/ started' = started + 1 /\ active' = started + 1

LEMMA AppliedMoves ==
  ASSUME NEW event, NEW goals, NEW leases, NEW next, Apply(event, goals, leases, next)
  PROVE  ActiveMoves
BY DEF Apply, EndThenActivate, ActiveMoves

LEMMA StepMoves ==
  ASSUME IInv, [Next]_vars
  PROVE  ActiveMoves
<1>1. CASE Call
  <2>1. ASSUME NEW next, Start(next) PROVE ActiveMoves
    BY <2>1 DEF Start, EndThenActivate, ActiveMoves
  <2>2. CASE TargetResolved BY <2>2 DEF TargetResolved, ActiveMoves
  <2>3. ASSUME NEW resolved, Resume(resolved) PROVE ActiveMoves
    BY <2>3 DEF Resume, ActiveMoves
  <2> QED BY <1>1, <2>1, <2>2, <2>3, AppliedMoves
      DEF Call, Pause, Stop, Estop, ResetSucceeded, TargetWaitExpires
<1>2. CASE UNCHANGED coreVars BY <1>2 DEF coreVars, ActiveMoves
<1>3. CASE NavigationAnswer
  BY <1>2, <1>3, AppliedMoves
     DEF NavigationAnswer, GoalAccepted, GoalRejected, GoalSucceeded, GoalFailed,
         CancelConfirmed, CancelFailed, NavigationEvent
<1>4. CASE LeaseAnswer
  BY <1>2, <1>4, AppliedMoves
     DEF LeaseAnswer, LeaseAcquired, LeaseAcquireFailed, LeaseReleased,
         LeaseReleaseFailed, LeaseEvent
<1>5. CASE (\E h \in Handles : OrphanEnds(h)) \/ UNCHANGED vars
  BY <1>2, <1>5 DEF OrphanEnds, vars
<1> QED BY <1>1, <1>3, <1>4, <1>5 DEF Next

\* What every callback keeps of the core's invariant.
LEMMA CoreStep ==
  ASSUME NodeIInv, NodeNext \/ UNCHANGED coreAllVars
  PROVE  /\ CoreIInv' /\ IntentFits(ctx)' /\ FinalKept /\ ActiveMoves
         /\ active # 0 /\ mission' # mission => EndedAsDecided
<1>1. CoreIInv /\ IInv /\ IntentFits(ctx) BY DEF NodeIInv, CoreIInv
<1>2. CASE UNCHANGED coreAllVars
  <2>1. IInv' BY <1>1, <1>2, NextIInv DEF coreAllVars
  <2>2. GoodStep
    BY <1>1, <1>2, <2>1, DroppedGood DEF coreAllVars, vars, storeVars
  <2>3. IntentFits(ctx)'
    BY <1>1, <1>2 DEF coreAllVars, vars, coreVars, IntentFits
  <2>4. ActiveMoves BY <1>2 DEF coreAllVars, vars, coreVars, ActiveMoves
  <2>5. mission' = mission BY <1>2 DEF coreAllVars, storeVars
  <2> QED BY <2>2, <2>3, <2>4, <2>5 DEF GoodStep
<1>3. CASE CoreNext
  <2>1. GoodStep BY <1>1, <1>3, NextGood
  <2>2. [Next]_vars BY <1>3, HandlerIsLifecycleStep
  <2>3. IntentFits(ctx)'
    <3>1. ASSUME UNCHANGED vars PROVE IntentFits(ctx)'
      BY <1>1, <3>1 DEF vars, coreVars, IntentFits
    <3> QED BY <1>1, <2>2, <3>1, NextIntent
  <2>4. ActiveMoves BY <1>1, <2>2, StepMoves
  <2>5. active # 0 /\ mission' # mission => EndedAsDecided
    BY <1>1, <1>3, StepEnds
  <2> QED BY <2>1, <2>3, <2>4, <2>5 DEF GoodStep
<1> QED BY <1>2, <1>3, CallbackIsHandler

\* The execution store knows the mission of the active execution, and of the one
\* that was active before.
LEMMA Recorded ==
  ASSUME NodeIInv, CoreIInv', ActiveMoves, RecordExecution,
         active # 0 /\ mission' # mission => EndedAsDecided
  PROVE  /\ commandOf' \in [Executions -> Commands \cup {NoCommand}]
         /\ active' # 0 => active' \in Executions /\ commandOf'[active'] = mission'
         /\ active # 0 => active \in Executions /\ commandOf'[active] = mission
<1>1. /\ active \in 0..MaxExecutions /\ started \in 0..MaxExecutions
      /\ active \in {0, started} /\ MaxExecutions \in Nat
      /\ (active = 0) <=> (mission = NoCommand)
    BY BoundsAssumption
       DEF NodeIInv, CoreIInv, IInv, TypeOK, FreshHandles, MissionFits
<1>2. /\ active' \in 0..MaxExecutions /\ started' \in 0..MaxExecutions
      /\ active' \in {0, started'}
      /\ mission' \in Commands \cup {NoCommand}
      /\ (active' = 0) <=> (mission' = NoCommand)
  BY DEF CoreIInv, IInv, TypeOK, FreshHandles, MissionFits
<1>3. commandOf \in [Executions -> Commands \cup {NoCommand}]
  BY DEF NodeIInv, NodeTypeOK
<1>4. active # 0 => commandOf[active] = mission BY DEF NodeIInv
<1>5. active # 0 /\ active' = active => mission' = mission BY DEF EndedAsDecided
<1>6. CASE started' = started /\ active' \in {active, 0}
  BY <1>1, <1>2, <1>3, <1>4, <1>5, <1>6 DEF RecordExecution, Executions
<1>7. CASE started' = started + 1 /\ active' = started + 1
  <2>1. started' # started /\ started' \in Executions /\ active' = started'
    BY <1>1, <1>2, <1>7 DEF Executions
  <2>2. commandOf' = [commandOf EXCEPT ![started'] = mission']
    BY <2>1 DEF RecordExecution
  <2>3. active # 0 => active \in Executions /\ active # started'
    BY <1>1, <1>7 DEF Executions
  <2> QED BY <1>2, <1>3, <1>4, <2>1, <2>2, <2>3
<1> QED BY <1>6, <1>7 DEF ActiveMoves

-----------------------------------------------------------------------------
(***************************************************************************)
(* What is shown after a callback.                                         *)
(***************************************************************************)

\* Publishing the status of the commands in P is enough: no other command starts
\* to wait, has its status changed as the active mission, or ends while running.
Publishes(P) ==
  \A d \in Commands \ P :
    /\ record'[d] = "QUEUED" => record[d] = "QUEUED"
    /\ d = mission' => \/ d = mission /\ status'[d] = status[d]
                       \/ record[d] = "QUEUED"
    /\ d = mission /\ status[d] \in RunningStatuses => mission' = d

LEMMA RunningIsActive ==
  ASSUME CoreIInv, NEW c \in Commands, status[c] \in RunningStatuses
  PROVE  c = mission
<1>1. record[c] \in RecordStates BY DEF CoreIInv, Stored
<1> QED BY <1>1 DEF CoreIInv, Stored, RecordStates, RunningStatuses, FinalStatuses

LEMMA PublishedShown ==
  ASSUME NodeIInv, CoreIInv', FinalKept, alive, refused' = refused, NEW P,
         seen' = [d \in Commands |->
                    IF alive' /\ d \in P THEN status'[d] ELSE seen[d]],
         alive' => Publishes(P)
  PROVE  seen' \in [Commands -> StatusStates] /\ AllShown'
<1>1. /\ seen \in [Commands -> StatusStates]
      /\ \A c \in Commands : Shown(c)
      /\ \A c, d \in Commands :
           seen[c] \in RunningStatuses /\ seen[d] \in RunningStatuses => c = d
  BY DEF NodeIInv, NodeTypeOK, AllShown
<1>2. status' \in [Commands -> StatusStates] BY DEF CoreIInv, Stored
<1>3. seen' \in [Commands -> StatusStates] BY <1>1, <1>2
<1>4. \A c \in Commands :
        status'[c] \in RunningStatuses => c = mission'
  <2> SUFFICES ASSUME NEW c \in Commands, status'[c] \in RunningStatuses
               PROVE  c = mission'
    OBVIOUS
  <2>1. record'[c] \in RecordStates BY DEF CoreIInv, Stored
  <2> QED BY <2>1 DEF CoreIInv, Stored, RecordStates, RunningStatuses, FinalStatuses
<1>5. ASSUME NEW c \in Commands PROVE Shown(c)'
  <2>1. CASE alive' /\ c \in P
    <3>1. seen'[c] = status'[c] BY <2>1
    <3>2. record'[c] = "QUEUED" => status'[c] = "QUEUED"
      BY DEF CoreIInv, Stored
    <3> QED BY <1>4, <3>1, <3>2 DEF Shown
  <2>2. CASE ~(alive' /\ c \in P)
    <3>1. seen'[c] = seen[c] BY <2>2
    <3>2. Shown(c) BY <1>1
    <3>3. seen[c] \in FinalStatuses /\ c \notin refused => status'[c] = seen[c]
      BY <3>2 DEF Shown, FinalKept
    <3>4. ASSUME alive'
          PROVE  /\ record'[c] = "QUEUED" => record[c] = "QUEUED"
                 /\ c = mission' => \/ c = mission /\ status'[c] = status[c]
                                    \/ record[c] = "QUEUED"
                 /\ c = mission /\ status[c] \in RunningStatuses => mission' = c
      BY <2>2, <3>4 DEF Publishes
    <3>5. ASSUME alive', seen[c] \in RunningStatuses PROVE c = mission'
      <4>1. c = mission /\ seen[c] \in {status[c], "QUEUED", "REJECTED"}
        BY <3>2, <3>5 DEF Shown
      <4>2. status[c] \in RunningStatuses BY <3>5, <4>1 DEF RunningStatuses
      <4> QED BY <3>4, <3>5, <4>1, <4>2
    <3>6. ASSUME alive', c = mission'
          PROVE  seen[c] \in {status'[c], "QUEUED", "REJECTED"}
      BY <3>2, <3>4, <3>6 DEF Shown
    <3>7. ASSUME alive', record'[c] = "QUEUED"
          PROVE  seen[c] \in {"QUEUED", "REJECTED"}
      BY <3>2, <3>4, <3>7 DEF Shown
    <3> QED BY <3>1, <3>3, <3>5, <3>6, <3>7 DEF Shown
  <2> QED BY <2>1, <2>2
<1>6. ASSUME NEW c \in Commands, NEW d \in Commands,
             seen'[c] \in RunningStatuses, seen'[d] \in RunningStatuses
      PROVE  c = d
  <2>1. CASE alive' BY <1>5, <1>6, <2>1 DEF Shown
  <2>2. CASE ~alive' BY <1>1, <1>6, <2>2
  <2> QED BY <2>1, <2>2
<1>7. AllShown' BY <1>5, <1>6 DEF AllShown
<1> QED BY <1>3, <1>7

-----------------------------------------------------------------------------
(***************************************************************************)
(* The callbacks.                                                          *)
(***************************************************************************)

\* An event applied to the active execution, whose status is published.
LEMMA KeptPublishes ==
  ASSUME CoreIInv, CoreIInv', Keeps(record, status, queue), NEW P,
         mission \in Commands => mission \in P
  PROVE  /\ Publishes(P)
         /\ \A d \in Commands : record[d] # "absent" => record'[d] # "absent"
<1>1. /\ mission \in Commands \cup {NoCommand}
      /\ \A i \in DOMAIN queue : record[queue[i]] = "QUEUED"
      /\ queue \in Seq(Commands)
  BY DEF CoreIInv, MissionFits, Stored
<1>2. mission' # NoCommand => record'[mission'] = "APPLIED"
  BY DEF CoreIInv, Stored
<1>3. /\ \A c \in Commands \ {mission} :
           /\ record[c] # "QUEUED" => record'[c] = record[c]
           /\ record[c] = "QUEUED" => record'[c] # "absent"
      /\ \A c \in Commands \ {mission, mission'} : record'[c] = record[c]
      /\ mission # NoCommand => record'[mission] # "absent"
      /\ mission' \in {mission, NoCommand} \/ (queue # <<>> /\ mission' = queue[1])
  BY DEF Keeps
<1>4. ASSUME NEW d \in Commands \ P
      PROVE  /\ record'[d] = "QUEUED" => record[d] = "QUEUED"
             /\ d = mission' => record[d] = "QUEUED"
             /\ d # mission
  <2>1. d # mission /\ d # NoCommand BY CommandsAssumption
  <2>2. record'[d] = "QUEUED" => record[d] = "QUEUED"
    BY <1>2, <1>3, <2>1
  <2>3. ASSUME d = mission' PROVE record[d] = "QUEUED"
    <3>1. queue # <<>> /\ d = queue[1] BY <1>3, <2>1, <2>3
    <3>2. 1 \in DOMAIN queue BY <1>1, <3>1
    <3> QED BY <1>1, <3>1, <3>2
  <2> QED BY <2>1, <2>2, <2>3
<1>5. \A d \in Commands : record[d] # "absent" => record'[d] # "absent"
  BY <1>1, <1>3, CommandsAssumption
<1> QED BY <1>4, <1>5 DEF Publishes

\* A step that leaves records, statuses and the active mission alone.
LEMMA SamePublishes ==
  ASSUME UNCHANGED <<record, status, mission>>, NEW P
  PROVE  /\ Publishes(P)
         /\ \A d \in Commands : record[d] # "absent" => record'[d] # "absent"
BY DEF Publishes

LEMMA EventKeeps ==
  ASSUME CoreIInv, IInv', alive, NEW event, event # "RESUME_ALLOWED",
         NEW goals, NEW leases, NEW next \in NextMission,
         Apply(event, goals, leases, next),
         Follow(event, record, status, queue, next)
  PROVE  Keeps(record, status, queue)
<1>1. Steps(event, next) BY ApplySteps
<1> QED BY <1>1, Now, StepsFollow

LEMMA NavigationPublishes ==
  ASSUME CoreIInv, CoreIInv', NEW h \in Handles, NavigationAnswered(h), NEW P,
         h[1] = active /\ mission \in Commands => mission \in P
  PROVE  /\ Publishes(P) /\ alive
         /\ h[1] = active \/ mission' = mission
         /\ \A d \in Commands : record[d] # "absent" => record'[d] # "absent"
<1>1. PICK next \in NextMission, event \in NavigationEvents, status_ \in GoalStatuses :
        /\ NavigationEvent(h, event, status_, next)
        /\ IF h = gate THEN Follow(event, record, status, queue, next)
           ELSE UNCHANGED <<record, status, queue, mission, alive>>
  BY DEF NavigationAnswered, GoalAccepted, GoalRejected, GoalSucceeded, GoalFailed,
         CancelConfirmed, CancelFailed, NavigationEvents, GoalStatuses
<1>2. alive /\ IInv' BY DEF NavigationAnswered, CoreIInv
<1>3. CASE h = gate
  <2>1. Keeps(record, status, queue)
    BY <1>1, <1>2, <1>3, EventKeeps DEF NavigationEvent, NavigationEvents
  <2>2. h[1] = active
    BY <1>3, HandleFacts DEF CoreIInv, IInv, Ownership
  <2> QED BY <1>2, <2>1, <2>2, KeptPublishes
<1>4. CASE h # gate
  BY <1>1, <1>2, <1>4, SamePublishes
<1> QED BY <1>3, <1>4

LEMMA LeasePublishes ==
  ASSUME CoreIInv, CoreIInv', NEW e \in Executions, LeaseAnswered(e), NEW P,
         e = active /\ mission \in Commands => mission \in P
  PROVE  /\ Publishes(P) /\ alive
         /\ e = active \/ mission' = mission
         /\ \A d \in Commands : record[d] # "absent" => record'[d] # "absent"
<1>1. PICK next \in NextMission, event \in LeaseEvents, status_ \in LeaseStatuses :
        /\ LeaseEvent(e, event, status_, next)
        /\ IF e = active THEN Follow(event, record, status, queue, next)
           ELSE UNCHANGED <<record, status, queue, mission, alive>>
  BY DEF LeaseAnswered, LeaseAcquired, LeaseAcquireFailed, LeaseReleased,
         LeaseReleaseFailed, LeaseEvents, LeaseStatuses
<1>2. alive /\ IInv' BY DEF LeaseAnswered, CoreIInv
<1>3. CASE e = active
  <2>1. Keeps(record, status, queue)
    BY <1>1, <1>2, <1>3, EventKeeps DEF LeaseEvent, LeaseEvents
  <2> QED BY <1>2, <1>3, <2>1, KeptPublishes
<1>4. CASE e # active
  BY <1>1, <1>2, <1>4, SamePublishes
<1> QED BY <1>3, <1>4

LEMMA TargetPublishes ==
  ASSUME CoreIInv, CoreIInv', TargetAppears \/ TargetTimesOut, NEW P,
         mission \in Commands => mission \in P
  PROVE  /\ Publishes(P) /\ alive
         /\ \A d \in Commands : record[d] # "absent" => record'[d] # "absent"
<1>1. alive /\ IInv' BY DEF TargetAppears, TargetTimesOut, CoreIInv
<1>2. CASE TargetAppears
  <2>1. Steps("GOAL_PREPARED", "none")
    BY <1>1, <1>2, SubmitSteps DEF TargetAppears
  <2>2. Keeps(record, status, queue)
    BY <1>1, <1>2, <2>1, Now, StepsFollow DEF TargetAppears
  <2> QED BY <1>1, <2>2, KeptPublishes
<1>3. CASE TargetTimesOut
  <2>1. PICK next \in NextMission :
          /\ TargetWaitExpires(next)
          /\ Follow("TARGET_WAIT_TIMEOUT", record, status, queue, next)
    BY <1>3 DEF TargetTimesOut
  <2>2. Keeps(record, status, queue)
    BY <1>1, <2>1, EventKeeps DEF TargetWaitExpires
  <2> QED BY <1>1, <2>2, KeptPublishes
<1> QED BY <1>2, <1>3

\* A reset's answer concerns the pending command, which is never the mission.
LEMMA ResetPublishes ==
  ASSUME CoreIInv, ResetFails \/ ResetSucceeds, NEW P
  PROVE  /\ Publishes(P) /\ alive /\ mission' = mission
         /\ \A d \in Commands : record[d] # "absent" => record'[d] # "absent"
<1>1. alive /\ mission' = mission BY DEF ResetFails, ResetSucceeds
<1>2. /\ record \in [Commands -> RecordStates]
      /\ status \in [Commands -> StatusStates]
      /\ pendingReset \in Commands \cup {NoCommand}
      /\ pendingReset # NoCommand => pendingReset # mission
  BY DEF CoreIInv, Stored, ResetFits
<1>3. \/ UNCHANGED <<record, status>>
      \/ \E final : /\ pendingReset # NoCommand
                    /\ record' = [record EXCEPT ![pendingReset] = "TERMINAL"]
                    /\ status' = [status EXCEPT ![pendingReset] = final]
  BY DEF ResetFails, ResetSucceeds, FinishReset
<1>4. CASE UNCHANGED <<record, status>> BY <1>1, <1>4, SamePublishes
<1>5. ASSUME NEW final, pendingReset # NoCommand,
             record' = [record EXCEPT ![pendingReset] = "TERMINAL"],
             status' = [status EXCEPT ![pendingReset] = final]
      PROVE  /\ Publishes(P)
             /\ \A d \in Commands : record[d] # "absent" => record'[d] # "absent"
  BY <1>1, <1>2, <1>5 DEF Publishes
<1> QED BY <1>1, <1>3, <1>4, <1>5

\* STOP, ESTOP and PAUSE: a control that was applied to an execution that goes on
\* publishes the mission's status too, and what it ends at once was not running.
LEMMA ControlPublishes ==
  ASSUME NodeIInv, CoreIInv', alive, NEW c \in Commands, record[c] = "absent",
         active # 0 /\ mission' # mission => EndedAsDecided,
         NEW event \in {"PAUSE_REQUESTED", "STOP_REQUESTED", "ESTOP_REQUESTED"},
         NEW r, NEW s, NEW w, Prepared(r, s, w), active = 0 => w = <<>>,
         \A d \in Commands :
           /\ record[d] = "QUEUED" => r[d] \in {"QUEUED", "TERMINAL"}
           /\ record[d] # "QUEUED" => r[d] = record[d] /\ s[d] = status[d],
         Apply(event, goal, lease, "none"),
         Follow(event,
                ControlRecords(c, Transition(ctx, event).accepted, r),
                ControlStatuses(c, Transition(ctx, event).accepted, s), w, "none"),
         NEW P, c \in P, record'[c] = "APPLIED" /\ active' # 0 => mission' \in P
  PROVE  Publishes(P) /\ record'[c] # "absent"
<1> DEFINE d0 == Transition(ctx, event)
           accepted == d0.accepted
           r2 == ControlRecords(c, accepted, r)
           s2 == ControlStatuses(c, accepted, s)
<1>1. /\ CoreIInv /\ IInv' /\ IntentFits(ctx) /\ ctx \in Contexts /\ ContextFits(ctx)
      /\ mission \in Commands \cup {NoCommand}
      /\ (mission = NoCommand) <=> (active = 0)
      /\ mission # NoCommand => status[mission] = ExternalState(ctx.state)
      /\ ctx.state # "PREPARING_GOAL"
  BY DEF NodeIInv, CoreIInv, IInv, TypeOK, Consistent, MissionFits
<1>2. event \in Events /\ event # "RESUME_ALLOWED"
  BY DEF Events, RequestEvents
<1>3. accepted \in BOOLEAN BY <1>1, <1>2, TransitionType DEF Decisions
<1>4. Sound(ctx, d0) BY <1>1, <1>2, DecisionIsSound
<1>5. Steps(event, "none") BY <1>1, <1>2, ApplySteps DEF NextMission
<1>6. Follow(event, r2, s2, w, "none") OBVIOUS
<1>7. r[c] = "absent" /\ c # mission /\ c # NoCommand BY <1>1, NewCommand
<1> HIDE DEF accepted
<1>8. /\ Prepared(r2, s2, w)
      /\ r2[c] = IF accepted THEN "APPLIED" ELSE "TERMINAL"
      /\ \A d \in Commands \ {c} : r2[d] = r[d] /\ s2[d] = s[d]
  BY <1>1, <1>3, <1>7, ControlStored
<1> HIDE DEF r2, s2
<1>9. Keeps(r2, s2, w) BY <1>1, <1>5, <1>6, <1>8, StepsFollow
<1>10. /\ mission' \in {mission, NoCommand}
       /\ mission' # mission => Ends(d0)
  BY <1>6 DEF Follow, ActivateNext, Ends
<1>11. \A d \in Commands \ {mission} : record'[d] = r2[d]
  <2>1. \A d \in Commands \ {mission, mission'} : record'[d] = r2[d]
    BY <1>9 DEF Keeps
  <2> QED BY <1>10, <2>1, CommandsAssumption
<1>12. ASSUME ~accepted PROVE mission' = mission
                              /\ (mission # NoCommand => status'[mission] = status[mission])
  <2>1. ~Ends(d0) /\ ~d0.accepted BY <1>4, <1>12 DEF Sound, Ends, accepted
  <2>2. mission' = mission /\ status' = s2
    BY <1>6, <2>1 DEF Follow, Ends
  <2> QED BY <1>8, <2>2 DEF Prepared
<1>13. ASSUME mission' = mission, mission # NoCommand, mission \notin P
       PROVE  status'[mission] = status[mission]
  <2>1. active' # 0 BY <1>13 DEF CoreIInv, MissionFits
  <2>2. record'[c] = r2[c] BY <1>7, <1>11
  <2> QED BY <1>8, <1>12, <1>13, <2>1, <2>2
<1>14. ASSUME mission # NoCommand PROVE record'[mission] # "QUEUED"
  <2>1. CASE mission' = mission
    BY <1>14, <2>1 DEF CoreIInv, Stored
  <2>2. CASE mission' # mission
    <3>1. \A effects : FinalState(effects) \in FinalStatuses
      BY DEF FinalState, FinalStatuses
    <3>2. PICK e : status'[mission] = FinalState(Transition(ctx, e).effects)
      BY <1>1, <1>14, <2>2 DEF EndedAsDecided
    <3>3. status'[mission] \in FinalStatuses BY <3>1, <3>2
    <3>4. \A d \in Commands : record'[d] = "QUEUED" => status'[d] = "QUEUED"
      BY DEF CoreIInv, Stored
    <3> QED BY <1>1, <1>14, <3>3, <3>4 DEF FinalStatuses
  <2> QED BY <2>1, <2>2
<1>15. ASSUME mission # NoCommand, status[mission] \in RunningStatuses
       PROVE  mission' = mission
  <2> SUFFICES ASSUME mission' # mission PROVE FALSE OBVIOUS
  <2>1. ctx.state \in RestingStates \cup {"SAFETY_BLOCKED"}
    BY <1>1, <1>10, RequestEndsAtRest
  <2> QED BY <1>1, <1>15, <2>1
      DEF ExternalState, RestingStates, MovingStates, RunningStatuses
<1>16. ASSUME NEW d \in Commands \ P
       PROVE  /\ record'[d] = "QUEUED" => record[d] = "QUEUED"
              /\ d = mission' => d = mission /\ status'[d] = status[d]
              /\ d = mission /\ status[d] \in RunningStatuses => mission' = d
  <2>1. d # c /\ d # NoCommand BY CommandsAssumption
  <2>2. record'[d] = "QUEUED" => record[d] = "QUEUED"
    BY <1>8, <1>11, <1>14, <2>1
  <2> QED BY <1>10, <1>13, <1>15, <1>16, <2>1, <2>2
<1>17. record'[c] # "absent" BY <1>7, <1>8, <1>11
<1> QED BY <1>16, <1>17 DEF Publishes

LEMMA ResumePublishes ==
  ASSUME NodeIInv, CoreIInv', NEW c \in Commands, SubmitResume(c),
         NEW P, c \in P, record'[c] = "APPLIED" /\ active' # 0 => mission' \in P
  PROVE  Publishes(P) /\ record'[c] # "absent"
<1>1. /\ record[c] = "absent" /\ active' = active
      /\ Follow("RESUME_ALLOWED", ControlRecords(c, TRUE, record),
                ControlStatuses(c, TRUE, status), queue, "none")
  BY DEF SubmitResume, Resume, IsNew
<1>2. /\ record' = ControlRecords(c, TRUE, record) /\ mission' = mission
  BY <1>1, PreparingEndsNothing DEF Follow, Ends
<1>3. record \in [Commands -> RecordStates] /\ (mission = NoCommand <=> active = 0)
  BY DEF NodeIInv, CoreIInv, Stored, MissionFits
<1>4. record'[c] = "APPLIED" /\ \A d \in Commands \ {c} : record'[d] = record[d]
  BY <1>2, <1>3 DEF ControlRecords
<1>5. mission # NoCommand => mission \in P BY <1>1, <1>2, <1>3, <1>4
<1> QED BY <1>2, <1>4, <1>5, CommandsAssumption DEF Publishes

\* A mission that starts at once was not waiting, and nothing was active.
LEMMA StartPublishes ==
  ASSUME NodeIInv, NEW c \in Commands, MissionStarted(c), NEW P, c \in P
  PROVE  Publishes(P) /\ record'[c] # "absent"
<1>1. /\ alive /\ active = 0 /\ mission = NoCommand /\ queue = <<>>
      /\ record \in [Commands -> RecordStates]
  BY DEF MissionStarted, IsNew, Start, NodeIInv, CoreIInv, MissionFits, Stored,
         IdleQueueIsEmpty
<1> DEFINE r == [record EXCEPT ![c] = "QUEUED"]
           s == [status EXCEPT ![c] = "QUEUED"]
           w == Append(queue, c)
<1>2. PICK next \in NextMission : ActivateNext(r, s, w, next)
  BY DEF MissionStarted
<1>3. w[1] = c BY <1>1
<1>4. r \in [Commands -> RecordStates] /\ r[c] = "QUEUED"
      /\ \A d \in Commands \ {c} : r[d] = record[d]
  BY <1>1 DEF RecordStates
<1> HIDE DEF r, s, w
<1>5. \/ mission' = NoCommand /\ record' = r
      \/ mission' = c /\ record' = [r EXCEPT ![c] = "APPLIED"]
  BY <1>2, <1>3 DEF ActivateNext
<1>6. /\ record'[c] # "absent" /\ mission' \in {c, NoCommand}
      /\ \A d \in Commands \ {c} : record'[d] = record[d]
  BY <1>4, <1>5
<1> QED BY <1>1, <1>6, CommandsAssumption DEF Publishes

\* A command that is only noted.
LEMMA NotedPublishes ==
  ASSUME NodeIInv, NEW c \in Commands, NEW P, c \in P,
         \/ MissionRejected(c) \/ MissionQueued(c)
         \/ ResumeRejected(c) \/ SubmitReset(c)
  PROVE  Publishes(P) /\ record'[c] # "absent"
<1>1. /\ record \in [Commands -> RecordStates] /\ status \in [Commands -> StatusStates]
  BY DEF NodeIInv, CoreIInv, Stored
<1>2. mission' = mission
  BY DEF MissionRejected, MissionQueued, ResumeRejected, SubmitReset
<1>3. /\ record'[c] # "absent"
      /\ \A d \in Commands \ {c} : record'[d] = record[d] /\ status'[d] = status[d]
  BY <1>1 DEF MissionRejected, MissionQueued, ResumeRejected, SubmitReset,
              ControlRecords, ControlStatuses
<1> QED BY <1>2, <1>3 DEF Publishes

LEMMA SubmitPublishes ==
  ASSUME NodeIInv, CoreIInv', NEW c \in Commands, SubmitCommand(c),
         active # 0 /\ mission' # mission => EndedAsDecided,
         NEW P, c \in P, record'[c] = "APPLIED" /\ active' # 0 => mission' \in P
  PROVE  Publishes(P) /\ record'[c] # "absent" /\ alive /\ record[c] = "absent"
<1>1. alive /\ record[c] = "absent"
  BY DEF SubmitCommand, MissionRejected, MissionQueued, MissionStarted, SubmitPause,
         SubmitResume, ResumeRejected, SubmitStop, SubmitEstop, SubmitReset, IsNew
<1>2. CoreIInv /\ Prepared(record, status, queue) /\ (active = 0 => queue = <<>>)
  BY <1>1, Now DEF NodeIInv
<1>3. CASE SubmitPause(c)
  <2>1. /\ Apply("PAUSE_REQUESTED", goal, lease, "none")
        /\ Follow("PAUSE_REQUESTED",
                  ControlRecords(c, Transition(ctx, "PAUSE_REQUESTED").accepted, record),
                  ControlStatuses(c, Transition(ctx, "PAUSE_REQUESTED").accepted, status),
                  queue, "none")
    BY <1>3 DEF SubmitPause, Pause
  <2> QED BY <1>1, <1>2, <2>1, ControlPublishes
<1> DEFINE r == Cleared(record, "TERMINAL")
           s == Cleared(status, "CANCELED")
<1>4. /\ Prepared(r, s, <<>>)
      /\ \A d \in Commands :
           /\ record[d] = "QUEUED" => r[d] \in {"QUEUED", "TERMINAL"}
           /\ record[d] # "QUEUED" => r[d] = record[d] /\ s[d] = status[d]
  BY <1>2, ClearedStored
<1>5. CASE SubmitStop(c)
  <2> HIDE DEF r, s
  <2>1. /\ Apply("STOP_REQUESTED", goal, lease, "none")
        /\ Follow("STOP_REQUESTED",
                  ControlRecords(c, Transition(ctx, "STOP_REQUESTED").accepted, r),
                  ControlStatuses(c, Transition(ctx, "STOP_REQUESTED").accepted, s),
                  <<>>, "none")
    BY <1>5 DEF SubmitStop, Stop, r, s
  <2> QED BY <1>1, <1>2, <1>4, <2>1, ControlPublishes
<1>6. CASE SubmitEstop(c)
  <2> HIDE DEF r, s
  <2>1. /\ Apply("ESTOP_REQUESTED", goal, lease, "none")
        /\ Follow("ESTOP_REQUESTED",
                  ControlRecords(c, Transition(ctx, "ESTOP_REQUESTED").accepted, r),
                  ControlStatuses(c, Transition(ctx, "ESTOP_REQUESTED").accepted, s),
                  <<>>, "none")
    BY <1>6 DEF SubmitEstop, Estop, r, s
  <2> QED BY <1>1, <1>2, <1>4, <2>1, ControlPublishes
<1> QED BY <1>1, <1>3, <1>5, <1>6, ResumePublishes, StartPublishes, NotedPublishes
    DEF SubmitCommand

-----------------------------------------------------------------------------
(***************************************************************************)
(* NodeIInv is inductive.                                                  *)
(***************************************************************************)

LEMMA CallbackKeeps ==
  ASSUME NodeIInv, NodeNext, alive, RecordExecution, refused' = refused,
         NEW c \in Commands \cup {NoCommand}, NEW e, PublishLatest(c, e),
         Publishes({c, CommandOf(e)}),
         lastCommand' \in Commands \cup {NoCommand},
         lastCommand' # NoCommand => record'[lastCommand'] # "absent"
  PROVE  NodeIInv'
<1>1. /\ CoreIInv' /\ IntentFits(ctx)' /\ FinalKept /\ ActiveMoves
      /\ active # 0 /\ mission' # mission => EndedAsDecided
  BY CoreStep
<1>2. /\ commandOf' \in [Executions -> Commands \cup {NoCommand}]
      /\ active' # 0 => commandOf'[active'] = mission'
  BY <1>1, Recorded
<1> DEFINE P == {c, CommandOf(e)}
<1>3. Publishes(P)
      /\ seen' = [d \in Commands |->
                    IF alive' /\ d \in P THEN status'[d] ELSE seen[d]]
  BY DEF PublishLatest
<1> HIDE DEF P
<1>4. seen' \in [Commands -> StatusStates] /\ AllShown'
  BY <1>1, <1>3, PublishedShown
<1>5. refused \subseteq Commands BY DEF NodeIInv, NodeTypeOK
<1>6. NodeTypeOK' BY <1>2, <1>4, <1>5 DEF NodeTypeOK
<1> QED BY <1>1, <1>2, <1>4, <1>6 DEF NodeIInv

\* The command published last stays recorded.
LEMMA LastStays ==
  ASSUME NodeIInv, lastCommand' = lastCommand,
         \A d \in Commands : record[d] # "absent" => record'[d] # "absent"
  PROVE  /\ lastCommand' \in Commands \cup {NoCommand}
         /\ lastCommand' # NoCommand => record'[lastCommand'] # "absent"
BY DEF NodeIInv, NodeTypeOK

\* The command of an execution that is or was active, as a callback finds it.
LEMMA ActiveRecorded ==
  ASSUME NodeIInv, NodeNext, RecordExecution
  PROVE  /\ mission \in Commands => active # 0 /\ CommandOf(active) = mission
         /\ mission' \in Commands => active' # 0 /\ CommandOf(active') = mission'
<1>1. /\ CoreIInv' /\ ActiveMoves
      /\ active # 0 /\ mission' # mission => EndedAsDecided
  BY CoreStep
<1>2. /\ active' # 0 => active' \in Executions /\ commandOf'[active'] = mission'
      /\ active # 0 => active \in Executions /\ commandOf'[active] = mission
  BY <1>1, Recorded
<1>3. /\ mission \in Commands => active # 0
      /\ mission' \in Commands => active' # 0
  BY <1>1, CommandsAssumption DEF NodeIInv, CoreIInv, MissionFits
<1> QED BY <1>2, <1>3 DEF CommandOf

LEMMA UnchangedKeeps ==
  ASSUME NodeIInv, UNCHANGED coreAllVars, UNCHANGED commandOf
  PROVE  /\ CoreIInv' /\ IntentFits(ctx)' /\ RecordExecution
         /\ active' # 0 => commandOf'[active'] = mission'
         /\ UNCHANGED <<record, status, mission, alive>>
<1>1. CoreIInv' /\ IntentFits(ctx)' BY CoreStep
<1>2. UNCHANGED <<active, started, record, status, mission, alive>>
  BY DEF coreAllVars, vars, coreVars, storeVars
<1> QED BY <1>1, <1>2 DEF NodeIInv, RecordExecution

LEMMA ReceiveKeeps ==
  ASSUME NodeIInv, NodeNext, NEW c \in Commands, ReceiveNew(c)
  PROVE  NodeIInv'
<1>1. CoreIInv' /\ (active # 0 /\ mission' # mission => EndedAsDecided)
  BY CoreStep
<1>2. /\ SubmitCommand(c) /\ RecordExecution /\ lastCommand' = c
      /\ PublishLatest(c, ResultExecution(c)) /\ refused' = refused
  BY DEF ReceiveNew
<1> DEFINE P == {c, CommandOf(ResultExecution(c))}
<1>3. record'[c] = "APPLIED" /\ active' # 0 => mission' \in P
  <2>1. active' # 0 => mission' \in Commands
    BY <1>1 DEF CoreIInv, MissionFits
  <2> QED BY <1>2, <2>1, ActiveRecorded DEF ResultExecution
<1> HIDE DEF P
<1>4. Publishes(P) /\ record'[c] # "absent" /\ alive
  <2>1. c \in P BY DEF P
  <2> QED BY <1>1, <1>2, <1>3, <2>1, SubmitPublishes
<1> QED BY <1>2, <1>4, CallbackKeeps DEF P

LEMMA RetryKeeps ==
  ASSUME NodeIInv, NodeNext, NEW c \in Commands, ReceiveAgain(c) \/ ReceiveTooLate(c)
  PROVE  NodeIInv'
<1>1. /\ UNCHANGED coreAllVars /\ UNCHANGED commandOf /\ alive
      /\ record[c] # "absent" /\ lastCommand' = c
  BY DEF ReceiveAgain, ReceiveTooLate
<1>2. /\ CoreIInv' /\ IntentFits(ctx)' /\ RecordExecution
      /\ active' # 0 => commandOf'[active'] = mission'
      /\ UNCHANGED <<record, status, mission, alive>>
  BY <1>1, UnchangedKeeps
<1>3. CASE ReceiveAgain(c)
  <2>1. PublishLatest(c, 0) /\ refused' = refused BY <1>3 DEF ReceiveAgain
  <2>2. Publishes({c, CommandOf(0)}) BY <1>2, SamePublishes
  <2> QED BY <1>1, <1>2, <2>1, <2>2, CallbackKeeps
<1>4. CASE ReceiveTooLate(c)
  <2>1. /\ seen' = [seen EXCEPT ![c] = "REJECTED"]
        /\ refused' = refused \cup {c}
    BY <1>4 DEF ReceiveTooLate
  <2>2. /\ seen \in [Commands -> StatusStates] /\ refused \subseteq Commands
        /\ commandOf \in [Executions -> Commands \cup {NoCommand}]
    BY DEF NodeIInv, NodeTypeOK
  <2>3. NodeTypeOK'
    BY <1>1, <2>1, <2>2 DEF NodeTypeOK, StatusStates
  <2>4. /\ \A d \in Commands : Shown(d)
        /\ \A d, f \in Commands :
             seen[d] \in RunningStatuses /\ seen[f] \in RunningStatuses => d = f
    BY DEF NodeIInv, AllShown
  <2>5. seen'[c] = "REJECTED" /\ \A d \in Commands \ {c} : seen'[d] = seen[d]
    BY <2>1, <2>2
  <2>6. "REJECTED" \notin RunningStatuses BY DEF RunningStatuses
  <2>7. ASSUME NEW d \in Commands PROVE Shown(d)'
    BY <1>2, <2>1, <2>4, <2>5, <2>6 DEF Shown
  <2>8. \A d, f \in Commands :
          seen'[d] \in RunningStatuses /\ seen'[f] \in RunningStatuses => d = f
    BY <2>4, <2>5, <2>6
  <2>9. AllShown' BY <2>7, <2>8 DEF AllShown
  <2> QED BY <1>1, <1>2, <2>3, <2>9 DEF NodeIInv
<1> QED BY <1>3, <1>4

LEMMA AnswerKeeps ==
  ASSUME NodeIInv, NodeNext,
         \/ \E h \in Handles : NavigationCallback(h)
         \/ \E e \in Executions : LeaseCallback(e)
  PROVE  NodeIInv'
<1>1. CoreIInv /\ CoreIInv' BY CoreStep DEF NodeIInv
<1>2. ASSUME NEW h \in Handles, NavigationCallback(h) PROVE NodeIInv'
  <2>1. /\ NavigationAnswered(h) /\ RecordExecution /\ lastCommand' = lastCommand
        /\ PublishLatest(NoCommand, h[1]) /\ refused' = refused
    BY <1>2 DEF NavigationCallback
  <2> DEFINE P == {NoCommand, CommandOf(h[1])}
  <2>2. h[1] = active /\ mission \in Commands => mission \in P
    BY <2>1, ActiveRecorded
  <2> HIDE DEF P
  <2>3. /\ Publishes(P) /\ alive
        /\ \A d \in Commands : record[d] # "absent" => record'[d] # "absent"
    BY <1>1, <2>1, <2>2, NavigationPublishes
  <2> QED BY <2>1, <2>3, LastStays, CallbackKeeps DEF P
<1>3. ASSUME NEW e \in Executions, LeaseCallback(e) PROVE NodeIInv'
  <2>1. /\ LeaseAnswered(e) /\ RecordExecution /\ lastCommand' = lastCommand
        /\ PublishLatest(NoCommand, e) /\ refused' = refused
    BY <1>3 DEF LeaseCallback
  <2> DEFINE P == {NoCommand, CommandOf(e)}
  <2>2. e = active /\ mission \in Commands => mission \in P
    BY <2>1, ActiveRecorded
  <2> HIDE DEF P
  <2>3. /\ Publishes(P) /\ alive
        /\ \A d \in Commands : record[d] # "absent" => record'[d] # "absent"
    BY <1>1, <2>1, <2>2, LeasePublishes
  <2> QED BY <2>1, <2>3, LastStays, CallbackKeeps DEF P
<1> QED BY <1>2, <1>3

LEMMA BridgeKeeps ==
  ASSUME NodeIInv, NodeNext, ResetCallback \/ TargetCallback \/ BridgeRefresh
  PROVE  NodeIInv'
<1>1. CoreIInv /\ CoreIInv' BY CoreStep DEF NodeIInv
<1>2. CASE ResetCallback
  <2>1. /\ ResetFails \/ ResetSucceeds
        /\ RecordExecution /\ lastCommand' = lastCommand
        /\ PublishLatest(lastCommand, 0) /\ refused' = refused
    BY <1>2 DEF ResetCallback
  <2>2. lastCommand \in Commands \cup {NoCommand} BY DEF NodeIInv, NodeTypeOK
  <2>3. /\ Publishes({lastCommand, CommandOf(0)}) /\ alive
        /\ \A d \in Commands : record[d] # "absent" => record'[d] # "absent"
    BY <1>1, <2>1, ResetPublishes
  <2> QED BY <2>1, <2>2, <2>3, LastStays, CallbackKeeps
<1>3. CASE TargetCallback
  <2>1. /\ TargetAppears \/ TargetTimesOut
        /\ RecordExecution /\ lastCommand' = lastCommand
        /\ PublishLatest(NoCommand, active) /\ refused' = refused
    BY <1>3 DEF TargetCallback
  <2> DEFINE P == {NoCommand, CommandOf(active)}
  <2>2. mission \in Commands => mission \in P
    BY <2>1, ActiveRecorded
  <2> HIDE DEF P
  <2>3. /\ Publishes(P) /\ alive
        /\ \A d \in Commands : record[d] # "absent" => record'[d] # "absent"
    BY <1>1, <2>1, <2>2, TargetPublishes
  <2> QED BY <2>1, <2>3, LastStays, CallbackKeeps DEF P
<1>4. CASE BridgeRefresh
  <2>1. /\ UNCHANGED coreAllVars /\ UNCHANGED commandOf /\ alive
        /\ lastCommand' = lastCommand /\ refused' = refused
        /\ PublishLatest(NoCommand, active)
    BY <1>4 DEF BridgeRefresh
  <2>2. RecordExecution /\ UNCHANGED <<record, status, mission>>
    BY <2>1, UnchangedKeeps
  <2>3. /\ Publishes({NoCommand, CommandOf(active)})
        /\ \A d \in Commands : record[d] # "absent" => record'[d] # "absent"
    BY <2>2, SamePublishes
  <2> QED BY <2>1, <2>2, <2>3, LastStays, CallbackKeeps
<1> QED BY <1>2, <1>3, <1>4

\* Where nothing is published, the records, statuses and mission stay as they are.
LEMMA UnnoticedKeeps ==
  ASSUME NodeIInv, Unnoticed \/ UNCHANGED nodeVars
  PROVE  NodeIInv'
<1>1. /\ UNCHANGED publicationVars
      /\ UNCHANGED <<record, status, mission, alive, active>>
  BY DEF Unnoticed, Expire, OrphanedGoalEnds, OrphanEnds, nodeVars, coreAllVars,
         vars, coreVars, storeVars
<1>2. CoreIInv' /\ IntentFits(ctx)'
  <2>1. NodeNext \/ UNCHANGED coreAllVars BY DEF NodeNext, nodeVars
  <2> QED BY <2>1, CoreStep
<1>3. AllShown'
  <2>1. AllShown BY DEF NodeIInv
  <2> QED BY <1>1, <2>1 DEF AllShown, Shown, publicationVars
<1> QED BY <1>1, <1>2, <1>3 DEF NodeIInv, NodeTypeOK, publicationVars

LEMMA NodeStep ==
  ASSUME NodeIInv, [NodeNext]_nodeVars
  PROVE  NodeIInv'
BY ReceiveKeeps, RetryKeeps, AnswerKeeps, BridgeKeeps, UnnoticedKeeps DEF NodeNext

LEMMA InitNodeIInv ==
  ASSUME NodeInit
  PROVE  NodeIInv
<1>1. CoreIInv BY InitCoreIInv DEF NodeInit
<1>2. IntentFits(ctx)
  BY CleanIntent DEF NodeInit, CoreInit, Init, States, Modes
<1>3. NodeTypeOK BY DEF NodeInit, NodeTypeOK, StatusStates
<1>4. AllShown
  BY DEF NodeInit, CoreInit, AllShown, Shown, FinalStatuses, RunningStatuses
<1> QED BY <1>1, <1>2, <1>3, <1>4
        DEF NodeInit, CoreInit, Init, NodeIInv

\* The node's invariant: what it shows never drifts from what the core stores,
\* whatever is repeated, late or published.
THEOREM NodeInvariant == NodeSpec => []NodeIInv
<1>1. NodeInit => NodeIInv BY InitNodeIInv
<1>2. NodeIInv /\ [NodeNext]_nodeVars => NodeIInv' BY NodeStep
<1> QED BY <1>1, <1>2, PTL DEF NodeSpec

\* The node's own state stays well typed.
THEOREM NodeTypeCorrect == NodeSpec => []NodeTypeOK
<1>1. NodeIInv => NodeTypeOK BY DEF NodeIInv
<1> QED BY <1>1, NodeInvariant, PTL

-----------------------------------------------------------------------------
(***************************************************************************)
(* What the HMI can rely on.                                               *)
(***************************************************************************)

\* Whatever the HMI is shown of the active mission is what the core stores, or
\* QUEUED until the first callback of a mission that was activated from the
\* queue, as long as no late retry of that mission was refused (node.py
\* publishes the latest stored status after every callback).
THEOREM ShownIsCurrent == NodeSpec => []ShownStatusIsCurrent
<1>1. ASSUME NodeIInv PROVE ShownStatusIsCurrent
  <2> SUFFICES ASSUME mission # NoCommand, mission \notin refused, alive
               PROVE  seen[mission] \in {status[mission], "QUEUED"}
    BY DEF ShownStatusIsCurrent
  <2>1. mission \in Commands BY <1>1 DEF NodeIInv, CoreIInv, MissionFits
  <2>2. Shown(mission) BY <1>1, <2>1 DEF NodeIInv, AllShown
  <2> QED BY <2>1, <2>2 DEF Shown, FinalStatuses
<1> QED BY <1>1, NodeInvariant, PTL

\* No two missions are ever shown under way, though one call of the core ends a
\* mission and activates the next, and publishes only one of the two.
THEOREM OneShownRunning == NodeSpec => []OneMissionShownRunning
<1>1. ASSUME NodeIInv PROVE OneMissionShownRunning
  <2> DEFINE S == {c \in Commands : seen[c] \in {"NAVIGATING", "CANCELING"}}
  <2>1. \A c, d \in S : c = d
    BY <1>1 DEF NodeIInv, AllShown, RunningStatuses
  <2>2. CASE S = {} BY <2>2, FS_EmptySet DEF OneMissionShownRunning
  <2>3. ASSUME NEW c \in S PROVE OneMissionShownRunning
    <3>1. S = {c} BY <2>1, <2>3
    <3>2. Cardinality({c}) = 1 BY FS_Singleton
    <3> QED BY <3>1, <3>2 DEF OneMissionShownRunning
  <2> QED BY <2>2, <2>3
<1> QED BY <1>1, NodeInvariant, PTL

\* A callback publishes what is stored, refuses a late retry, or publishes nothing.
LEMMA SeenStep ==
  ASSUME NodeNext \/ UNCHANGED nodeVars, seen \in [Commands -> StatusStates]
  PROVE  /\ refused \subseteq refused'
         /\ \A c \in Commands \ refused' : seen'[c] \in {status'[c], seen[c]}
<1>1. CASE \E c \in Commands : ReceiveTooLate(c)
  BY <1>1 DEF ReceiveTooLate
<1>2. CASE Unnoticed \/ UNCHANGED nodeVars
  BY <1>2 DEF Unnoticed, publicationVars, nodeVars
<1>3. ASSUME NEW c, NEW e, PublishLatest(c, e), refused' = refused
      PROVE  /\ refused \subseteq refused'
             /\ \A d \in Commands \ refused' : seen'[d] \in {status'[d], seen[d]}
  BY <1>3 DEF PublishLatest
<1> QED BY <1>1, <1>2, <1>3
        DEF NodeNext, ReceiveNew, ReceiveAgain, NavigationCallback, LeaseCallback,
            ResetCallback, TargetCallback, BridgeRefresh

\* A final status that was shown is not taken back by a late callback or by a
\* retry that _on_task_command answers from the stores.
THEOREM ShownFinalStays == NodeSpec => ShownFinalIsFinal
<1>1. ASSUME NodeIInv, NodeNext \/ UNCHANGED nodeVars, NEW c \in Commands \ refused',
             seen[c] \in FinalStatuses
      PROVE  seen'[c] = seen[c]
  <2>1. refused \subseteq refused' /\ seen'[c] \in {status'[c], seen[c]}
    BY <1>1, SeenStep DEF NodeIInv, NodeTypeOK
  <2>2. status[c] = seen[c]
    BY <1>1, <2>1 DEF NodeIInv, AllShown, Shown
  <2>3. FinalKept
    <3>1. NodeNext \/ UNCHANGED coreAllVars BY <1>1 DEF nodeVars
    <3> QED BY <1>1, <3>1, CoreStep
  <2> QED BY <1>1, <2>1, <2>2, <2>3 DEF FinalKept
<1>2. NodeIInv /\ [NodeNext]_nodeVars
        => [\A c \in Commands \ refused' :
              seen[c] \in FinalStatuses => seen'[c] = seen[c]]_nodeVars
  BY <1>1
<1> QED BY <1>2, NodeInvariant, PTL DEF NodeSpec, ShownFinalIsFinal

\* The callback that ends a mission by an answer or a timeout publishes that
\* mission's outcome, whichever mission it activates in its place.
THEOREM OutcomeIsShown == NodeSpec => FinishedMissionIsShown
<1>1. ASSUME NodeIInv, NodeNext, mission # NoCommand, mission' # mission,
             lastCommand' = lastCommand, alive'
      PROVE  seen'[mission] = status'[mission]
  <2>1. /\ CoreIInv /\ CoreIInv' /\ mission \in Commands
        /\ lastCommand # NoCommand => record[lastCommand] # "absent"
    BY <1>1, CoreStep DEF NodeIInv, CoreIInv, MissionFits
  <2>2. ASSUME RecordExecution, PublishLatest(NoCommand, active)
        PROVE  seen'[mission] = status'[mission]
    BY <1>1, <2>1, <2>2, ActiveRecorded DEF PublishLatest
  <2>3. ASSUME NEW c \in Commands PROVE ~ReceiveNew(c)
    <3>1. c # NoCommand BY CommandsAssumption
    <3>2. ReceiveNew(c) => lastCommand' = c /\ record[c] = "absent"
      BY DEF ReceiveNew, SubmitCommand, MissionRejected, MissionQueued, MissionStarted,
             SubmitPause, SubmitResume, ResumeRejected, SubmitStop, SubmitEstop,
             SubmitReset, IsNew
    <3> QED BY <1>1, <2>1, <3>1, <3>2
  <2>4. ASSUME NEW h \in Handles, NavigationCallback(h)
        PROVE  seen'[mission] = status'[mission]
    <3>1. NavigationAnswered(h) /\ RecordExecution /\ PublishLatest(NoCommand, h[1])
      BY <2>4 DEF NavigationCallback
    <3>2. h[1] = active
      <4> DEFINE P == Commands
      <4>1. h[1] = active /\ mission \in Commands => mission \in P OBVIOUS
      <4> HIDE DEF P
      <4> QED BY <1>1, <2>1, <3>1, <4>1, NavigationPublishes
    <3> QED BY <2>2, <3>1, <3>2
  <2>5. ASSUME NEW e \in Executions, LeaseCallback(e)
        PROVE  seen'[mission] = status'[mission]
    <3>1. LeaseAnswered(e) /\ RecordExecution /\ PublishLatest(NoCommand, e)
      BY <2>5 DEF LeaseCallback
    <3>2. e = active
      <4> DEFINE P == Commands
      <4>1. e = active /\ mission \in Commands => mission \in P OBVIOUS
      <4> HIDE DEF P
      <4> QED BY <1>1, <2>1, <3>1, <4>1, LeasePublishes
    <3> QED BY <2>2, <3>1, <3>2
  <2>6. CASE TargetCallback BY <2>2, <2>6 DEF TargetCallback
  <2>7. ~ResetCallback
    BY <1>1 DEF ResetCallback, ResetFails, ResetSucceeds
  <2>8. ~BridgeRefresh /\ ~Unnoticed
        /\ \A c \in Commands : ~ReceiveAgain(c) /\ ~ReceiveTooLate(c)
    BY <1>1 DEF BridgeRefresh, Unnoticed, Expire, OrphanedGoalEnds, ReceiveAgain,
                ReceiveTooLate, coreAllVars, storeVars
  <2> QED BY <1>1, <2>3, <2>4, <2>5, <2>6, <2>7, <2>8 DEF NodeNext
<1>2. NodeIInv /\ [NodeNext]_nodeVars
        => [mission # NoCommand /\ mission' # mission /\ lastCommand' = lastCommand
              /\ alive' => seen'[mission] = status'[mission]]_nodeVars
  BY <1>1
<1> QED BY <1>2, NodeInvariant, PTL DEF NodeSpec, FinishedMissionIsShown
=============================================================================
