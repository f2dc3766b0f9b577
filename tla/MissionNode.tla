---------------------------- MODULE MissionNode -----------------------------
(***************************************************************************)
(* MissionManagerNode (node.py): the ROS node around the core.  It turns   *)
(* every message, adapter answer and bridge callback into one call of the  *)
(* core and then publishes the latest stored status of the command (and of *)
(* the execution) that the callback was about, so what the HMI sees lags   *)
(* behind what the stores hold whenever one call changes the status of     *)
(* another command as well.                                                *)
(*                                                                         *)
(* Unlike MissionCore, the HMI may repeat a command: the retry has the     *)
(* same command_id and a stamp of its own, so it may come too late.        *)
(***************************************************************************)
EXTENDS MissionCore

VARIABLES
  seen,         \* the status last published for each command, in either scope
  commandOf,    \* ExecutionRecordStore: the command of each execution
  lastCommand,  \* _last_command_id
  refused       \* history: commands with a retry that was refused as expired

publicationVars == <<seen, commandOf, lastCommand, refused>>
nodeVars == <<coreAllVars, publicationVars>>

NodeInit ==
  /\ CoreInit
  /\ seen = [c \in Commands |-> "absent"]
  /\ commandOf = [e \in Executions |-> NoCommand]
  /\ lastCommand = NoCommand
  /\ refused = {}

\* The execution store learns of an execution when it is activated.
RecordExecution ==
  commandOf' = IF started' = started THEN commandOf
               ELSE [commandOf EXCEPT ![started'] = mission']

CommandOf(e) == IF e \in Executions THEN commandOf'[e] ELSE NoCommand

\* _publish_latest_status: the command's latest status, and the execution's,
\* which the core always writes together with that of its command.  A callback
\* that raised publishes nothing.
PublishLatest(c, e) ==
  seen' = [d \in Commands |->
             IF alive' /\ d \in {c, CommandOf(e)} THEN status'[d] ELSE seen[d]]

(***************************************************************************)
(* _on_task_command.                                                       *)
(***************************************************************************)

\* A control's result names the active execution if the control was applied, a
\* mission's the execution it created.
ResultExecution(c) == IF record'[c] = "APPLIED" THEN active' ELSE 0

\* Mutant: only the command's own status is published.
ReceiveNewAlone(c) ==
  /\ SubmitCommand(c)
  /\ RecordExecution
  /\ lastCommand' = c
  /\ PublishLatest(c, 0)
  /\ UNCHANGED refused

ReceiveNew(c) ==
  /\ SubmitCommand(c)
  /\ RecordExecution
  /\ lastCommand' = c
  /\ PublishLatest(c, ResultExecution(c))
  /\ UNCHANGED refused

\* Mutant: a retry is answered as if the command had just been accepted.
ReceiveAgainAsNew(c) ==
  /\ alive
  /\ record[c] # "absent"
  /\ lastCommand' = c
  /\ seen' = [seen EXCEPT ![c] = "ACCEPTED"]
  /\ UNCHANGED <<coreAllVars, commandOf, refused>>

\* A retry within its validity: whether the contents agree (REPLAY) or not
\* (CONFLICT), the latest stored status is published again.
ReceiveAgain(c) ==
  /\ alive
  /\ record[c] # "absent"
  /\ lastCommand' = c
  /\ UNCHANGED <<coreAllVars, commandOf, refused>>
  /\ PublishLatest(c, 0)

\* A retry past its validity: validation comes before deduplication, and its
\* verdict is published at once and stored nowhere.
ReceiveTooLate(c) ==
  /\ alive
  /\ record[c] # "absent"
  /\ lastCommand' = c
  /\ seen' = [seen EXCEPT ![c] = "REJECTED"]
  /\ refused' = refused \cup {c}
  /\ UNCHANGED <<coreAllVars, commandOf>>

(***************************************************************************)
(* _on_navigation_event, _on_safety_event and the visual target bridge.    *)
(***************************************************************************)
NavigationCallback(h) ==
  /\ NavigationAnswered(h)
  /\ RecordExecution
  /\ PublishLatest(NoCommand, h[1])
  /\ UNCHANGED <<lastCommand, refused>>

\* Mutant: the status published is that of the execution active afterwards.
LeaseCallbackForActive(e) ==
  /\ LeaseAnswered(e)
  /\ RecordExecution
  /\ PublishLatest(NoCommand, active')
  /\ UNCHANGED <<lastCommand, refused>>

LeaseCallback(e) ==
  /\ LeaseAnswered(e)
  /\ RecordExecution
  /\ PublishLatest(NoCommand, e)
  /\ UNCHANGED <<lastCommand, refused>>

\* A reset's answer names no execution: the status published is that of the
\* command received last.
ResetCallback ==
  /\ ResetFails \/ ResetSucceeds
  /\ RecordExecution
  /\ PublishLatest(lastCommand, 0)
  /\ UNCHANGED <<lastCommand, refused>>

\* retry_waiting_goal_resolution and check_target_wait_timeout, called by the
\* bridge, which publishes for the execution that was waiting.
TargetCallback ==
  /\ TargetAppears \/ TargetTimesOut
  /\ RecordExecution
  /\ PublishLatest(NoCommand, active)
  /\ UNCHANGED <<lastCommand, refused>>

\* The same calls when there is nothing to do: the bridge still publishes the
\* status of the active execution.
BridgeRefresh ==
  /\ alive
  /\ active # 0
  /\ UNCHANGED <<coreAllVars, commandOf, lastCommand, refused>>
  /\ PublishLatest(NoCommand, active)

\* Steps of the environment: no callback of the node.
Unnoticed ==
  /\ (\E c \in Commands : Expire(c)) \/ OrphanedGoalEnds
  /\ UNCHANGED publicationVars

NodeNext ==
  \/ \E c \in Commands : ReceiveNew(c) \/ ReceiveAgain(c) \/ ReceiveTooLate(c)
  \/ \E h \in Handles : NavigationCallback(h)
  \/ \E e \in Executions : LeaseCallback(e)
  \/ ResetCallback
  \/ TargetCallback
  \/ BridgeRefresh
  \/ Unnoticed

NodeSpec == NodeInit /\ [][NodeNext]_nodeVars

-----------------------------------------------------------------------------
(***************************************************************************)
(* Properties.                                                             *)
(***************************************************************************)

\* The type invariant of the node's own state.
NodeTypeOK ==
  /\ seen \in [Commands -> StatusStates]
  /\ commandOf \in [Executions -> Commands \cup {NoCommand}]
  /\ lastCommand \in Commands \cup {NoCommand}
  /\ refused \subseteq Commands

\* What the HMI is shown of the active mission is what the core stores: every
\* callback that changes its status publishes it, although many callbacks are
\* about other commands.  The one gap is a mission activated from the queue,
\* which is shown as QUEUED until the first callback of its own.
ShownStatusIsCurrent ==
  mission # NoCommand /\ mission \notin refused /\ alive
    => seen[mission] \in {status[mission], "QUEUED"}

\* The HMI is never shown two missions under way, even though the end of one and
\* the activation of the next are one call of the core.
OneMissionShownRunning ==
  Cardinality({c \in Commands : seen[c] \in {"NAVIGATING", "CANCELING"}}) <= 1

\* When an answer or a timeout ends an execution, its outcome is published by the
\* same callback, not that of the mission activated in its place.
FinishedMissionIsShown ==
  [][mission # NoCommand /\ mission' # mission /\ lastCommand' = lastCommand /\ alive'
       => seen'[mission] = status'[mission]]_nodeVars

\* A final status, once shown, is never taken back by a callback that comes late
\* or by a retry that is answered from the stores.
ShownFinalIsFinal ==
  [][\A c \in Commands \ refused' :
       seen[c] \in FinalStatuses => seen'[c] = seen[c]]_nodeVars

\* state_machine.md: "a terminal status is published once when it first arises".
FinalStatusIsPublished ==
  [][\A c \in Commands :
       alive' /\ status[c] \notin FinalStatuses /\ status'[c] \in FinalStatuses
         => seen'[c] = status'[c]]_nodeVars

(***************************************************************************)
(* The inductive invariant.  Shown relates what was published last to what *)
(* is stored: a final status is that of the store unless a late retry was  *)
(* refused since, a waiting mission is shown as waiting, and no mission    *)
(* but the active one is shown under way.                                  *)
(***************************************************************************)
RunningStatuses == { "NAVIGATING", "CANCELING" }

Shown(c) ==
  /\ seen[c] \in FinalStatuses /\ c \notin refused => status[c] = seen[c]
  /\ alive => /\ record[c] = "QUEUED" => seen[c] \in {"QUEUED", "REJECTED"}
              /\ c = mission => seen[c] \in {status[c], "QUEUED", "REJECTED"}
              /\ seen[c] \in RunningStatuses => c = mission

AllShown ==
  /\ \A c \in Commands : Shown(c)
  /\ \A c, d \in Commands :
       seen[c] \in RunningStatuses /\ seen[d] \in RunningStatuses => c = d

NodeIInv ==
  /\ CoreIInv
  /\ IntentFits(ctx)
  /\ NodeTypeOK
  /\ active # 0 => commandOf[active] = mission
  /\ lastCommand # NoCommand => record[lastCommand] # "absent"
  /\ AllShown
=============================================================================
