# TLA+ verification of the CleanNav mission manager

The mission manager is a ROS 2 node (Python, `src/cleannav_mission_manager`)
that receives missions and controls (PAUSE, RESUME, STOP, ESTOP, RESET_ESTOP)
from an HMI, drives one mission at a time through a Navigation Facade, holds a
lease of a Safety service while the robot moves, and publishes the status of
every command. This directory models its core logic in TLA+, checks it with TLC
and proves its central safety properties with TLAPS.

## 1. Inventory

### Components, their state and their operations

| Component | Source | State | Operations | What makes it correct |
| --- | --- | --- | --- | --- |
| Execution state machine | `domain/state_machine.py` | none (pure) | `transition(context, event)` | every decision is a verdict, a context and effects that account for each goal and lease; an ended execution is clean |
| Core, life cycle of an execution | `core.py`, `domain/generation_gate.py`, `domain/execution_store.py` | `_active_context`, active execution and generation, gate handle, frozen goal | `_activate_next`, `_apply_event`, `_execute_effect`, `_finish_execution`, goal submission, stale filtering | the core's context is a true account of the world: at most one goal, owned by the gate; the robot drives only under a lease |
| Core, commands | `core.py`, `domain/mission_queue.py`, `domain/command_store.py` | command records, latest statuses, waiting queue, active mission, pending reset, manager mode | `submit_command`, five controls, reset answers, expiry, target retry and timeout | the queue goes on after each end that lets it, one story per mission, final statuses stay, the latch survives |
| Validation and deduplication | `domain/command_processing.py`, `domain/command_store.py`, `domain/task_catalog.py` | fingerprints, records, terminal caches | `validate`, `check_and_record`, `register_or_replay`, `update_record`, `write_command_status` | a command is executed once; a retry is told the stored story |
| ROS node | `node.py`, `ros_conversion.py` | `_last_command_id`, publisher | `_on_task_command`, `_on_navigation_event`, `_on_safety_event`, bridge callbacks | the HMI is shown what the stores hold |
| Navigation adapter | `adapters/real_navigation.py`, `adapters/navigation.py` | one record per goal: handle, cancel flags, response, result | `submit_goal`, `cancel_goal`, three future callbacks | one terminal event per goal, CANCEL_CONFIRMED only when the goal is over |
| Safety adapter | `adapters/real_safety.py`, `adapters/safety.py` | none but the client | acquire, release, reset; one answer each | one answer per call |
| Visual targets | `domain/target_registry.py`, `domain/target_selector.py`, `visual_target_*.py` | targets by id with deadline, newest stamp by id, latest pose | update, expire, select, resolve; the bridge's two subscriptions and its timer | a mission is driven to the nearest target that is usable by its newest observation; none is missed; no mission waits past its deadline |
| HIL navigation runner (J6) | `demo_hil_navigation_runner.py` | records by request, numbered events with a bounded history, results to deliver | submit, cancel, serve polls, take posted results | a goal is answered once, with what an execution of it came to |
| HIL PC execution bridge | `demo_hil_pc_execution_bridge.py` | last event id, processed ids, queue of executions, active execution, queue of results | poll, process, start an execution, hear of its end, post | no goal falls between poll, execution and retries; executions run in order |
| PC offline runner | `demo_pc_offline_runner.py` | active goal and latch of the navigation adapter; simulated poses | submit, cancel, end of a goal, a brush that reaches a pile | it keeps the promise of the adapter it wraps; a success has been earned |
| Demo harness | `demo_mm_harness.py` | none | publishes demonstration commands | - |
| Clock | `domain/clock.py` | none | ROS time, which may be set back | - |
| Runtime policy, launch files | `domain/runtime_policy.py`, `launch/` | none | validated at start | - |

### Interaction

`rclpy.spin` runs one executor thread, so every callback (a message, a completed
future, a timer) runs to its end. A command enters `_on_task_command`, the core
is called once, the adapters are called from inside the core, and their answers
come back as later callbacks, in any order. An adapter that fails at once calls
back from inside the core: that nested callback arrives after the core's own
assignments, as the last effect of the handler, so it equals the same answer
arriving first thing afterwards. This is why one action of the models is one
callback, and why every interleaving of the models is one of callbacks.

### What is hard

* The answers to one cancellation (cancel confirmed or failed, lease released, a
  lease granted too late, a goal rejected too late) arrive in every order, and
  only the last may settle it.
* A goal may end on its own at any time: while its lease is being acquired, while
  it is being canceled, after its execution was given up.
* One handler writes the context, the execution record, two statuses, the queue
  and the gate, may end one mission and start the next, and publishes only the
  status of the command it was about.
* ESTOP overrides a cleanup that is under way; its reset is asynchronous.
* Commands are repeated by the HMI and expire in the queue.
* Observations come late, twice and in any order, and what a mission waits for may be
  made usable by a batch, by a pose or by RESUME.
* Over HTTP requests, responses and whole processes are lost: two threads and four
  queues lie between a goal and its answer, and ids start again after a restart.
* The showcase's adapter cancels goals of its own, behind the core's back, while the
  core may be canceling the same goal.

The full list, each at its line, is `hazards` in `PROJECT.json`.

## 2. Modules

| Module | Models | State and actions |
| --- | --- | --- |
| `StateMachine` | `transition` | no variables; one operator per branch of `transition`, in its order; `Transition(c, event)` is the function |
| `ExecutionLifecycle` | the core's handling of one execution after another, with the goals and leases that exist outside | `ctx`, `active`, `generation`, `gate`, `frozen`, `started` are the fields of `MissionManagerCore`; `goal`, `cancelAsked`, `lease` are the Facade and the Safety service. One action per request (`Start`, `Pause`, `Resume`, `Stop`, `Estop`, ...) and per answer |
| `MissionCore` | all of `core.py`: the same handlers with records, statuses, queue, reset and latch | `record`, `status`, `queue`, `mission`, `expired`, `pendingReset`, ...; one action per handler, each a step of `ExecutionLifecycle` together with what it writes. Which mission comes next, left open in the life cycle, is decided by the queue |
| `MissionNode` | `node.py`: the same handlers with what they publish, and retries of commands | `seen` is what the HMI was last sent of each command; `ReceiveNew`, `ReceiveAgain`, `ReceiveTooLate`, one action per callback |
| `NavigationContract` | what `navigation.py` promises the core | `goal`, `cancelAsked`, `told`; the navigation answers of `ExecutionLifecycle` are its steps |
| `RealNavigationAdapter` | `real_navigation.py` | `record` is `_NavigationGoalRecord`, `told` is `terminal_emitted` with the event, `awaits` the futures with a callback still to run, `facade` and `reply` the action server. `SubmitGoal`, `CancelGoal`, one action per callback (`GoalResponse` and `AfterAccepted` are the two halves of `_on_goal_response`), three of the action server |
| `CommandStore` | `command_store.py` and `CommandDeduplicator` | `fingerprint`, `record`, `latest`, `cache` are the store's dictionaries; `RegisterOrReplay`, `UpdateRecord`, `WriteCommandStatus`; `Answer` is what a retry is told |
| `PhysicalCompletion` | `DemoPhysicalCompletionNavigationAdapter` of `demo_pc_offline_runner.py` | EXTENDS `RealNavigationAdapter`, as the class wraps the adapter: `active` and `latched` are `_active_handle` and `_physical_completion_handle`, `heard` is what the core is told. Each of its steps is a step of the adapter whose terminal event goes through `_on_inner_event` (`PassOn`); `OnPhysicalPoses` is a brush that reaches a pile |
| `VisualTargets` | `target_registry.py`, `target_selector.py`, the resolver and the bridge of the visual targets, with the one mission of the core they serve | `registry`, `pose`, the ROS clock `now` and `mission` with its deadline and frozen target; `ReceiveTargets`, `ReceivePose`, `Timer`, `Activate`, `Pause`, `Resume`, `ClockSetBack` |
| `HilBridge` | `demo_hil_navigation_runner.py` and `demo_hil_pc_execution_bridge.py` | `record`, `history`, `nextEventId`, `delivering`, `told` on the J6; `executions`, `active`, `results` of the bridge's ROS thread; `batch`, `lastEventId`, `processed` of its network thread; `late` is what the client gave up on. One action per step of a thread, `PostUnheard` and `PollFails` for what is lost, two restarts |
| `*_proofs` | theorems | see section 5 |
| `MCMissionCore`, `MCMissionNode`, `MCCommandStore` | TLC instances | the symmetry of commands |
| `MCVisualTargets` | TLC instance | the batches perception sends |

`ExecutionLifecycle` is the abstract specification, `MissionCore` implements it
and `MissionNode` implements `MissionCore`. The variables of each level are kept
by the next, so the refinement mapping is the identity; what has to be shown is
that no handler, with everything it writes, does anything else to the context,
the goals and the leases.

`RealNavigationAdapter` stands beside them: it implements `NavigationContract`, with
a goal `accepted` or `over` when its event says so and `orphaned` when the Facade
still runs it after its terminal event. `ExecutionLifecycle` assumes that contract
without `Lose`, its step for a failing future. `CommandStore` stands beside them as
well: the core calls it from inside its handlers, and `MissionCore` keeps of it only
the record and the latest status of each command.

`PhysicalCompletion` composes the real adapter with the one around it and shows twice
that the contract is kept: by the adapter towards the wrapper, whose monitor is a second
party that asks for cancellations (`ImplementsContract`), and by the wrapper towards the
core (`KeepsPromise`, the same contract over `heard`). `VisualTargets` refines what
`MissionCore` leaves open (that a waiting mission is resolved or times out) down to
which target and when. `HilBridge` is an adapter of its own; what it promises is less
than `NavigationContract` (see below), so it is not shown to implement it.

Where the abstraction is:

* A goal is `none`, `sent`, `accepted`, `orphaned` (given up by the adapter, still
  driven by the Facade) or `over`; a lease is `none`, `asked`, `held`, `returning`.
* Time is the event that a deadline has passed: `Expire(c)`, `TargetTimesOut`; only
  `VisualTargets` has a clock, because stamps and deadlines are compared there.
* A target's place is a number and its distance that to the robot's. The simulator's
  geometry is the choice of when a brush reaches a pile.
* An HTTP request is heard, lost, answered into the void, or late. An event of the
  runner's history carries the life of the process it comes from, which no step reads.
* `ctx = None` in the code is the IDLE context the core builds when it needs one.
* A failure that an adapter reports at once is the failure answer arriving first.
* A handler that raises ends the process (the node lets the exception out of the
  executor): `alive` becomes FALSE and nothing more happens.
* RETURN_HOME and SAFETY_BLOCK are events of the state machine that the core never
  sends; they are in `StateMachine` and no action uses them. The outcome
  START_REPLAN is never set and left out.
* The models contain "Mutant" operators next to some definitions. They are not
  part of the specification: each is a plausible bug of that definition, and TLC
  finds the property it is meant for violated when it takes the definition's place.

## 3. What the runs check

| Run | Bounds | States | Shows |
| --- | --- | --- | --- |
| `ExecutionLifecycle` | 2 executions, 2 generations | 3 530 | safety of goals and leases, and the liveness properties |
| `MissionCore` | 5 commands, queue of 3, 5 executions, 2 generations | 108 976 | queue, records, statuses and latch; the core implements the life cycle |
| `MissionNode` | 3 commands, queue of 1, 3 executions, 2 generations | 175 012 | what is published |
| `CommandStore` | 3 commands, cache of 2, 2 meanings with 2 details each | 119 017 | what a retry is told |
| `PhysicalCompletion` | 2 goals, calls and futures may raise, a brush reaches a pile at any moment | 270 092 | both navigation adapters keep their contract and answer every cancellation |
| `VisualTargets` | 2 targets at 2 places, clock to 4, set back once, wait of 2, missions for LEAF_PILE and ANY | 64 638 | which target a mission is driven to, and when |
| `HilBridge` | 2 requests, 3 events in a life, history of 2, 1 processed id, 1 late post, 1 restart | 274 222 | goals over HTTP are answered once, truly and in the end |

The runs check what may go wrong. Type correctness and the inductive invariants are
theorems for every instance (section 5) and are not run again, except `CoreIInv`, the
one a change of the core breaks first, and `TargetsTypeOK`, which also says that nothing
lost or invalid is stored. What the liveness properties rest on is stated as invariants and
action properties of its own and proved; these were model-checked on the bounds below before
they were proved, and no run repeats them.

Life cycle: only the goal the gate owns can move the robot (`OnlyOwnedGoalMoves`);
only the active execution has a lease (`OnlyActiveOwnsLease`); a robot at rest (IDLE,
PAUSED, WAITING_TARGET, a clean SAFETY_BLOCKED) has no moving goal and no lease
(`QuietAtRest`); EXECUTING only under a granted lease and FINALIZING only after the
goal's end (`DrivesUnderLease`); no step ends an execution with anything left
(`EndsOnlyWhenReleased`); no goal is submitted while another may move
(`SubmitsOneAtATime`); a failed cleanup is never forgotten (`FailedCleanupSticks`).

Core: a success, and a failure that `failure_disposition` has CONTINUE_QUEUE for,
activates the mission at the head of the queue and loses none (`QueueContinues`); record, status, queue and context of each mission tell one story (`OneStory`); a
final status is the last (`FinalStatusIsFinal`); what ends a mission is what was
asked for (`StopDecidesOutcome`, `SuccessIsEarned`); the latch outlives the cleanup
that an ESTOP starts (`LatchSurvivesCleanup`); missions are activated in queue order
(`FirstInFirstOut`). `QueueContinues` is about a process that is alive: a handler
that raises because the head of the queue expired under it leaves missions behind. It
says nothing of a goal that ends before acceptance, where the documents would have the
queue held or not depending on a cause that the code does not tell apart (below).

Node: what is shown of the active mission is current (`ShownStatusIsCurrent`); two
missions are never shown under way at once (`OneMissionShownRunning`); the outcome
of a mission that an answer ends is published by the same callback
(`FinishedMissionIsShown`); a final status is never taken back (`ShownFinalIsFinal`).

Adapters (`PhysicalCompletion`): every behaviour of the inner adapter is one of the
contract (`ImplementsContract`), and so is every behaviour of the outer one
(`KeepsPromise`); every cancellation is answered, wherever in the goal's life it is asked
for and whoever asks (`CancelIsAnswered`), and every end is reported (`EndIsReported`); a
success the core hears of is one of the goal, or of a goal that was stopped after a brush
had reached a pile under that same goal (`CompletionIsEarned`); a goal under which one
did is a success in the end unless its cancellation failed or another goal was submitted
(`ReachedGoalSucceeds`). One outcome is worth knowing: a refused
cancel response that overtakes the result of a goal that ended by itself makes
CANCEL_FAILED of a goal that is over, while the other order reports the result.

Visual targets: however observations are delayed, repeated or reordered, the registry
holds the newest of each target and the marks of expiry (`RegistryHoldsNewest`); a goal is
frozen only on the first of the targets that are usable at that moment, and never on one
that was found expired before the clock was set back (`GoalIsCurrent`); no mission waits
beside a target for it (`NoTargetIsMissed`, unless the clock was set back) nor past its
deadline (`WaitEnds`).

HIL: what the core hears of a goal is what an execution of it came to (`ResultIsEarned`),
once (`OneAnswerPerGoal`); a submission the runner still has is to be polled, in hand, or
answered (`NothingIsLost`); executions run in the order of their events, each once in a
life of the bridge (`RunsInOrder`); every goal is answered in the end unless the J6 was
restarted or its history was overrun (`SubmitIsAnswered`).

Store: a message with a known command_id is never a new command; a retry is told the
first final status unless as many commands as the cache holds have ended since, and
TERMINAL_CACHE_MISSING then (`RetryTellsStory`); no final status is taken back after the
cache has forgotten it (`EndIsKept`).

Why the bounds suffice: everything the core remembers of an earlier execution or
generation is the handle in the gate, so two of each contain every stale answer;
two generations contain pause and resume. Five commands are a mission, a waiting
mission and three controls, or a full queue of three with a mission and a
control. In `MissionNode` a publication concerns at most two commands, so three
with a queue of one contain every callback about one command that changes
another (a run with four commands, a queue of two and one generation passes too,
in 4.2 million states). Commands are interchangeable, so the runs of the core, the
node and the store use symmetry; none of them checks liveness. The adapter keeps one
record per goal and nothing between goals but the sink, so two goals contain every
callback of one inside or between those of another, and the monitor of the outer
one remembers one goal and one latch. In the store three commands and
a cache of two contain a cache that is full, evicts its oldest entry and keeps
another. A selection compares two targets, so two targets at two places, each seen
before, at and after the other's stamp, contain every order; a clock of four with
a validity and a wait of two contains a target that expires during a wait and a wait
that ends while a target is fresh. Three events with a history of two contain a
submission that is overrun, a single processed id one that is forgotten, and one
restart of either process is followed by every loss. Two requests contain a result
that is refused for ever in front of one that is not.

`CHECK_DEADLOCK FALSE` is set because a behaviour really may stop: every command
was submitted and answered, every goal is over, or the process has died.

### Fairness

The run `ExecutionLifecycle` assumes weak fairness of the adapters' answers: a goal
that was sent is accepted or rejected, a lease request is answered, a cancellation
is answered. `real_navigation.py` and `real_safety.py` give each call a future with
a callback for success, failure and exception, and the executor runs every
completed future. Nothing is assumed of the HMI, and nothing of how long a goal
takes, so `EXECUTING` may last.

The run `PhysicalCompletion` assumes less, and shows that for the adapters: callbacks of
completed futures run, the Facade decides on goals and on cancel requests, and a goal
it is canceling comes to an end. A goal that is not being canceled may run for ever,
and no brush need ever reach a pile.

`VisualTargets` assumes that the clock goes on and that the executor runs the bridge's
timer; perception may fall silent.

`HilBridge` assumes that both processes run their timers and the bridge its network
thread (weak fairness), that a bridge that polls again and again is heard once, that so
is each result of the present J6 that is posted again and again (strong fairness: the
network loses much, not everything), and that the PC's own mission manager, which is
outside this model, ends what it accepted. Restarts are finitely many.

### Disagreements between the code and what the repository says of it

Five runs are expected to be violated; each checks one sentence of a document or
comment, which `findings` quotes with the line of the code.

| Run | What happens |
| --- | --- |
| `EveryCancellationSettles` | a goal that ends on its own while being canceled leaves the execution CANCELING for ever |
| `LatchRefusesMissions` | a mission sent to a latched manager is activated and clears the latch |
| `ExpiredIsCanceled` | a mission that expires in the queue is dropped and stays QUEUED |
| `EstopOutlivesReset` | an ESTOP accepted while a reset is pending is undone by its answer |
| `FinalStatusIsPublished` | a final status written by a callback about another command is never published |

Smaller differences, and things worth knowing, that no run is made for:

* HOLD_QUEUE is not implemented. `docs/mission_manager_state_machine.md` 7.2 (line 359)
  and 19.2 (line 730, also 858, 860, 867 and 873) keep the queue without advancing it after
  a FAILED execution whose reason code has HOLD_QUEUE, such as NAV_GOAL_SUBMIT_FAILED and
  NAV_ACCEPT_TIMEOUT (`docs/mission_manager_reason_codes.md:283` and 285), and so does
  TP-QUE-013 (`docs/mission_manager_test_plan.md:414`). The code has no
  `failure_disposition`: `core.py:1014` activates the next mission after every end, and a
  failed submission arrives as the same GOAL_REJECTED as a rejection, which is
  CONTINUE_QUEUE (402). There is no acceptance timeout. A run would repeat what this line
  shows by itself; `IdleQueueIsEmpty`, a part of `CoreIInv`, states what the code does, and
  `QueueContinues` only claims what code and documents agree on.
* Where only the head of the queue has expired, `docs/mission_manager_test_plan.md:415`
  (TP-QUE-014) activates the second mission; `core.py:733` raises, with that mission taken
  out of the queue and lost.
* A result that arrives before the lease is granted is rejected and lost; the execution
  goes on to EXECUTING a goal that is over (`state_machine.py:734`). The liveness
  properties of the life cycle except it.
* A lease granted after CANCEL_FAILED is held and no cleanup flag says so
  (`state_machine.py:598`); `OnlyActiveOwnsLease` holds because the execution stays.
* A STOP that is rejected (CANCELING already) has emptied the queue before
  (`core.py:314`).
* A second RESET_ESTOP while one is pending takes its place; the first is never
  answered (`core.py:365`).
* An applied control stays ACCEPTED (`core.py:377`) where
  `docs/mission_manager_state_machine.md:46` has it SUCCEEDED.
* A resolver that raises after the previous execution ended leaves the head in the queue,
  and every later activation meets it again (`core.py:726`).
* A retry past its validity is published as REJECTED whatever became of the command,
  because validation comes before deduplication (`core.py:191`, against
  `docs/mission_manager_interface.md:137`); a CONFLICT is answered with the original's
  latest status rather than a COMMAND REJECTED (line 845); the IDEMPOTENT_REPLAY snapshot
  that `replay_status` builds is not what the node publishes.
* The document has a target expire after its deadline
  (`docs/mission_manager_interface.md:640`), the code at it (`target_models.py:164`).
* A frozen target that becomes INVALID or EXPIRED is kept and reused on RESUME
  (`core.py:576`); the selection anew of `docs/mission_manager_state_machine.md` 9.4 is not
  implemented. A mission that was paused past its deadline may still be given a target
  by RESUME. After the clock was set back, observations with the smaller stamps are
  refused until it has caught up (`target_registry.py:28`).
* The PC bridge ignores CANCEL_GOAL beyond remembering it, and never posts GOAL_ACCEPTED:
  the J6's core, still NAVIGATION_STARTING, rejects a SUCCEEDED
  (`docs/mission_manager_state_machine.md:376` has the acceptance come first), so a HIL
  mission is answered and yet not completed. This is why `HilBridge` is not shown to
  implement `NavigationContract`.
* After a restart of the J6 the bridge still polls after the old id, so the first events of
  the new life are not seen, and a result of an old goal may answer a new one of the
  same name. `_processed_event_ids` never skips anything within one life of the J6.
* An ESTOP that follows a STOP of FINALIZING before the lease is returned asks for the
  cancellation of a goal that is over (`state_machine.py:213`): no confirmation comes of it,
  and the manager stays latched and CANCELING, as in `EveryCancellationSettles`.
* When the monitor's own cancellation is refused the core hears a CANCEL_FAILED it did not
  ask for and rejects it in EXECUTING.

## 4. What is not modelled, and why

Exceptions of the injected goal resolver; what the executor makes of an exception
that leaves a handler (the models stop with `alive = FALSE`; a future's callback may
be treated more leniently than a subscription's); the life cycle with a navigation
future that raises, which `RealNavigationAdapter` has and `ExecutionLifecycle` does not;
the execution store's own terminal cache, which nothing reads once an execution has
ended; the Safety adapter's future handling, which gives one answer per call as its
model in `ExecutionLifecycle` does, except that the adapter also reports a failure when
the response is lost (`real_safety.py:182` and 206) and Safety may then have granted or
taken back the lease, where the model has it not granted or still held; argument checks of the stores that raise on programming errors only; field
validation and message conversion (pure functions, enumerated by the unit
tests); the content of `task_catalog.yaml` and the runtime policy, which are read and
validated once; restarts of the node (nothing is persisted, and the Safety service's side
of one is not in this repository); the HTTP ingress of the HIL runner, which validates a
task and publishes it as a command; the events a client other than the PC bridge could
post; the geometry of brushes and piles, the polling of the simulator and the harness;
the tolerance of 1e-12 within which two distances count as equal.

## 5. What is proved

`ExecutionLifecycle_proofs` proves, for any number of executions and generations,
`Spec => []IInv` and from it every safety and action property of the run
`ExecutionLifecycle`. None of the properties is inductive alone: that a robot at
rest has no moving goal depends on the cleanup flags being a true account of
goal and lease while the cancellation was under way. `IInv` says that
(`Consistent`), together with the fresh use of handles (`FreshHandles`) and the
ownership of goals and leases (`Ownership`). The proof has three layers: lemmas
`...Leads` say what `transition` makes of a consistent context on one event;
`ActivationIInv`, `ApplyIInv` and `SubmitIInv` lift them through activation, effects and
submission; and one lemma per kind of action puts them together in `NextIInv`.
The only assumptions are `BoundsAssumption` and, for the core, `CommandsAssumption`.

The first lemmas of that module are about `StateMachine`: every decision has the type the
core relies on (`TransitionType`). `MissionCore_proofs` proves that every handler of the core is a step of the life
cycle or a stutter, so all of the above holds for the core with any set of
commands and any queue capacity (`CoreIsSafe`). `MissionNode_proofs` does the same
for the node with every retry (`NodeIsSafe`).

For the core's own properties `MissionCore_proofs` proves `CoreSpec => []CoreIInv`, for
any commands and any capacity. `OneStory` says that record, status and queue of a mission
agree, which is not inductive: it depends on what the context, the command that is active
and the pending reset allow a handler to write. `CoreIInv` adds that (the queue within its capacity, in the order of
`CoreTypeOK`, only QUEUED missions in it, the active mission and no other with a running
status). The proof goes handler by handler; each handler is cut where the code cuts it,
into what the event does to the mission, what its end does to the queue, and what the
control's own status becomes, with a lemma for each (`...Keeps`, `...Good`). Activation drops
expired items until it finds one, so its lemma rests on there being a first: the library's
induction cannot be used, and a least counterexample takes its place. From the invariant
follow `CoreTypeCorrect`, `StoresAgree`, `FinalStatusStays` and
`QueueIsFair`.

What an execution is published as in the end (`StopDecides`, `SuccessIsReal`) and whether
the latch outlives a cleanup (`LatchIsKept`) depend on what `transition` remembers of the
request. `IntentFits` says what that is: a cancellation carries its pending outcome and, if
an ESTOP asked for it, a latched manager, until nothing is left to clean up. It is
proved of the life cycle (`IntentIsKept`) with one lemma for every way a context is written, and
`StepEnds` and `StepLatch` say of each handler of the core that it ends a mission as its
decision says, advancing the queue as it found it unless STOP or ESTOP has cleared it, and
unlatches only by a reset or an activation. `QueueIsAdvanced` also follows from `StepEnds`,
with `KeptIsUnexpired`: what expiry leaves of a queue is exactly what has not expired.

For the node `MissionNode_proofs` proves `NodeSpec => []NodeIInv`: a final status that is
shown is the stored one unless a late retry was refused since, a waiting mission is shown as
waiting, and only the active one as under way (`Shown`). A callback publishes one or
two commands but may change others; `Publishes(P)` says what it must leave alone outside P for
`Shown` to survive, and there is one lemma for each kind of callback that it does. The hard
one is a control: it is published alone if it was refused or ended the mission at once, so
the mission it ended must not have been shown under way, which is so because a request only
ends an execution at rest (`RequestEndsAtRest`). From `NodeIInv` follow `ShownIsCurrent`,
`OneShownRunning`, `ShownFinalStays` and `OutcomeIsShown`.

`RealNavigationAdapter_proofs` proves, for any number of goals, `AdapterSpec =>
[]AdapterIInv`, that the terminal event is what became of the goal (`EventMatchesResult`), that
a goal runs on unheard only after CANCEL_FAILED or a raised future
(`OnlyFailedCancelOrphans`), and that the adapter implements
`NavigationContract`. The invariant speaks of one goal at a time (`RecordFits`,
`EventFits`), so each action is treated once for the goal it is about; the refinement
has one case per action, with the invariant excluding the combinations (a result
before the acceptance, a confirmed cancellation nobody asked for) that the contract
does not allow. It assumes only `AdapterAssumption`.

`PhysicalCompletion_proofs` proves that the wrapped adapter is the adapter of that module
(`WrapsTheAdapter`), so all of the above holds inside it, then the invariant `PhysicalIInv`,
that what the core heard differs from what the adapter told only for a goal that was latched,
and from both that the wrapper keeps the contract (`PromiseIsKept`).

`CommandStore_proofs` proves, for any commands, messages and capacity, that the cache is
the end of the history of first final statuses (`StoreIInv`), and from it
`RetryTellsStory`, `EndIsKept` and the type invariant (`StoreTypeCorrect`). The invariant is needed because neither can be told from
the cache alone: an entry may be missing because it was evicted or because the
command has not ended. It assumes only `StoreAssumption`.

`HilBridge_proofs` proves, for any requests, sizes of history and memory and any number of
restarts, the invariant `HilIInv` and from it all four safety properties. `NothingIsLost` is the reason
for most of it: that moving `lastEventId` on skips no event needs the batch to be complete
up to its last event (`BatchIsComplete`), which needs the events to be numbered apart
(`EventsAreNumbered`); and that retries and restarts tell the truth needs every result on
its way, late ones included, to stem from an execution (`Origins`).

`VisualTargets_proofs` proves, for any ids, places, policies, batches of any length and any
bounds on the clock, `TargetsSpec => []TargetsIInv` and from it every safety property of the
run. A batch is a fold, so the invariant must hold between its observations: `Holds(reg, n,
p)` states `RegistryHoldsNewest` of any registry `reg` and the newest observations `n` so far,
together with the stamps that decide what is newer, and `UpdateHolds` says that one
observation keeps it. `BatchHolds` carries that to the end of the batch; the library's
induction cannot be used, so it takes the least prefix for which it fails. `ExpireHolds` adds the marks of
a lookup; that the marks stay when the clock is set back is why ids that were found expired
(`passed`) are part of the invariant. `SelectedIsFirst` shows that the choice among the
candidates exists and is the first of them, again by a least distance and then a least id,
and `CandidatesFit` that the candidates are exactly what is usable by the newest
observations (`GoalIsFirst`). `NoneIsMissed` needs the clock not to have been set back: only then does
time make targets expire and never the reverse. It assumes only `TargetsAssumption`.

### The safety part of the liveness properties

Liveness itself is out of the prover's reach (it has no ENABLED). What can be proved is
what each liveness property needs besides the fairness of section 3: that whoever waits has
something under way that ends the wait, and that nothing takes it away.

* `OwedAnswers`, `NoAnswerIsIgnored` (for `StartupSettles` and `CancellationSettles`): an
  execution that starts, acquires, finalizes or is canceled has a request under way, unless
  its goal ended first (`ResultWonRace`) or a cleanup step failed; and an answer that comes
  changes the context. The second follows from the invariant alone: the cleanup flags determine
  the lease, so a lease that moves moves the flags. For the first `Consistent` also says that a
  cancellation that is required and not confirmed was asked for, or is of a goal that is over;
  the proof attempt without this showed the STOP and ESTOP of section 3. Both hold under
  the core and the node (`CoreIsSafe`, `NodeIsSafe`).
* `GoalsAreWatched` (for `EndIsReported` and `CancelIsAnswered`): until its terminal event a
  goal has a future with a callback that the Facade completes, and one whose cancellation was
  asked for has one that ends with the cancellation (`NoGoalIsForgotten`), also when futures
  raise and when the core cancels from inside the acceptance. The invariant `WatchIInv` says which: the acceptance; then the result,
  unless a result CANCELED waits for the response to the request; and the response
  from the moment the request was sent. `NoGoalIsForgottenThroughout` is the same under
  `PhysicalCompletion`.
* `ReachedGoalsAreCanceled` (for `ReachedGoalSucceeds`): a goal under which a brush reached a
  pile has its cancellation asked for, in whatever state it was reached.
* `AcceptedAnswersArrive`, `NetworkThreadGoesOn`, `ResultsAreKept` (for `SubmitIsAnswered`, with
  `SubmissionsAreNotLost`): a result leaves the bridge only when the runner has it or with the bridge's
  own life, what the runner accepted was told the core or is in its queue, and the network
  thread never holds a batch without an event that comes first.
* `DeadlinesAreKept`, `WaitsAreBounded` (for `WaitEnds`): no batch, pose, PAUSE or RESUME gives a
  mission without a target more time, and it never has more than one wait.

Model-checked only: the liveness properties themselves (`StartupSettles`,
`CancellationSettles`, `CancelIsAnswered`, `EndIsReported`, `ReachedGoalSucceeds`, `WaitEnds`,
`SubmitIsAnswered`), on the bounds of section 3. Every safety invariant and action property of
a passing run is a theorem.

## 6. Plan

1. (done) `StateMachine`, `ExecutionLifecycle` with its proofs.
2. (done) `MissionCore` and `MissionNode` with their implementation proofs.
3. (done) `RealNavigationAdapter` against `NavigationContract`, with proofs.
4. (done) `CommandStore`: deduplication and the terminal cache, with proofs.
5. (done) `VisualTargets`: registry, selection, resolver and bridge, with proofs.
6. (done) `HilBridge`, with proofs; `PhysicalCompletion` around the adapter, with proofs.
7. (done) The core's invariants, for every instance.
8. (done) The outcomes, the latch and what the node shows, for every instance.
9. (done) The safety part of each liveness property, for every instance.
10. Open: the parts listed as not modelled in section 4.
