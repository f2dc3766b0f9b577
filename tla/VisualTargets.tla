--------------------------- MODULE VisualTargets ---------------------------
(***************************************************************************)
(* Visual targets: TargetRegistry (target_registry.py), TargetSelector,    *)
(* VisualTargetGoalResolver and VisualTargetRosBridge, with the one        *)
(* visual mission of the core that they find a target for.                 *)
(*                                                                         *)
(* Perception sends batches of observations, late, twice or in any order;  *)
(* each batch and each pose is followed by a retry of the waiting mission. *)
(* The ROS clock may be set back (clock.py).  Where a target is, is a      *)
(* number, and its distance is that to the robot's pose.                   *)
(***************************************************************************)
EXTENDS Integers, SequencesExt

CONSTANTS
  Ids,        \* target ids, in their order
  Places,
  MaxTime,    \* bound on the ROS clock
  MaxResets,  \* bound on how often the clock is set back
  Wait,       \* wait_timeout of the policy
  Policies,   \* target types that missions ask for
  Batches,    \* messages of perception
  NoTarget, NoPose

Times  == 0..MaxTime
States == { "UNKNOWN", "NEW", "CONFIRMED", "LOST", "EXPIRED", "INVALID" }
Types  == { "UNKNOWN", "LEAF", "LEAF_PILE", "PUDDLE", "BOTTLE_CAN", "PAPER_TRASH", "ANY" }
Gone   == { "LOST", "EXPIRED", "INVALID" }

Observations ==
  [ target_id: Ids, stamp: Times, valid_for: Times \ {0}, observation_state: States,
    target_type: Types, projection_valid: BOOLEAN, centroid: Places ]

ASSUME TargetsAssumption ==
  /\ Ids \subseteq Nat /\ Places \subseteq Nat
  /\ NoTarget \notin Ids \cup Observations /\ NoPose \notin Places
  /\ MaxTime \in Nat /\ MaxResets \in Nat /\ Wait \in Nat \ {0}
  /\ Policies \subseteq Types
  /\ Batches \subseteq Seq(Observations)

VARIABLES
  now,       \* the ROS clock
  resets,    \* how often it was set back
  registry,  \* _targets and _latest_stamp_ns, by id
  pose,      \* the latest valid pose, or NoPose
  mission,   \* the active visual mission
  newest,    \* history: by id the first of the newest observations received
  passed     \* history: ids whose newest observation a selection found expired

targetVars == <<now, resets, registry, pose, mission, newest, passed>>

\* The deadline matters while the mission has no target; it is driving, or paused, with
\* one.
Missions ==
  [ state: {"none", "waiting", "paused", "driving"},
    policy: Policies \cup {"none"},
    deadline: Nat,
    target: Ids \cup {NoTarget} ]

NoMission == [state |-> "none", policy |-> "none", deadline |-> 0, target |-> NoTarget]

TargetsInit ==
  /\ now = 0
  /\ resets = 0
  /\ registry = [targets |-> [i \in Ids |-> NoTarget], latest |-> [i \in Ids |-> -1]]
  /\ pose = NoPose
  /\ mission = NoMission
  /\ newest = [i \in Ids |-> NoTarget]
  /\ passed = {}

(***************************************************************************)
(* TargetRegistry.                                                         *)
(***************************************************************************)
\* Mutant: a target that is gone is forgotten together with its stamp.
UpdateForgetting(reg, o) ==
  IF o.stamp <= reg.latest[o.target_id] THEN reg
  ELSE IF o.observation_state \in Gone
    THEN [targets |-> [reg.targets EXCEPT ![o.target_id] = NoTarget],
          latest  |-> [reg.latest EXCEPT ![o.target_id] = -1]]
    ELSE [targets |-> [reg.targets EXCEPT ![o.target_id] = o],
          latest  |-> [reg.latest EXCEPT ![o.target_id] = o.stamp]]

\* Mutant: a target that is gone is stored like any other.
UpdateStoring(reg, o) ==
  IF o.stamp <= reg.latest[o.target_id] THEN reg
  ELSE [targets |-> [reg.targets EXCEPT ![o.target_id] = o],
        latest  |-> [reg.latest EXCEPT ![o.target_id] = o.stamp]]

\* A target that is gone leaves its stamp behind.
Update(reg, o) ==
  IF o.stamp <= reg.latest[o.target_id] THEN reg
  ELSE [targets |-> [reg.targets EXCEPT ![o.target_id] =
                       IF o.observation_state \in Gone THEN NoTarget ELSE o],
        latest  |-> [reg.latest EXCEPT ![o.target_id] = o.stamp]]

\* A batch with one invalid message changes nothing; an empty one clears nothing.
UpdateMany(reg, batch) == FoldLeft(Update, reg, batch)

\* Mutant: a target may still be used in the moment it expires.
IsExpiredAfter(o, time) == time > o.stamp + o.valid_for

IsExpired(o, time) == time >= o.stamp + o.valid_for

Stored(reg) == { reg.targets[i] : i \in Ids } \ {NoTarget}

\* Expired targets are marked, and stay so.
Expire(reg, time) ==
  [reg EXCEPT !.targets =
     [i \in Ids |->
        IF @[i] \in Stored(reg) /\ IsExpired(@[i], time)
        THEN [@[i] EXCEPT !.observation_state = "EXPIRED"] ELSE @[i]]]

Available(reg) ==
  { o \in Stored(reg) :
      /\ o.observation_state \in {"NEW", "CONFIRMED"}
      /\ o.projection_valid
      /\ o.target_type \notin {"UNKNOWN", "ANY"} }

(***************************************************************************)
(* TargetSelector, and the resolver's answer: a target or PendingGoal.     *)
(***************************************************************************)
Candidates(reg, policy) == { o \in Available(reg) : policy \in {"ANY", o.target_type} }

Distance(o, at) == IF o.centroid < at THEN at - o.centroid ELSE o.centroid - at

\* The nearest first, and of targets at the same distance the one of lower id.
Before(o, u, at) ==
  \/ Distance(o, at) < Distance(u, at)
  \/ Distance(o, at) = Distance(u, at) /\ o.target_id <= u.target_id

Selected(candidates, at) ==
  CHOOSE o \in candidates : \A u \in candidates : Before(o, u, at)

\* The resolver is called for mission m with the robot at `at`.  Without a pose nothing
\* is looked up.
Resolve(reg, m, at) ==
  IF at = NoPose
  THEN registry' = reg /\ mission' = m
  ELSE LET candidates == Candidates(Expire(reg, now), m.policy) IN
       /\ registry' = Expire(reg, now)
       /\ mission' = IF candidates = {} THEN m
                     ELSE [m EXCEPT !.state = "driving", !.deadline = 0,
                                    !.target = Selected(candidates, at).target_id]

\* The history: `looked` says that the resolver was called.
NotePassed(looked, at) ==
  passed' = { i \in Ids :
                /\ newest'[i] # NoTarget
                /\ \/ i \in passed /\ newest'[i] = newest[i]
                   \/ /\ looked /\ at # NoPose
                      /\ now >= newest'[i].stamp + newest'[i].valid_for }

(***************************************************************************)
(* The core: retry_waiting_goal_resolution, and the timeout it begins      *)
(* with.                                                                   *)
(***************************************************************************)
Waiting == mission.state = "waiting"
TimedOut == now >= mission.deadline

\* Mutant: a retry that finds nothing starts the wait anew.
RetryRenewing(reg, at) ==
  /\ NotePassed(Waiting /\ ~TimedOut, at)
  /\ \/ ~Waiting /\ registry' = reg /\ UNCHANGED mission
     \/ Waiting /\ TimedOut /\ registry' = reg /\ mission' = NoMission
     \/ Waiting /\ ~TimedOut /\ Resolve(reg, [mission EXCEPT !.deadline = now + Wait], at)

Retry(reg, at) ==
  /\ NotePassed(Waiting /\ ~TimedOut, at)
  /\ \/ ~Waiting /\ registry' = reg /\ UNCHANGED mission
     \/ Waiting /\ TimedOut /\ registry' = reg /\ mission' = NoMission
     \/ Waiting /\ ~TimedOut /\ Resolve(reg, mission, at)

\* _activate_next for a visual task.  (Bound: the deadline is on the clock.)
Activate(policy) ==
  /\ mission = NoMission
  /\ now + Wait <= MaxTime
  /\ Resolve(registry, [NoMission EXCEPT !.state = "waiting", !.policy = policy,
                                         !.deadline = now + Wait], pose)
  /\ UNCHANGED <<now, resets, pose, newest>>
  /\ NotePassed(TRUE, pose)

\* PAUSE; while the goal is driven to, once it is canceled.  The deadline stays.
Pause ==
  /\ mission.state \in {"waiting", "driving"}
  /\ mission' = [mission EXCEPT !.state = "paused"]
  /\ UNCHANGED <<now, resets, registry, pose, newest, passed>>

\* RESUME reuses the frozen goal, or asks the resolver, whatever the deadline.
Resume ==
  /\ mission.state = "paused"
  /\ UNCHANGED <<now, resets, pose, newest>>
  /\ \/ /\ mission.target # NoTarget
        /\ mission' = [mission EXCEPT !.state = "driving"]
        /\ UNCHANGED <<registry, passed>>
     \/ /\ mission.target = NoTarget
        /\ Resolve(registry, [mission EXCEPT !.state = "waiting"], pose)
        /\ NotePassed(TRUE, pose)

\* The execution ends for a reason other than the timeout.
MissionEnds ==
  /\ mission # NoMission
  /\ mission' = NoMission
  /\ UNCHANGED <<now, resets, registry, pose, newest, passed>>

(***************************************************************************)
(* VisualTargetRosBridge.                                                  *)
(***************************************************************************)
Newer(n, o) ==
  IF n[o.target_id] = NoTarget \/ n[o.target_id].stamp < o.stamp
  THEN [n EXCEPT ![o.target_id] = o] ELSE n

NoteNewest(batch) == newest' = FoldLeft(Newer, newest, batch)

ReceiveTargets(batch) ==
  /\ NoteNewest(batch)
  /\ UNCHANGED <<now, resets, pose>>
  /\ Retry(UpdateMany(registry, batch), pose)

\* Mutant: a new pose is only stored.
ReceivePoseQuietly(place) ==
  /\ pose' = place
  /\ UNCHANGED <<now, resets, registry, mission, newest, passed>>

\* An invalid pose changes nothing.
ReceivePose(place) ==
  /\ pose' = place
  /\ UNCHANGED <<now, resets, newest>>
  /\ Retry(registry, place)

\* The timer polls the deadline only.
Timer ==
  /\ Waiting /\ TimedOut
  /\ mission' = NoMission
  /\ UNCHANGED <<now, resets, registry, pose, newest, passed>>

Tick ==
  /\ now < MaxTime
  /\ now' = now + 1
  /\ UNCHANGED <<resets, registry, pose, mission, newest, passed>>

ClockSetBack ==
  /\ resets < MaxResets
  /\ \E time \in Times : time < now /\ now' = time
  /\ resets' = resets + 1
  /\ UNCHANGED <<registry, pose, mission, newest, passed>>

TargetsNext ==
  \/ \E policy \in Policies : Activate(policy)
  \/ Pause
  \/ Resume
  \/ MissionEnds
  \/ \E batch \in Batches : ReceiveTargets(batch)
  \/ \E place \in Places : ReceivePose(place)
  \/ Timer
  \/ Tick
  \/ ClockSetBack

TargetsSpec == TargetsInit /\ [][TargetsNext]_targetVars

\* The clock runs and the executor runs the bridge's timer.
FairTargetsSpec == TargetsSpec /\ WF_targetVars(Tick) /\ WF_targetVars(Timer)

-----------------------------------------------------------------------------
\* The type invariant; what is stored is neither lost nor invalid.
TargetsTypeOK ==
  /\ now \in Times
  /\ resets \in 0..MaxResets
  /\ registry.targets \in [Ids -> Observations \cup {NoTarget}]
  /\ \A o \in Stored(registry) : o.observation_state \notin {"LOST", "INVALID"}
  /\ registry.latest \in [Ids -> Times \cup {-1}]
  /\ pose \in Places \cup {NoPose}
  /\ mission \in Missions

\* However observations are delayed, repeated or reordered, the registry holds the
\* newest of each target, nothing if that says that the target is gone, and the mark
\* of one that a selection found expired.
RegistryHoldsNewest ==
  \A i \in Ids :
    registry.targets[i] =
      IF newest[i] = NoTarget THEN NoTarget
      ELSE IF newest[i].observation_state \in Gone THEN NoTarget
      ELSE IF i \in passed THEN [newest[i] EXCEPT !.observation_state = "EXPIRED"]
      ELSE newest[i]

\* What a mission may be driven to: by its newest observation it is there, of the type
\* asked for and not expired, and it was not found expired before the clock was set
\* back.
Usable(i, policy) ==
  /\ i \notin passed'
  /\ newest'[i] # NoTarget
  /\ newest'[i].observation_state \in {"NEW", "CONFIRMED"}
  /\ newest'[i].projection_valid
  /\ newest'[i].target_type \notin {"UNKNOWN", "ANY"}
  /\ policy \in {"ANY", newest'[i].target_type}
  /\ now < newest'[i].stamp + newest'[i].valid_for

\* A goal that is frozen is the first usable target at that moment.
GoalIsCurrent ==
  [][mission.target = NoTarget /\ mission'.target # NoTarget =>
       /\ pose' # NoPose
       /\ Usable(mission'.target, mission'.policy)
       /\ \A i \in Ids : Usable(i, mission'.policy) =>
            Before(newest'[mission'.target], newest'[i], pose')]_targetVars

\* A mission does not wait while there is a target for it: each thing that may make
\* one usable (a batch, a pose, RESUME) is followed by a lookup, and time only makes
\* fewer usable, unless the clock was set back.
NoTargetIsMissed ==
  mission.state = "waiting" /\ pose # NoPose /\ resets = 0 =>
    Candidates(Expire(registry, now), mission.policy) = {}

\* No mission waits for ever, however many batches and poses come in.
WaitEnds == mission.state = "waiting" ~> mission.state # "waiting"

(***************************************************************************)
(* The inductive invariant.  Holds is RegistryHoldsNewest for any registry *)
(* `reg`, newest observations `n` and ids `p` that were found expired, as  *)
(* they are between two observations of a batch, together with the stamps  *)
(* that decide which observation is newer.                                 *)
(***************************************************************************)
Held(o, isPassed) ==
  IF o = NoTarget \/ o.observation_state \in Gone THEN NoTarget
  ELSE IF isPassed THEN [o EXCEPT !.observation_state = "EXPIRED"] ELSE o

IsNewest(n) ==
  /\ n \in [Ids -> Observations \cup {NoTarget}]
  /\ \A i \in Ids : n[i] # NoTarget => n[i].target_id = i

Holds(reg, n, p) ==
  /\ reg \in [targets: [Ids -> Observations \cup {NoTarget}],
              latest: [Ids -> Times \cup {-1}]]
  /\ \A i \in Ids :
       /\ reg.latest[i] = IF n[i] = NoTarget THEN -1 ELSE n[i].stamp
       /\ reg.targets[i] = Held(n[i], i \in p)

\* A mission has a target from its freezing to its end.
MissionFits ==
  /\ mission \in Missions
  /\ mission.state = "none" => mission = NoMission
  /\ mission.state = "waiting" => mission.target = NoTarget
  /\ mission.state = "driving" => mission.target # NoTarget

TargetsIInv ==
  /\ now \in Times
  /\ resets \in 0..MaxResets
  /\ pose \in Places \cup {NoPose}
  /\ IsNewest(newest)
  /\ passed \subseteq { i \in Ids : newest[i] # NoTarget }
  /\ Holds(registry, newest, passed)
  /\ MissionFits
  /\ NoTargetIsMissed

(***************************************************************************)
(* What WaitEnds rests on, with the fairness of the clock and of the       *)
(* bridge's timer.                                                         *)
(***************************************************************************)
\* Nothing that comes in while a mission has no target, and no PAUSE and RESUME, gives it
\* more time.
DeadlineIsKept ==
  [][mission # NoMission /\ mission.target = NoTarget
       /\ mission' # NoMission /\ mission'.target = NoTarget =>
         mission'.deadline = mission.deadline]_targetVars

\* Unless the clock was set back, the deadline is no more than one wait ahead.
WaitIsBounded == resets = 0 => mission.deadline <= now + Wait
=============================================================================
