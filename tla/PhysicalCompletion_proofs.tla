---------------------- MODULE PhysicalCompletion_proofs ----------------------
(***************************************************************************)
(* The showcase's adapter keeps the promise of the one it wraps, and what  *)
(* it reports as a success is one, for any number of goals.                *)
(***************************************************************************)
EXTENDS PhysicalCompletion, RealNavigationAdapter_proofs

\* Each step is a step of the wrapped adapter.
LEMMA StepIsAdapterStep == [PhysicalNext]_physVars => [AdapterNext]_navVars
BY DEF PhysicalNext, physVars, PhysicalSubmitGoal, PhysicalCancelGoal, OnPhysicalPoses,
       PhysicalCallback, CallbackRuns, FacadeActs, AdapterNext

\* The showcase's adapter is a RealNavigationAdapter: what holds of the one holds of the
\* adapter it wraps.
THEOREM WrapsTheAdapter == PhysicalSpec => AdapterSpec
<1>1. PhysicalInit => AdapterInit
  BY DEF PhysicalInit
<1> QED BY <1>1, StepIsAdapterStep, PTL DEF PhysicalSpec, AdapterSpec

LEMMA WrappedInvariant == PhysicalSpec => []AdapterIInv
BY WrapsTheAdapter, AdapterInvariant

-----------------------------------------------------------------------------
(***************************************************************************)
(* What a step does to the goal it is about, and to the monitor.           *)
(***************************************************************************)
\* How a step passes events on: for a new goal, for the active one, or under a
\* brush that reached a pile.
Passes(h, current, latch) ==
  /\ PassOn(current, latch)
  /\ latched' = latch
  /\ \/ /\ h \notin submitted /\ h \in submitted'
        /\ current = h /\ latch = NoHandle /\ reached' = reached
     \/ current = active /\ latch = latched /\ reached' = reached
     \/ /\ h \in submitted
        /\ current = active /\ active = h /\ latch = h /\ reached' = reached \cup {h}

Stays == UNCHANGED <<active, latched, heard, reached, told>>

LEMMA StepShape ==
  ASSUME AdapterIInv, PhysicalTypeOK, PhysicalNext
  PROVE  \E h \in Handles :
           /\ ContractMove(h) /\ OnlyTouches(h)
           /\ submitted \subseteq submitted'
           /\ facade[h] \in ResultStates => facade'[h] = facade[h]
           /\ \/ \E current, latch \in Handles \cup {NoHandle} :
                   Passes(h, current, latch)
              \/ Stays
<1>1. PICK h \in Handles :
        \/ PhysicalSubmitGoal(h) \/ PhysicalCancelGoal(h) \/ OnPhysicalPoses(h)
        \/ PhysicalCallback(h) \/ FacadeActs(h)
  BY DEF PhysicalNext
<1>2. active \in Handles \cup {NoHandle} /\ latched \in Handles \cup {NoHandle}
  BY DEF PhysicalTypeOK
<1>3. CASE PhysicalSubmitGoal(h)
  <2>1. SubmitGoal(h) /\ Passes(h, h, NoHandle)
    BY <1>3 DEF PhysicalSubmitGoal, SubmitGoal, Passes
  <2>2. facade[h] = "none"
    BY <2>1 DEF SubmitGoal, AdapterIInv, NotSubmittedYet
  <2>3. submitted \subseteq submitted' BY <2>1 DEF SubmitGoal
  <2> QED BY <2>1, <2>2, <2>3, SubmitMoves DEF ResultStates
<1>4. CASE PhysicalCancelGoal(h)
  <2>1. CancelGoal(h) /\ Passes(h, active, latched)
    BY <1>4 DEF PhysicalCancelGoal, Passes
  <2>2. UNCHANGED <<submitted, facade>> BY <2>1 DEF CancelGoal
  <2> QED BY <1>2, <2>1, <2>2, CancelGoalMoves
<1>5. CASE OnPhysicalPoses(h)
  <2>1. CancelGoal(h) /\ Passes(h, h, h)
    BY <1>5 DEF OnPhysicalPoses, Latch, CancelGoal, Passes
  <2>2. UNCHANGED <<submitted, facade>> BY <2>1 DEF CancelGoal
  <2> QED BY <2>1, <2>2, CancelGoalMoves
<1>6. CASE PhysicalCallback(h)
  <2>1. CallbackRuns(h) /\ Passes(h, active, latched)
    BY <1>6 DEF PhysicalCallback, Passes
  <2>2. UNCHANGED <<submitted, facade>>
    BY <2>1 DEF CallbackRuns, GoalResponse, AfterAccepted, Result, CancelResponse,
               facadeVars
  <2>3. ContractMove(h) /\ OnlyTouches(h)
    BY <2>1, GoalResponseMoves, AfterAcceptedMoves, ResultMoves, CancelResponseMoves
       DEF CallbackRuns
  <2> QED BY <1>2, <2>1, <2>2, <2>3
<1>7. CASE FacadeActs(h)
  <2>1. /\ FacadeDecides(h) \/ FacadeEnds(h) \/ FacadeAnswersCancel(h)
        /\ Stays /\ submitted' = submitted
    BY <1>7 DEF FacadeActs, FacadeDecides, FacadeEnds, FacadeAnswersCancel,
               adapterVars, Stays
  <2>2. facade[h] \in ResultStates => facade'[h] = facade[h]
    BY <2>1 DEF FacadeDecides, FacadeEnds, FacadeAnswersCancel, ResultStates
  <2> QED BY <2>1, <2>2, FacadeMoves
<1> QED BY <1>1, <1>3, <1>4, <1>5, <1>6, <1>7

\* Only an open goal ends, and of all goals only the one the step is about.
LEMMA OnlyOpenEnds ==
  ASSUME AdapterIInv, NEW h \in Handles, ContractMove(h), OnlyTouches(h),
         NEW g \in Handles, Ends(g)
  PROVE  /\ g = h
         /\ told[g] = "none"
         /\ told'[g] \in Contract!TerminalEvents
<1>1. g = h BY DEF Ends, OnlyTouches
<1>2. Status(h) \in {"none", "sent", "accepted"} /\ told'[h] \in Contract!TerminalEvents
  BY <1>1 DEF Ends, ContractMove, SameTold, Contract!TerminalEvents
<1>3. h \notin submitted => told[h] = "none"
  BY DEF AdapterIInv, NotSubmittedYet
<1> QED BY <1>1, <1>2, <1>3 DEF Status

\* An event that is turned into a success: the goal is over in the Facade.
LEMMA MappedIsOver ==
  ASSUME AdapterIInv', NEW g \in Handles, NEW current, NEW latch,
         NEW event, event = told'[g], Mapped(g, event, current, latch) # event
  PROVE  /\ Mapped(g, event, current, latch) = "SUCCEEDED"
         /\ g = current /\ g = latch
         /\ event \in {"CANCEL_CONFIRMED", "FAILED"}
         /\ facade'[g] \in {"CANCELED", "ABORTED"}
<1>1. /\ Mapped(g, event, current, latch) = "SUCCEEDED"
      /\ g = current /\ g = latch
      /\ event = "CANCEL_CONFIRMED" \/ (event = "FAILED" /\ Aborted(g))
  BY DEF Mapped
<1>2. RecordFits(g)' /\ EventFits(g)'
  BY DEF AdapterIInv
<1>3. event = "CANCEL_CONFIRMED" => facade'[g] = "CANCELED"
  BY <1>2 DEF EventFits
<1>4. Aborted(g) => facade'[g] = "ABORTED"
  BY <1>2 DEF RecordFits, Aborted
<1> QED BY <1>1, <1>3, <1>4

-----------------------------------------------------------------------------
(***************************************************************************)
(* The invariant of the monitor.                                           *)
(***************************************************************************)
LEMMA PhysicalInitFits == PhysicalInit => PhysicalIInv
<1> SUFFICES ASSUME PhysicalInit PROVE PhysicalIInv
  OBVIOUS
<1>1. PhysicalTypeOK BY DEF PhysicalInit, PhysicalTypeOK
<1>2. MonitorFits BY DEF PhysicalInit, MonitorFits
<1>3. ASSUME NEW h \in Handles PROVE HeardFits(h)
  BY DEF PhysicalInit, AdapterInit, HeardFits
<1> QED BY <1>1, <1>2, <1>3 DEF PhysicalIInv

LEMMA PassingFits ==
  ASSUME AdapterIInv, AdapterIInv', PhysicalIInv, NEW h \in Handles,
         ContractMove(h), OnlyTouches(h), submitted \subseteq submitted',
         facade[h] \in ResultStates => facade'[h] = facade[h],
         NEW current \in Handles \cup {NoHandle}, NEW latch \in Handles \cup {NoHandle},
         Passes(h, current, latch)
  PROVE  PhysicalIInv'
<1>1. /\ PhysicalTypeOK /\ MonitorFits
      /\ \A g \in Handles : HeardFits(g) /\ told'[g] \in {"none"} \cup Contract!TerminalEvents
  BY DEF PhysicalIInv, AdapterIInv, AdapterTypeOK
<1>2. /\ PassOn(current, latch) /\ latched' = latch
      /\ reached \subseteq reached' /\ reached' \subseteq reached \cup {h}
      /\ latch # NoHandle => latch \in reached'
  BY <1>1 DEF Passes, MonitorFits
<1>3. PhysicalTypeOK'
  <2>1. ASSUME NEW g \in Handles
        PROVE  Mapped(g, told'[g], current, latch) \in {"none"} \cup Contract!TerminalEvents
    BY <1>1 DEF Mapped, Contract!TerminalEvents
  <2>2. heard' \in [Handles -> {"none"} \cup Contract!TerminalEvents]
    BY <1>1, <1>2, <2>1 DEF PassOn, PhysicalTypeOK
  <2> QED BY <1>1, <1>2, <2>2 DEF PassOn, PhysicalTypeOK
<1>4. ASSUME NEW g \in Handles PROVE HeardFits(g)'
  <2>1. CASE ~Ends(g)
    <3>1. heard'[g] = heard[g] /\ told'[g] = told[g] BY <1>2, <2>1 DEF PassOn, Ends
    <3>2. facade[g] \in ResultStates => facade'[g] = facade[g] BY DEF OnlyTouches
    <3> QED BY <1>1, <1>2, <3>1, <3>2 DEF HeardFits, ResultStates
  <2>2. CASE Ends(g)
    <3>1. /\ heard'[g] = Mapped(g, told'[g], current, latch)
          /\ told'[g] \in Contract!TerminalEvents
      BY <1>2, <2>2, OnlyOpenEnds DEF PassOn
    <3>2. CASE heard'[g] = told'[g]
      BY <3>1, <3>2 DEF HeardFits, Contract!TerminalEvents
    <3>3. CASE heard'[g] # told'[g]
      <4>1. /\ heard'[g] = "SUCCEEDED" /\ g = latch
            /\ facade'[g] \in {"CANCELED", "ABORTED"}
        BY <3>1, <3>3, MappedIsOver
      <4>2. g \in reached' BY <1>2, <4>1, AdapterAssumption
      <4> QED BY <3>1, <4>1, <4>2 DEF HeardFits, Contract!TerminalEvents
    <3> QED BY <3>2, <3>3
  <2> QED BY <2>1, <2>2
<1>5. MonitorFits'
  <2>1. current # NoHandle => current \in submitted' /\ told[current] = "none"
    BY <1>1 DEF Passes, MonitorFits, AdapterIInv, NotSubmittedYet
  <2>2. active' # NoHandle => active' = current /\ told'[active'] = "none"
    BY <1>2, <2>1 DEF PassOn, Ends
  <2>3. reached' \subseteq submitted' BY <1>1 DEF Passes, MonitorFits
  <2>4. current # NoHandle /\ current \in reached' => latch = current
    BY <1>1 DEF Passes, MonitorFits
  <2> QED BY <1>2, <2>1, <2>2, <2>3, <2>4 DEF MonitorFits
<1> QED BY <1>3, <1>4, <1>5 DEF PhysicalIInv

LEMMA StayingFits ==
  ASSUME PhysicalIInv, NEW h \in Handles, OnlyTouches(h), Stays,
         submitted \subseteq submitted',
         facade[h] \in ResultStates => facade'[h] = facade[h]
  PROVE  PhysicalIInv'
<1>1. /\ PhysicalTypeOK /\ MonitorFits /\ \A g \in Handles : HeardFits(g)
      /\ UNCHANGED active /\ UNCHANGED latched /\ UNCHANGED heard
      /\ UNCHANGED reached /\ UNCHANGED told
  BY DEF PhysicalIInv, Stays
<1>2. PhysicalTypeOK' BY <1>1 DEF PhysicalTypeOK
<1>3. MonitorFits' BY <1>1 DEF MonitorFits
<1>4. ASSUME NEW g \in Handles PROVE HeardFits(g)'
  <2>1. facade[g] \in ResultStates => facade'[g] = facade[g] BY DEF OnlyTouches
  <2> QED BY <1>1, <2>1 DEF HeardFits, ResultStates
<1> QED BY <1>2, <1>3, <1>4 DEF PhysicalIInv

LEMMA PhysicalNextFits ==
  ASSUME AdapterIInv, AdapterIInv', PhysicalIInv, [PhysicalNext]_physVars
  PROVE  PhysicalIInv'
<1>1. CASE UNCHANGED physVars
  BY <1>1 DEF physVars, navVars, adapterVars, facadeVars, PhysicalIInv, PhysicalTypeOK,
             MonitorFits, HeardFits
<1>2. CASE PhysicalNext
  BY <1>2, StepShape, PassingFits, StayingFits DEF PhysicalIInv
<1> QED BY <1>1, <1>2

\* The monitor's latch and what the core heard fit the wrapped adapter's records.
THEOREM PhysicalInvariant == PhysicalSpec => []PhysicalIInv
BY PhysicalInitFits, PhysicalNextFits, WrappedInvariant, PTL DEF PhysicalSpec

\* The state has the declared types.
THEOREM PhysicalTypeCorrect == PhysicalSpec => []PhysicalTypeOK
<1>1. PhysicalIInv => PhysicalTypeOK BY DEF PhysicalIInv
<1> QED BY <1>1, PhysicalInvariant, PTL

\* A success the core is told of is the goal's own, or the brush's and the goal is over.
THEOREM CompletionsAreEarned == PhysicalSpec => []CompletionIsEarned
<1>1. ASSUME AdapterIInv, PhysicalIInv PROVE CompletionIsEarned
  <2>1. SUFFICES ASSUME NEW h \in Handles, heard[h] = "SUCCEEDED"
                 PROVE  \/ facade[h] = "SUCCEEDED"
                        \/ h \in reached /\ facade[h] \in {"CANCELED", "ABORTED"}
    BY DEF CompletionIsEarned
  <2>2. HeardFits(h) /\ EventFits(h) BY <1>1 DEF PhysicalIInv, AdapterIInv
  <2> QED BY <2>1, <2>2 DEF HeardFits, EventFits
<1> QED BY <1>1, WrappedInvariant, PhysicalInvariant, PTL

-----------------------------------------------------------------------------
(***************************************************************************)
(* The steps.                                                              *)
(***************************************************************************)
LEMMA StepMapsOwnCancel ==
  ASSUME AdapterIInv, PhysicalIInv, [PhysicalNext]_physVars, NEW h \in Handles,
         heard[h] = "none", heard'[h] = "CANCEL_CONFIRMED", active = h
  PROVE  h \notin reached'
<1>1. PhysicalNext BY DEF physVars
<1>2. PICK g \in Handles :
        /\ ContractMove(g) /\ OnlyTouches(g)
        /\ \/ \E current, latch \in Handles \cup {NoHandle} : Passes(g, current, latch)
           \/ Stays
  BY <1>1, StepShape DEF PhysicalIInv
<1>3. PICK current \in Handles \cup {NoHandle}, latch \in Handles \cup {NoHandle} :
        Passes(g, current, latch)
  BY <1>2 DEF Stays
<1>4. PassOn(current, latch) BY <1>3 DEF Passes
<1>5. Ends(h) /\ heard'[h] = Mapped(h, told'[h], current, latch)
  BY <1>4 DEF PassOn
<1>6. g = h BY <1>2, <1>5, OnlyOpenEnds
<1>7. h \in submitted /\ (h \in reached => latched = h)
  BY AdapterAssumption DEF PhysicalIInv, MonitorFits
<1>8. current = h /\ (h \in reached' => latch = h)
  BY <1>3, <1>6, <1>7 DEF Passes
<1>9. latch # h BY <1>5, <1>8 DEF Mapped
<1> QED BY <1>8, <1>9

\* The core does not hear of a cancellation that the monitor asked for.
THEOREM OwnCancelsAreSuccesses == PhysicalSpec => OwnCancelIsSuccess
<1>1. AdapterIInv /\ PhysicalIInv /\ [PhysicalNext]_physVars
        => [\A h \in Handles :
              heard[h] = "none" /\ heard'[h] = "CANCEL_CONFIRMED" /\ active = h =>
                h \notin reached']_physVars
  BY StepMapsOwnCancel
<1> QED
  BY <1>1, WrappedInvariant, PhysicalInvariant, PTL
     DEF PhysicalSpec, OwnCancelIsSuccess

\* What the core hears of a goal fits what the wrapped adapter told of it.
HeardMove(h) ==
  /\ heard' = [heard EXCEPT ![h] = heard'[h]]
  /\ SameTold(h) => heard' = heard
  /\ heard'[h] # told'[h] /\ ~SameTold(h) =>
       /\ heard'[h] = "SUCCEEDED"
       /\ told'[h] \in {"CANCEL_CONFIRMED", "FAILED"}
       /\ Status(h)' = "over"

LEMMA PassingIsHeardMove ==
  ASSUME AdapterIInv, AdapterIInv', PhysicalIInv, NEW h \in Handles,
         ContractMove(h), OnlyTouches(h),
         NEW current \in Handles \cup {NoHandle}, NEW latch \in Handles \cup {NoHandle},
         Passes(h, current, latch)
  PROVE  HeardMove(h)
<1>1. PassOn(current, latch) /\ heard \in [Handles -> {"none"} \cup Contract!TerminalEvents]
  BY DEF Passes, PhysicalIInv, PhysicalTypeOK
<1>2. \A g \in Handles \ {h} : ~Ends(g) BY DEF Ends, OnlyTouches
<1>3. heard' = [heard EXCEPT ![h] = heard'[h]] BY <1>1, <1>2 DEF PassOn
<1>4. SameTold(h) => heard' = heard BY <1>1, <1>2 DEF PassOn, Ends, SameTold
<1>5. ASSUME heard'[h] # told'[h], ~SameTold(h)
      PROVE  /\ heard'[h] = "SUCCEEDED"
             /\ told'[h] \in {"CANCEL_CONFIRMED", "FAILED"}
             /\ Status(h)' = "over"
  <2>1. Ends(h) /\ heard'[h] = Mapped(h, told'[h], current, latch)
    BY <1>1, <1>5 DEF PassOn, Ends, SameTold
  <2>2. /\ heard'[h] = "SUCCEEDED"
        /\ told'[h] \in {"CANCEL_CONFIRMED", "FAILED"}
        /\ facade'[h] \in {"CANCELED", "ABORTED"}
    BY <1>5, <2>1, MappedIsOver
  <2>3. h \in submitted' BY <2>2 DEF AdapterIInv, NotSubmittedYet
  <2> QED BY <2>2, <2>3 DEF Status, RunningStates
<1> QED BY <1>3, <1>4, <1>5 DEF HeardMove

\* A move of one goal is a step of the contract for what is heard, too.
LEMMA HeardMoveIsStep ==
  ASSUME AdapterIInv, PhysicalTypeOK, NEW h \in Handles,
         ContractMove(h), OnlyTouches(h), HeardMove(h)
  PROVE  [PhysicalContract!ContractNext]_(PhysicalContract!contractVars)
<1>1. /\ goalStatus[h] = Status(h)
      /\ goalStatus' = [goalStatus EXCEPT ![h] = Status(h)']
  BY DEF goalStatus, Status, OnlyTouches
<1>2. /\ h \in cancelsAsked <=> Asked(h)
      /\ SameAsked(h) => cancelsAsked' = cancelsAsked
      /\ Asked(h)' => cancelsAsked' = cancelsAsked \cup {h}
  BY DEF cancelsAsked, Asked, SameAsked, OnlyTouches
<1>3. Status(h)' = Status(h) => goalStatus' = goalStatus
  BY <1>1 DEF goalStatus
<1>4. Status(h) \in {"none", "sent", "accepted"} => told[h] = "none"
  BY DEF Status, AdapterIInv, NotSubmittedYet
<1>5. heard' = [heard EXCEPT ![h] = heard'[h]] /\ (SameTold(h) => heard' = heard)
  BY DEF HeardMove
<1> USE DEF PhysicalContract!ContractNext, PhysicalContract!Tell
<1>6. CASE Status(h)' = Status(h) /\ SameAsked(h) /\ SameTold(h)
  BY <1>2, <1>3, <1>5, <1>6 DEF PhysicalContract!contractVars
<1>7. CASE /\ Status(h) = "none" /\ Status(h)' = "sent"
           /\ SameAsked(h) /\ SameTold(h)
  BY <1>1, <1>2, <1>5, <1>7 DEF PhysicalContract!Submit
<1>8. CASE /\ Status(h) \in {"sent", "accepted"} /\ Status(h)' = Status(h)
           /\ Asked(h)' /\ SameTold(h)
  BY <1>1, <1>2, <1>3, <1>5, <1>8 DEF PhysicalContract!Cancel
<1>9. CASE /\ Status(h) = "sent" /\ Status(h)' = "accepted"
           /\ SameAsked(h) /\ SameTold(h)
  BY <1>1, <1>2, <1>5, <1>9 DEF PhysicalContract!Accept
<1>10. CASE /\ Status(h) \in {"none", "sent"} /\ Status(h)' = "over"
            /\ SameAsked(h) /\ told'[h] = "GOAL_REJECTED"
  <2>1. heard'[h] = "GOAL_REJECTED" BY <1>4, <1>10 DEF HeardMove, SameTold
  <2> QED BY <1>1, <1>2, <1>5, <1>10, <2>1 DEF PhysicalContract!Reject
<1>11. CASE /\ Status(h) = "accepted" /\ Status(h)' = "over"
            /\ SameAsked(h) /\ told'[h] \in {"SUCCEEDED", "FAILED"}
  <2>1. heard'[h] \in {"SUCCEEDED", "FAILED"} BY <1>4, <1>11 DEF HeardMove, SameTold
  <2> QED BY <1>1, <1>2, <1>5, <1>11, <2>1 DEF PhysicalContract!Finish
<1>12. CASE /\ Status(h) = "accepted" /\ Status(h)' = "over"
            /\ SameAsked(h) /\ Asked(h) /\ told'[h] = "CANCEL_CONFIRMED"
  <2>1. heard'[h] \in {"CANCEL_CONFIRMED", "SUCCEEDED"}
    BY <1>4, <1>12 DEF HeardMove, SameTold
  <2>2. CASE heard'[h] = "CANCEL_CONFIRMED"
    BY <1>1, <1>2, <1>5, <1>12, <2>2 DEF PhysicalContract!ConfirmCancel
  <2>3. CASE heard'[h] = "SUCCEEDED"
    BY <1>1, <1>2, <1>5, <1>12, <2>3 DEF PhysicalContract!Finish
  <2> QED BY <2>1, <2>2, <2>3
<1>13. CASE /\ Status(h) = "accepted" /\ Status(h)' \in {"orphaned", "over"}
            /\ Asked(h)' /\ told'[h] = "CANCEL_FAILED"
  <2>1. heard'[h] = "CANCEL_FAILED" BY <1>4, <1>13 DEF HeardMove, SameTold
  <2> QED BY <1>1, <1>2, <1>5, <1>13, <2>1 DEF PhysicalContract!FailCancel
<1>14. CASE /\ Status(h) = "orphaned" /\ Status(h)' = "over"
            /\ SameAsked(h) /\ SameTold(h)
  BY <1>1, <1>2, <1>5, <1>14 DEF PhysicalContract!OrphanEnds
<1>15. CASE /\ FuturesMayRaise
            /\ Status(h) \in {"none", "sent", "accepted"} /\ Status(h)' = "orphaned"
            /\ SameAsked(h) /\ told'[h] \in {"GOAL_REJECTED", "FAILED"}
  <2>1. heard'[h] \in {"GOAL_REJECTED", "FAILED"}
    BY <1>4, <1>15 DEF HeardMove, SameTold
  <2> QED BY <1>1, <1>2, <1>5, <1>15, <2>1 DEF PhysicalContract!Lose
<1>16. Asked(h) /\ Asked(h)' => SameAsked(h)
  <2>1. record[h] \in Records BY DEF AdapterIInv, AdapterTypeOK
  <2> QED BY <2>1 DEF Asked, SameAsked, Records
<1> QED
  BY <1>6, <1>7, <1>8, <1>9, <1>10, <1>11, <1>12, <1>13, <1>14, <1>15, <1>16
     DEF ContractMove

LEMMA StepKeepsPromise ==
  ASSUME AdapterIInv, AdapterIInv', PhysicalIInv, [PhysicalNext]_physVars
  PROVE  [PhysicalContract!ContractNext]_(PhysicalContract!contractVars)
<1>1. CASE UNCHANGED physVars
  BY <1>1 DEF physVars, navVars, adapterVars, facadeVars, goalStatus, cancelsAsked,
             PhysicalContract!contractVars
<1>2. CASE PhysicalNext
  <2>1. PICK h \in Handles :
          /\ ContractMove(h) /\ OnlyTouches(h)
          /\ \/ \E current, latch \in Handles \cup {NoHandle} : Passes(h, current, latch)
             \/ Stays
    BY <1>2, StepShape DEF PhysicalIInv
  <2>2. HeardMove(h)
    <3>1. CASE Stays
      <4>1. UNCHANGED heard /\ UNCHANGED told BY <3>1 DEF Stays
      <4> QED BY <4>1 DEF HeardMove, SameTold, PhysicalIInv, PhysicalTypeOK
    <3>2. CASE \E current, latch \in Handles \cup {NoHandle} : Passes(h, current, latch)
      BY <2>1, <3>2, PassingIsHeardMove
    <3> QED BY <2>1, <3>1, <3>2
  <2> QED BY <2>1, <2>2, HeardMoveIsStep DEF PhysicalIInv
<1> QED BY <1>1, <1>2

LEMMA PhysicalInitIsContractInit == PhysicalInit => PhysicalContract!ContractInit
BY DEF PhysicalInit, AdapterInit, PhysicalContract!ContractInit, goalStatus, cancelsAsked,
       NewRecord

\* The wrapped adapter keeps its promise to the core, with the monitor asking for
\* cancellations of its own.
THEOREM PromiseIsKept == PhysicalSpec => KeepsPromise
<1>1. AdapterIInv /\ AdapterIInv' /\ PhysicalIInv /\ [PhysicalNext]_physVars
        => [PhysicalContract!ContractNext]_(PhysicalContract!contractVars)
  BY StepKeepsPromise
<1> QED
  BY <1>1, PhysicalInitIsContractInit, WrappedInvariant, PhysicalInvariant, PTL
     DEF PhysicalSpec, KeepsPromise, PhysicalContract!ContractSpec

-----------------------------------------------------------------------------
(***************************************************************************)
(* What the liveness of the showcase's adapter rests on.                   *)
(***************************************************************************)
LEMMA AskedStays ==
  ASSUME AdapterIInv, NEW h \in Handles, ContractMove(h), OnlyTouches(h),
         NEW g \in Handles, Asked(g)
  PROVE  Asked(g)'
<1>1. CASE g # h BY <1>1 DEF OnlyTouches, Asked
<1>2. CASE g = h BY <1>2 DEF ContractMove, SameAsked
<1> QED BY <1>1, <1>2

LEMMA BrushCancels ==
  ASSUME AdapterIInv, NEW h \in Handles, OnPhysicalPoses(h)
  PROVE  Asked(h)'
<1> DEFINE rec == [record[h] EXCEPT !.cancel_requested = TRUE]
<1>1. AdapterTypeOK /\ record[h] \in Records BY DEF AdapterIInv, AdapterTypeOK
<1>2. rec \in Records /\ rec.cancel_requested /\ awaits[h] \in SUBSET Futures
  BY <1>1 DEF AdapterTypeOK, Records
<1>3. StartCancel(h, rec, awaits[h]) BY DEF OnPhysicalPoses, CancelGoal
<1> HIDE DEF rec
<1>4. CancelOutcome(h, rec, awaits[h]) BY <1>1, <1>2, <1>3, StartCancelOutcome
<1> QED BY <1>2, <1>4 DEF CancelOutcome, Asked, Records

LEMMA ReachedStaysCanceled ==
  ASSUME AdapterIInv, PhysicalIInv, ReachedIsCanceled, [PhysicalNext]_physVars
  PROVE  ReachedIsCanceled'
<1>1. SUFFICES ASSUME NEW g \in reached' PROVE g \in Handles /\ Asked(g)'
  BY DEF ReachedIsCanceled, cancelsAsked, Asked
<1>2. \A r \in reached : r \in Handles /\ Asked(r)
  BY DEF ReachedIsCanceled, cancelsAsked, Asked
<1>3. CASE UNCHANGED physVars
  BY <1>1, <1>2, <1>3 DEF physVars, navVars, adapterVars, Asked
<1>4. CASE PhysicalNext
  <2>1. CASE g \in reached
    BY <1>2, <1>4, <2>1, StepShape, AskedStays DEF PhysicalIInv
  <2>2. CASE g \notin reached
    <3>1. PICK h \in Handles : OnPhysicalPoses(h) /\ g = h
      BY <1>1, <1>4, <2>2 DEF PhysicalNext, PhysicalSubmitGoal, PhysicalCancelGoal,
         OnPhysicalPoses, Latch, PhysicalCallback, FacadeActs
    <3> QED BY <3>1, BrushCancels
  <2> QED BY <2>1, <2>2
<1> QED BY <1>3, <1>4

\* A goal is canceled when a brush reaches a pile under it, whatever state it is in; with
\* NoGoalIsForgottenThroughout it comes to an end.
THEOREM ReachedGoalsAreCanceled == PhysicalSpec => []ReachedIsCanceled
<1>1. PhysicalInit => ReachedIsCanceled
  BY DEF PhysicalInit, ReachedIsCanceled
<1> QED
  BY <1>1, ReachedStaysCanceled, WrappedInvariant, PhysicalInvariant, PTL
     DEF PhysicalSpec

\* The wrapped adapter forgets no goal either.
THEOREM NoGoalIsForgottenThroughout == PhysicalSpec => []NoGoalIsForgotten
BY WrapsTheAdapter, GoalsAreWatched
=============================================================================
