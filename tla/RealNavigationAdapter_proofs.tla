-------------------- MODULE RealNavigationAdapter_proofs --------------------
(***************************************************************************)
(* The real navigation adapter keeps its promise (NavigationContract), for *)
(* any number of goals and whether or not futures raise.                   *)
(***************************************************************************)
EXTENDS RealNavigationAdapter, TLAPS

Fits(h) ==
  /\ h \notin submitted => NotSubmittedYet(h)
  /\ RecordFits(h)
  /\ EventFits(h)

\* A step changes what belongs to one handle at most.
OnlyTouches(h) ==
  \A g \in Handles \ {h} :
    /\ (g \in submitted') = (g \in submitted)
    /\ (g \in raised') = (g \in raised)
    /\ record'[g] = record[g]
    /\ told'[g] = told[g]
    /\ awaits'[g] = awaits[g]
    /\ facade'[g] = facade[g]
    /\ reply'[g] = reply[g]
    /\ sink' = g => sink = g

\* The other handles stay as they were.
LEMMA OthersFit ==
  ASSUME NEW h \in Handles, OnlyTouches(h), \A g \in Handles : Fits(g), Fits(h)'
  PROVE  \A g \in Handles : Fits(g)'
<1>1. SUFFICES ASSUME NEW g \in Handles, g # h PROVE Fits(g)'
  OBVIOUS
<1>2. Fits(g) OBVIOUS
<1>3. /\ (g \in submitted') = (g \in submitted)
      /\ (g \in raised') = (g \in raised)
      /\ record'[g] = record[g]
      /\ told'[g] = told[g]
      /\ awaits'[g] = awaits[g]
      /\ facade'[g] = facade[g]
      /\ reply'[g] = reply[g]
      /\ sink' = g => sink = g
  BY <1>1 DEF OnlyTouches
<1>4. (g \notin submitted => NotSubmittedYet(g))'
  BY <1>2, <1>3 DEF Fits, NotSubmittedYet
<1>5. RecordFits(g)'
  BY <1>2, <1>3 DEF Fits, RecordFits
<1>6. EventFits(g)'
  BY <1>2, <1>3 DEF Fits, EventFits
<1> QED BY <1>4, <1>5, <1>6 DEF Fits

LEMMA NewRecordType == NewRecord \in Records
BY DEF NewRecord, Records, ResultStates

LEMMA InitFits == AdapterInit => AdapterIInv
<1> SUFFICES ASSUME AdapterInit PROVE AdapterIInv
  OBVIOUS
<1>1. AdapterTypeOK
  BY NewRecordType
     DEF AdapterInit, AdapterTypeOK, FacadeStates, Replies, Futures
<1>2. ASSUME NEW h \in Handles
      PROVE  NotSubmittedYet(h) /\ RecordFits(h) /\ EventFits(h)
  <2>1. NotSubmittedYet(h) BY DEF AdapterInit, NotSubmittedYet
  <2>2. sink # h BY AdapterAssumption DEF AdapterInit
  <2>3. RecordFits(h)
    BY <2>1, <2>2 DEF NotSubmittedYet, RecordFits, NewRecord
  <2>4. EventFits(h) BY <2>1 DEF NotSubmittedYet, EventFits
  <2> QED BY <2>1, <2>3, <2>4
<1> QED BY <1>1, <1>2 DEF AdapterIInv

-----------------------------------------------------------------------------
(***************************************************************************)
(* Each action keeps the invariant.                                        *)
(***************************************************************************)
LEMMA SubmitGoalFits ==
  ASSUME AdapterIInv, NEW h \in Handles, SubmitGoal(h)
  PROVE  AdapterIInv'
<1>0. AdapterTypeOK /\ NotSubmittedYet(h) /\ Fits(h)
  BY DEF AdapterIInv, SubmitGoal, Fits
<1>1. AdapterTypeOK'
  BY <1>0 DEF AdapterTypeOK, SubmitGoal, GoalSent, GoalNotSent, GoalSentUnheard,
             Raises, Tell, FacadeStates, RunningStates, Futures, Contract!TerminalEvents
<1>2. OnlyTouches(h)
  BY <1>0 DEF AdapterTypeOK, OnlyTouches, SubmitGoal, GoalSent, GoalNotSent,
             GoalSentUnheard, Raises, Tell
<1>3. Fits(h)'
  <2>1. /\ record'[h] = NewRecord /\ reply'[h] = "none" /\ h \in submitted' /\ sink' # h
        /\ \/ /\ told'[h] = "none" /\ awaits'[h] = {"send"}
              /\ facade'[h] = "deciding"
           \/ /\ told'[h] = "GOAL_REJECTED" /\ awaits'[h] = {}
              /\ facade'[h] = "none"
           \/ /\ told'[h] = "GOAL_REJECTED" /\ awaits'[h] = {}
              /\ facade'[h] = "deciding" /\ h \in raised'
    BY <1>0 DEF AdapterTypeOK, Fits, RecordFits, NotSubmittedYet, NewRecord, SubmitGoal,
               GoalSent, GoalNotSent, GoalSentUnheard, Raises, Tell
  <2>2. RecordFits(h)' BY <2>1 DEF RecordFits, NewRecord
  <2>3. EventFits(h)' BY <2>1 DEF EventFits
  <2> QED BY <2>1, <2>2, <2>3 DEF Fits
<1> QED BY <1>1, <1>2, <1>3, OthersFit DEF AdapterIInv, Fits

\* What _start_cancel makes of the record: nothing, a request, or a failure.
CancelOutcome(h, rec, futures) ==
  \/ /\ ~MayStartCancel(h, rec)
     /\ record'[h] = rec
     /\ awaits'[h] = futures
     /\ reply'[h] = reply[h]
     /\ told'[h] = told[h]
  \/ /\ MayStartCancel(h, rec)
     /\ record'[h] = [rec EXCEPT !.cancel_started = TRUE]
     /\ awaits'[h] = futures \cup {"cancel"}
     /\ reply'[h] = "asked"
     /\ told'[h] = "none"
  \/ /\ MayStartCancel(h, rec)
     /\ record'[h] = [rec EXCEPT !.cancel_started = TRUE, !.cancel_response = "invalid"]
     /\ awaits'[h] = futures
     /\ reply'[h] \in {reply[h], "asked"}
     /\ told'[h] = "CANCEL_FAILED"

LEMMA StartCancelOutcome ==
  ASSUME AdapterTypeOK, NEW h \in Handles, NEW rec \in Records,
         NEW futures \in SUBSET Futures, StartCancel(h, rec, futures)
  PROVE  /\ CancelOutcome(h, rec, futures)
         /\ record' \in [Handles -> Records]
         /\ told' \in [Handles -> {"none"} \cup Contract!TerminalEvents]
         /\ awaits' \in [Handles -> SUBSET Futures]
         /\ reply' \in [Handles -> Replies]
         /\ raised' \subseteq Handles
         /\ \A g \in Handles \ {h} :
              /\ (g \in raised') = (g \in raised)
              /\ record'[g] = record[g]
              /\ told'[g] = told[g]
              /\ awaits'[g] = awaits[g]
              /\ reply'[g] = reply[g]
<1>1. CASE ~MayStartCancel(h, rec)
  BY <1>1 DEF StartCancel, CancelOutcome, AdapterTypeOK
<1>2. CASE /\ MayStartCancel(h, rec)
           /\ CancelSent(h, rec)
           /\ awaits' = [awaits EXCEPT ![h] = futures \cup {"cancel"}]
  <2>1. [rec EXCEPT !.cancel_started = TRUE] \in Records BY DEF Records
  <2>2. futures \cup {"cancel"} \in SUBSET Futures BY DEF Futures
  <2> QED BY <1>2, <2>1, <2>2
          DEF CancelSent, CancelOutcome, AdapterTypeOK, MayStartCancel, Replies
<1>3. CASE /\ MayStartCancel(h, rec)
           /\ CancelNotHeard(h, rec)
           /\ awaits' = [awaits EXCEPT ![h] = futures]
  <2> DEFINE new == [rec EXCEPT !.cancel_started = TRUE, !.cancel_response = "invalid"]
  <2>1. new \in Records BY DEF Records
  <2>2. record' = [record EXCEPT ![h] = new] BY <1>3 DEF CancelNotHeard
  <2>3. told' = [told EXCEPT ![h] = "CANCEL_FAILED"]
    BY <1>3 DEF CancelNotHeard, Tell, MayStartCancel
  <2>4. /\ reply' \in {reply, [reply EXCEPT ![h] = "asked"]}
        /\ raised' = raised \cup {h}
    BY <1>3 DEF CancelNotHeard, Raises
  <2>5. CancelOutcome(h, rec, futures)
    BY <1>3, <2>2, <2>3, <2>4 DEF CancelOutcome, AdapterTypeOK
  <2> HIDE DEF new
  <2> QED BY <1>3, <2>1, <2>2, <2>3, <2>4, <2>5
          DEF AdapterTypeOK, Replies, Contract!TerminalEvents
<1> QED BY <1>1, <1>2, <1>3 DEF StartCancel

\* The outcome fits a record that fitted before the request.
LEMMA CancelOutcomeFits ==
  ASSUME AdapterTypeOK, NEW h \in Handles, NEW rec \in Records,
         NEW futures \in SUBSET Futures, CancelOutcome(h, rec, futures),
         Fits(h), h \in submitted, h \in submitted', facade' = facade,
         h \in raised => h \in raised',
         rec \in {record[h], [record[h] EXCEPT !.cancel_requested = TRUE]},
         "send" \in futures => "send" \in awaits[h],
         futures \cap {"result", "cancel"} # {} => rec.goal_handle,
         sink' = h => rec.goal_handle,
         "cancel" \in futures => "cancel" \in awaits[h]
  PROVE  Fits(h)'
<1>0. record[h] \in Records /\ reply[h] \in Replies BY DEF AdapterTypeOK
<1>1. /\ rec.goal_handle = record[h].goal_handle
      /\ record[h].cancel_requested => rec.cancel_requested
      /\ rec.cancel_started = record[h].cancel_started
      /\ rec.cancel_response = record[h].cancel_response
      /\ rec.result_status = record[h].result_status
  BY <1>0 DEF Records
<1>2. /\ record'[h].goal_handle = rec.goal_handle
      /\ record'[h].cancel_requested = rec.cancel_requested
      /\ record'[h].result_status = rec.result_status
  BY DEF CancelOutcome, Records
<1>3. RecordFits(h) /\ EventFits(h) BY DEF Fits
<1>4. CASE /\ record'[h] = rec
           /\ awaits'[h] = futures
           /\ reply'[h] = reply[h]
           /\ told'[h] = told[h]
  <2>1. RecordFits(h)' BY <1>1, <1>3, <1>4 DEF RecordFits
  <2>2. EventFits(h)' BY <1>1, <1>3, <1>4 DEF EventFits
  <2> QED BY <2>1, <2>2 DEF Fits
<1>5. CASE /\ MayStartCancel(h, rec)
           /\ record'[h] = [rec EXCEPT !.cancel_started = TRUE]
           /\ awaits'[h] = futures \cup {"cancel"}
           /\ reply'[h] = "asked"
           /\ told'[h] = "none"
  <2>1. record'[h].cancel_started /\ record'[h].cancel_response = rec.cancel_response
    BY <1>5 DEF Records
  <2>2. rec.cancel_response # "valid"
    BY <1>1, <1>3, <1>5 DEF RecordFits, MayStartCancel
  <2>3. RecordFits(h)'
    BY <1>1, <1>2, <1>3, <1>5, <2>1, <2>2 DEF RecordFits, MayStartCancel
  <2>4. EventFits(h)' BY <1>5 DEF EventFits
  <2> QED BY <2>3, <2>4 DEF Fits
<1>6. CASE /\ MayStartCancel(h, rec)
           /\ record'[h] = [rec EXCEPT !.cancel_started = TRUE,
                                       !.cancel_response = "invalid"]
           /\ awaits'[h] = futures
           /\ reply'[h] \in {reply[h], "asked"}
           /\ told'[h] = "CANCEL_FAILED"
  <2>1. record'[h].cancel_started /\ record'[h].cancel_response = "invalid"
    BY <1>6 DEF Records
  <2>2. RecordFits(h)'
    BY <1>1, <1>2, <1>3, <1>6, <2>1 DEF RecordFits, MayStartCancel
  <2>3. EventFits(h)' BY <1>6 DEF EventFits
  <2> QED BY <2>2, <2>3 DEF Fits
<1> QED BY <1>4, <1>5, <1>6 DEF CancelOutcome

LEMMA CancelGoalFits ==
  ASSUME AdapterIInv, NEW h \in Handles, CancelGoal(h)
  PROVE  AdapterIInv'
<1> DEFINE rec == [record[h] EXCEPT !.cancel_requested = TRUE]
<1>0. AdapterTypeOK /\ Fits(h) BY DEF AdapterIInv, Fits
<1>1. rec \in Records /\ awaits[h] \in SUBSET Futures /\ rec.goal_handle = record[h].goal_handle
  BY <1>0 DEF AdapterTypeOK, Records
<1>2. /\ StartCancel(h, rec, awaits[h])
      /\ h \in submitted /\ UNCHANGED <<submitted, sink, facade>>
  BY DEF CancelGoal
<1>3. h \in raised => h \in raised'
  BY <1>2 DEF StartCancel, CancelSent, CancelNotHeard, Raises
<1> HIDE DEF rec
<1>4. AdapterTypeOK'
  BY <1>0, <1>1, <1>2, StartCancelOutcome DEF AdapterTypeOK
<1>5. OnlyTouches(h)
  BY <1>0, <1>1, <1>2, StartCancelOutcome DEF OnlyTouches
<1>6. CancelOutcome(h, rec, awaits[h])
  BY <1>0, <1>1, <1>2, StartCancelOutcome
<1>7. Fits(h)'
  <2>1. /\ awaits[h] \cap {"result", "cancel"} # {} => rec.goal_handle
        /\ sink' = h => rec.goal_handle
    BY <1>0, <1>1, <1>2 DEF Fits, RecordFits
  <2>2. rec \in {record[h], [record[h] EXCEPT !.cancel_requested = TRUE]} BY DEF rec
  <2> QED BY <1>0, <1>1, <1>2, <1>3, <1>6, <2>1, <2>2, CancelOutcomeFits
<1> QED BY <1>0, <1>4, <1>5, <1>7, OthersFit DEF AdapterIInv, Fits

LEMMA GoalResponseFits ==
  ASSUME AdapterIInv, NEW h \in Handles, GoalResponse(h)
  PROVE  AdapterIInv'
<1>0. /\ AdapterTypeOK /\ Fits(h) /\ "send" \in awaits[h]
      /\ h \in submitted /\ sink = NoHandle /\ facade[h] # "deciding"
      /\ UNCHANGED <<submitted, facade, reply>>
  BY DEF AdapterIInv, Fits, GoalResponse, Runs, NotSubmittedYet, facadeVars
<1>1. ~record[h].goal_handle /\ told[h] = "none" /\ facade[h] # "none"
  BY <1>0 DEF Fits, RecordFits
<1>2. /\ awaits' \in [Handles -> SUBSET Futures]
      /\ awaits'[h] = awaits[h] \ {"send"}
      /\ \A g \in Handles \ {h} : awaits'[g] = awaits[g]
  BY <1>0 DEF GoalResponse, Done, AdapterTypeOK
<1>3. CASE /\ facade[h] # "rejected"
           /\ record' = [record EXCEPT ![h].goal_handle = TRUE]
           /\ sink' = h
           /\ UNCHANGED <<told, raised>>
  <2>1. record[h] \in Records BY <1>0 DEF AdapterTypeOK
  <2>2. /\ record' \in [Handles -> Records]
        /\ record'[h].goal_handle
        /\ record'[h].cancel_requested = record[h].cancel_requested
        /\ record'[h].cancel_started = record[h].cancel_started
        /\ record'[h].cancel_response = record[h].cancel_response
        /\ record'[h].result_status = record[h].result_status
        /\ \A g \in Handles \ {h} : record'[g] = record[g]
    BY <1>0, <1>3, <2>1 DEF AdapterTypeOK, Records
  <2>3. AdapterTypeOK' BY <1>0, <1>2, <1>3, <2>2 DEF AdapterTypeOK
  <2>4. OnlyTouches(h) BY <1>0, <1>2, <1>3, <2>2 DEF OnlyTouches
  <2>5. RecordFits(h)'
    BY <1>0, <1>1, <1>2, <1>3, <2>2 DEF Fits, RecordFits
  <2>6. EventFits(h)' BY <1>1, <1>3 DEF EventFits
  <2>7. Fits(h)' BY <1>0, <2>5, <2>6 DEF Fits
  <2> QED BY <2>3, <2>4, <2>7, OthersFit DEF AdapterIInv, Fits
<1>4. CASE /\ Tell(h, "GOAL_REJECTED")
           /\ UNCHANGED <<record, sink>>
           /\ raised' \in {raised, raised \cup {h}}
           /\ facade[h] # "rejected" => h \in raised'
  <2>1. told' = [told EXCEPT ![h] = "GOAL_REJECTED"]
    BY <1>1, <1>4 DEF Tell
  <2>2. sink' # h BY <1>0, <1>4, AdapterAssumption
  <2>3. AdapterTypeOK'
    BY <1>0, <1>2, <1>4, <2>1 DEF AdapterTypeOK, Contract!TerminalEvents
  <2>4. OnlyTouches(h)
    BY <1>0, <1>2, <1>4, <2>1 DEF AdapterTypeOK, OnlyTouches
  <2>5. told'[h] = "GOAL_REJECTED" BY <1>0, <2>1 DEF AdapterTypeOK
  <2>6. RecordFits(h)' BY <1>0, <1>2, <1>4, <2>2, <2>5 DEF Fits, RecordFits
  <2>7. EventFits(h)' BY <1>0, <1>4, <2>5 DEF EventFits
  <2>8. Fits(h)' BY <1>0, <2>6, <2>7 DEF Fits
  <2> QED BY <2>3, <2>4, <2>8, OthersFit DEF AdapterIInv, Fits
<1>5. CASE facade[h] = "rejected" /\ Tell(h, "GOAL_REJECTED") /\ UNCHANGED <<record, sink, raised>>
  BY <1>4, <1>5
<1>6. CASE Raises(h) /\ Tell(h, "GOAL_REJECTED") /\ UNCHANGED <<record, sink>>
  <2>1. raised' = raised \cup {h} BY <1>6 DEF Raises
  <2> QED BY <1>4, <1>6, <2>1
<1> QED BY <1>3, <1>5, <1>6 DEF GoalResponse

LEMMA AfterAcceptedFits ==
  ASSUME AdapterIInv, NEW h \in Handles, AfterAccepted(h)
  PROVE  AdapterIInv'
<1>0. /\ AdapterTypeOK /\ Fits(h) /\ sink = h /\ sink' = NoHandle
      /\ UNCHANGED <<submitted, facade>>
  BY DEF AdapterIInv, Fits, AfterAccepted
<1>1. record[h].goal_handle /\ h \in submitted /\ sink' # h
  BY <1>0, AdapterAssumption DEF Fits, RecordFits, NotSubmittedYet, NewRecord
<1>2. CASE StartCancel(h, record[h], awaits[h] \cup {"result"})
  <2>1. record[h] \in Records /\ awaits[h] \cup {"result"} \in SUBSET Futures
    BY <1>0 DEF AdapterTypeOK, Futures
  <2>2. h \in raised => h \in raised'
    BY <1>2 DEF StartCancel, CancelSent, CancelNotHeard, Raises
  <2>3. AdapterTypeOK'
    BY <1>0, <1>2, <2>1, StartCancelOutcome DEF AdapterTypeOK
  <2>4. OnlyTouches(h)
    BY <1>0, <1>1, <1>2, <2>1, AdapterAssumption, StartCancelOutcome DEF OnlyTouches
  <2>5. CancelOutcome(h, record[h], awaits[h] \cup {"result"})
    BY <1>0, <1>2, <2>1, StartCancelOutcome
  <2>6. Fits(h)'
    BY <1>0, <1>1, <2>1, <2>2, <2>5, CancelOutcomeFits
  <2> QED BY <2>3, <2>4, <2>6, OthersFit DEF AdapterIInv, Fits
<1>3. CASE told[h] # "none" /\ UNCHANGED <<record, told, awaits, reply, raised>>
  <2>1. AdapterTypeOK' BY <1>0, <1>3 DEF AdapterTypeOK
  <2>2. OnlyTouches(h) BY <1>0, <1>3, AdapterAssumption DEF OnlyTouches
  <2>3. RecordFits(h)' /\ EventFits(h)'
    BY <1>0, <1>1, <1>3 DEF Fits, RecordFits, EventFits
  <2>4. Fits(h)' BY <1>0, <1>1, <2>3 DEF Fits
  <2> QED BY <2>1, <2>2, <2>4, OthersFit DEF AdapterIInv, Fits
<1>4. CASE Raises(h) /\ Tell(h, "FAILED") /\ UNCHANGED <<record, awaits, reply>>
  <2>1. AdapterTypeOK'
    BY <1>0, <1>4 DEF AdapterTypeOK, Raises, Tell, Contract!TerminalEvents
  <2>2. OnlyTouches(h)
    BY <1>0, <1>4, AdapterAssumption DEF AdapterTypeOK, OnlyTouches, Raises, Tell
  <2>3. h \in raised' /\ told'[h] \in {told[h], "FAILED"}
    BY <1>0, <1>4 DEF AdapterTypeOK, Raises, Tell
  <2>4. RecordFits(h)'
    BY <1>0, <1>1, <1>4 DEF Fits, RecordFits
  <2>5. EventFits(h)' BY <1>0, <1>1, <1>4, <2>3 DEF Fits, EventFits
  <2>6. Fits(h)' BY <1>0, <1>1, <2>4, <2>5 DEF Fits
  <2> QED BY <2>1, <2>2, <2>6, OthersFit DEF AdapterIInv, Fits
<1> QED BY <1>2, <1>3, <1>4 DEF AfterAccepted

LEMMA ResultFits ==
  ASSUME AdapterIInv, NEW h \in Handles, Result(h)
  PROVE  AdapterIInv'
<1>0. /\ AdapterTypeOK /\ Fits(h) /\ "result" \in awaits[h] /\ sink = NoHandle
      /\ facade[h] \in ResultStates /\ Done(h, "result")
      /\ UNCHANGED <<submitted, sink, facade, reply>>
  BY DEF AdapterIInv, Fits, Result, Runs, facadeVars
<1>1. record[h].goal_handle /\ h \in submitted /\ sink' # h
  BY <1>0, AdapterAssumption DEF Fits, RecordFits, NotSubmittedYet, NewRecord
<1>2. /\ awaits' \in [Handles -> SUBSET Futures]
      /\ awaits'[h] = awaits[h] \ {"result"}
      /\ \A g \in Handles \ {h} : awaits'[g] = awaits[g]
  BY <1>0 DEF Done, AdapterTypeOK
<1>3. CASE /\ record' = [record EXCEPT ![h].result_status = facade[h]]
           /\ Tell(h, ResultEvent(record[h], facade[h]))
           /\ UNCHANGED raised
  <2> DEFINE event == ResultEvent(record[h], facade[h])
  <2>1. record[h] \in Records BY <1>0 DEF AdapterTypeOK
  <2>2. event \in {"none"} \cup Contract!TerminalEvents
    BY <2>1 DEF ResultEvent, Records, Contract!TerminalEvents
  <2>3. /\ event = "SUCCEEDED" => facade[h] = "SUCCEEDED"
        /\ event = "FAILED" =>
             \/ facade[h] = "ABORTED"
             \/ facade[h] = "CANCELED" /\ ~record[h].cancel_requested
        /\ event = "CANCEL_CONFIRMED" =>
             /\ facade[h] = "CANCELED" /\ record[h].cancel_requested
             /\ record[h].cancel_response = "valid"
        /\ event # "GOAL_REJECTED"
    BY <1>0, <2>1 DEF ResultEvent, Records, ResultStates
  <2> HIDE DEF event
  <2>4. /\ told' \in [Handles -> {"none"} \cup Contract!TerminalEvents]
        /\ told'[h] = told[h] \/ told'[h] = event
        /\ \A g \in Handles \ {h} : told'[g] = told[g]
    BY <1>0, <1>3, <2>2 DEF Tell, AdapterTypeOK, event
  <2>5. /\ record' \in [Handles -> Records]
        /\ record'[h].result_status = facade[h]
        /\ record'[h].goal_handle = record[h].goal_handle
        /\ record'[h].cancel_requested = record[h].cancel_requested
        /\ record'[h].cancel_started = record[h].cancel_started
        /\ record'[h].cancel_response = record[h].cancel_response
        /\ \A g \in Handles \ {h} : record'[g] = record[g]
    BY <1>0, <1>3, <2>1 DEF AdapterTypeOK, Records
  <2>6. AdapterTypeOK' BY <1>0, <1>2, <1>3, <2>4, <2>5 DEF AdapterTypeOK
  <2>7. OnlyTouches(h) BY <1>0, <1>2, <1>3, <2>4, <2>5 DEF OnlyTouches
  <2>8. RecordFits(h)' BY <1>0, <1>1, <1>2, <2>5 DEF Fits, RecordFits
  <2>9. EventFits(h)'
    BY <1>0, <1>3, <2>3, <2>4, <2>5 DEF Fits, RecordFits, EventFits
  <2>10. Fits(h)' BY <1>0, <1>1, <2>8, <2>9 DEF Fits
  <2> QED BY <2>6, <2>7, <2>10, OthersFit DEF AdapterIInv, Fits
<1>4. CASE Raises(h) /\ Tell(h, "FAILED") /\ UNCHANGED record
  <2>1. AdapterTypeOK'
    BY <1>0, <1>2, <1>4 DEF AdapterTypeOK, Raises, Tell, Contract!TerminalEvents
  <2>2. OnlyTouches(h)
    BY <1>0, <1>2, <1>4 DEF AdapterTypeOK, OnlyTouches, Raises, Tell
  <2>3. h \in raised' /\ told'[h] \in {told[h], "FAILED"}
    BY <1>0, <1>4 DEF AdapterTypeOK, Raises, Tell
  <2>4. RecordFits(h)' BY <1>0, <1>1, <1>2, <1>4 DEF Fits, RecordFits
  <2>5. EventFits(h)' BY <1>0, <1>4, <2>3 DEF Fits, EventFits
  <2>6. Fits(h)' BY <1>0, <1>1, <2>4, <2>5 DEF Fits
  <2> QED BY <2>1, <2>2, <2>6, OthersFit DEF AdapterIInv, Fits
<1> QED BY <1>3, <1>4 DEF Result

LEMMA CancelResponseFits ==
  ASSUME AdapterIInv, NEW h \in Handles, CancelResponse(h)
  PROVE  AdapterIInv'
<1>0. /\ AdapterTypeOK /\ Fits(h) /\ "cancel" \in awaits[h] /\ sink = NoHandle
      /\ reply[h] \in {"valid", "invalid"} /\ Done(h, "cancel")
      /\ UNCHANGED <<submitted, sink, facade, reply>>
  BY DEF AdapterIInv, Fits, CancelResponse, Runs, facadeVars
<1>1. /\ record[h].goal_handle /\ record[h].cancel_requested
      /\ h \in submitted /\ sink' # h
  BY <1>0, AdapterAssumption DEF Fits, RecordFits, NotSubmittedYet, NewRecord
<1>2. /\ awaits' \in [Handles -> SUBSET Futures]
      /\ awaits'[h] = awaits[h] \ {"cancel"}
      /\ \A g \in Handles \ {h} : awaits'[g] = awaits[g]
  BY <1>0 DEF Done, AdapterTypeOK
<1>3. PICK response \in {reply[h], "invalid"} :
        /\ raised' \in {raised, raised \cup {h}}
        /\ record' = [record EXCEPT ![h].cancel_response = response]
        /\ Tell(h, CancelEvent(record[h], response))
  BY DEF CancelResponse, Raises
<1> DEFINE event == CancelEvent(record[h], response)
<1>4. record[h] \in Records BY <1>0 DEF AdapterTypeOK
<1>5. /\ event \in {"none", "CANCEL_FAILED", "CANCEL_CONFIRMED"}
      /\ event = "CANCEL_CONFIRMED" =>
           reply[h] = "valid" /\ record[h].result_status = "CANCELED"
  BY <1>0, <1>3 DEF CancelEvent
<1> HIDE DEF event
<1>6. /\ told' \in [Handles -> {"none"} \cup Contract!TerminalEvents]
      /\ told'[h] = told[h] \/ told'[h] = event
      /\ \A g \in Handles \ {h} : told'[g] = told[g]
  BY <1>0, <1>3, <1>5 DEF Tell, AdapterTypeOK, Contract!TerminalEvents, event
<1>7. /\ record' \in [Handles -> Records]
      /\ record'[h].result_status = record[h].result_status
      /\ record'[h].goal_handle = record[h].goal_handle
      /\ record'[h].cancel_requested = record[h].cancel_requested
      /\ record'[h].cancel_started = record[h].cancel_started
      /\ record'[h].cancel_response = response
      /\ \A g \in Handles \ {h} : record'[g] = record[g]
  BY <1>0, <1>3, <1>4 DEF AdapterTypeOK, Records
<1>8. AdapterTypeOK' BY <1>0, <1>2, <1>3, <1>6, <1>7 DEF AdapterTypeOK
<1>9. OnlyTouches(h) BY <1>0, <1>2, <1>3, <1>6, <1>7 DEF OnlyTouches
<1>10. RecordFits(h)' BY <1>0, <1>1, <1>2, <1>7 DEF Fits, RecordFits
<1>11. EventFits(h)'
  BY <1>0, <1>1, <1>3, <1>5, <1>6, <1>7 DEF Fits, RecordFits, EventFits
<1>12. Fits(h)' BY <1>0, <1>1, <1>10, <1>11 DEF Fits
<1> QED BY <1>8, <1>9, <1>12, OthersFit DEF AdapterIInv, Fits

\* The Facade only moves a goal forward.
LEMMA FacadeFits ==
  ASSUME AdapterIInv, NEW h \in Handles,
         FacadeDecides(h) \/ FacadeEnds(h) \/ FacadeAnswersCancel(h)
  PROVE  AdapterIInv'
<1>0. AdapterTypeOK /\ Fits(h) /\ UNCHANGED adapterVars
  BY DEF AdapterIInv, Fits, FacadeDecides, FacadeEnds, FacadeAnswersCancel
<1>1. /\ facade' \in [Handles -> FacadeStates]
      /\ reply' \in [Handles -> Replies]
      /\ \A g \in Handles \ {h} : facade'[g] = facade[g] /\ reply'[g] = reply[g]
  BY <1>0 DEF AdapterTypeOK, FacadeDecides, FacadeEnds, FacadeAnswersCancel,
             FacadeStates, RunningStates, ResultStates, Replies
<1>2. /\ facade'[h] # facade[h] =>
           \/ facade[h] = "deciding" /\ facade'[h] \in {"executing", "rejected"}
           \/ /\ facade[h] \in {"executing", "canceling"}
              /\ facade'[h] \in {"canceling", "SUCCEEDED", "ABORTED", "CANCELED"}
      /\ reply'[h] # reply[h] => reply[h] = "asked" /\ reply'[h] \in {"valid", "invalid"}
  BY <1>0 DEF AdapterTypeOK, FacadeDecides, FacadeEnds, FacadeAnswersCancel, ResultStates
<1>3. record[h] \in Records BY <1>0 DEF AdapterTypeOK
<1>4. AdapterTypeOK' BY <1>0, <1>1 DEF AdapterTypeOK, adapterVars
<1>5. OnlyTouches(h) BY <1>0, <1>1 DEF OnlyTouches, adapterVars
<1>6. h \in submitted \/ UNCHANGED <<facade[h], reply[h]>>
  BY <1>0, <1>2 DEF Fits, NotSubmittedYet
<1>7. RecordFits(h)'
  BY <1>0, <1>2, <1>3 DEF Fits, RecordFits, adapterVars, Records, ResultStates
<1>8. EventFits(h)' BY <1>0, <1>2 DEF Fits, EventFits, adapterVars
<1>9. Fits(h)'
  BY <1>0, <1>6, <1>7, <1>8 DEF Fits, NotSubmittedYet, adapterVars
<1> QED BY <1>4, <1>5, <1>9, OthersFit, <1>0 DEF AdapterIInv, Fits

LEMMA NextFits == AdapterIInv /\ [AdapterNext]_navVars => AdapterIInv'
<1>1. ASSUME AdapterIInv, UNCHANGED navVars PROVE AdapterIInv'
  BY <1>1 DEF navVars, adapterVars, facadeVars, AdapterIInv, AdapterTypeOK,
             NotSubmittedYet, RecordFits, EventFits
<1>2. ASSUME AdapterIInv, AdapterNext PROVE AdapterIInv'
  BY <1>2, SubmitGoalFits, CancelGoalFits, GoalResponseFits, AfterAcceptedFits,
     ResultFits, CancelResponseFits, FacadeFits
     DEF AdapterNext
<1> QED BY <1>1, <1>2

\* The invariant of the adapter's records, for any number of goals.
THEOREM AdapterInvariant == AdapterSpec => []AdapterIInv
BY InitFits, NextFits, PTL DEF AdapterSpec

\* The state has the declared types.
THEOREM AdapterTypeCorrect == AdapterSpec => []AdapterTypeOK
<1>1. AdapterIInv => AdapterTypeOK BY DEF AdapterIInv
<1> QED BY <1>1, AdapterInvariant, PTL

\* What is reported of a goal is what became of it.
THEOREM ReportsTheTruth == AdapterSpec => []EventMatchesResult
<1>1. AdapterIInv => EventMatchesResult
  BY DEF AdapterIInv, EventFits, EventMatchesResult
<1> QED BY <1>1, AdapterInvariant, PTL

\* Only a failed cancellation, or a future that raised, leaves a goal running.
THEOREM OrphansAreKnown == AdapterSpec => []OnlyFailedCancelOrphans
<1>1. ASSUME AdapterIInv PROVE OnlyFailedCancelOrphans
  <2>1. SUFFICES ASSUME NEW h \in Handles, goalStatus[h] = "orphaned"
                 PROVE  told[h] = "CANCEL_FAILED" \/ h \in raised
    BY DEF OnlyFailedCancelOrphans
  <2>2. told[h] # "none" /\ facade[h] \in RunningStates
    BY <2>1 DEF goalStatus
  <2>3. EventFits(h) /\ told[h] \in {"none"} \cup Contract!TerminalEvents
    BY <1>1 DEF AdapterIInv, AdapterTypeOK
  <2> QED BY <2>2, <2>3 DEF EventFits, RunningStates, Contract!TerminalEvents
<1> QED BY <1>1, AdapterInvariant, PTL

-----------------------------------------------------------------------------
(***************************************************************************)
(* The adapter implements NavigationContract.  The promise is about each   *)
(* goal for itself, so a step is described by what it does to one goal.    *)
(***************************************************************************)
Status(h) ==
  IF h \notin submitted THEN "none"
  ELSE IF told[h] = "none"
    THEN IF record[h].goal_handle THEN "accepted" ELSE "sent"
  ELSE IF facade[h] \in RunningStates THEN "orphaned" ELSE "over"

Asked(h) == record[h].cancel_requested

SameAsked(h) == Asked(h)' = Asked(h)
SameTold(h)  == told'[h] = told[h]

ContractMove(h) ==
  \/ /\ Status(h)' = Status(h)
     /\ SameAsked(h) /\ SameTold(h)
  \/ /\ Status(h) = "none" /\ Status(h)' = "sent"
     /\ SameAsked(h) /\ SameTold(h)
  \/ /\ Status(h) \in {"sent", "accepted"} /\ Status(h)' = Status(h)
     /\ Asked(h)' /\ SameTold(h)
  \/ /\ Status(h) = "sent" /\ Status(h)' = "accepted"
     /\ SameAsked(h) /\ SameTold(h)
  \/ /\ Status(h) \in {"none", "sent"} /\ Status(h)' = "over"
     /\ SameAsked(h) /\ told'[h] = "GOAL_REJECTED"
  \/ /\ Status(h) = "accepted" /\ Status(h)' = "over"
     /\ SameAsked(h) /\ told'[h] \in {"SUCCEEDED", "FAILED"}
  \/ /\ Status(h) = "accepted" /\ Status(h)' = "over"
     /\ Asked(h) /\ Asked(h)' /\ told'[h] = "CANCEL_CONFIRMED"
  \/ /\ Status(h) = "accepted" /\ Status(h)' \in {"orphaned", "over"}
     /\ Asked(h)' /\ told'[h] = "CANCEL_FAILED"
  \/ /\ Status(h) = "orphaned" /\ Status(h)' = "over"
     /\ SameAsked(h) /\ SameTold(h)
  \/ /\ FuturesMayRaise
     /\ Status(h) \in {"none", "sent", "accepted"} /\ Status(h)' = "orphaned"
     /\ SameAsked(h) /\ told'[h] \in {"GOAL_REJECTED", "FAILED"}

\* Such a move of one goal is a step of the contract.
LEMMA MoveIsStep ==
  ASSUME AdapterTypeOK, AdapterTypeOK', NEW h \in Handles, OnlyTouches(h),
         ContractMove(h)
  PROVE  [Contract!ContractNext]_(Contract!contractVars)
<1>1. /\ goalStatus[h] = Status(h)
      /\ goalStatus' = [goalStatus EXCEPT ![h] = Status(h)']
  BY DEF goalStatus, Status, OnlyTouches
<1>2. told' = [told EXCEPT ![h] = told'[h]]
  BY DEF OnlyTouches, AdapterTypeOK
<1>3. /\ h \in cancelsAsked <=> Asked(h)
      /\ SameAsked(h) => cancelsAsked' = cancelsAsked
      /\ Asked(h)' => cancelsAsked' = cancelsAsked \cup {h}
  BY DEF cancelsAsked, Asked, SameAsked, OnlyTouches
<1>4. SameTold(h) => told' = told
  BY <1>2 DEF SameTold, AdapterTypeOK
<1>5. Status(h)' = Status(h) => goalStatus' = goalStatus
  BY <1>1 DEF goalStatus
<1> USE DEF Contract!ContractNext, Contract!Tell
<1>6. CASE Status(h)' = Status(h) /\ SameAsked(h) /\ SameTold(h)
  BY <1>3, <1>4, <1>5, <1>6 DEF Contract!contractVars
<1>7. CASE /\ Status(h) = "none" /\ Status(h)' = "sent"
           /\ SameAsked(h) /\ SameTold(h)
  BY <1>1, <1>3, <1>4, <1>7 DEF Contract!Submit
<1>8. CASE /\ Status(h) \in {"sent", "accepted"} /\ Status(h)' = Status(h)
           /\ Asked(h)' /\ SameTold(h)
  BY <1>1, <1>3, <1>4, <1>5, <1>8 DEF Contract!Cancel
<1>9. CASE /\ Status(h) = "sent" /\ Status(h)' = "accepted"
           /\ SameAsked(h) /\ SameTold(h)
  BY <1>1, <1>3, <1>4, <1>9 DEF Contract!Accept
<1>10. CASE /\ Status(h) \in {"none", "sent"} /\ Status(h)' = "over"
            /\ SameAsked(h) /\ told'[h] = "GOAL_REJECTED"
  BY <1>1, <1>2, <1>3, <1>10 DEF Contract!Reject
<1>11. CASE /\ Status(h) = "accepted" /\ Status(h)' = "over"
            /\ SameAsked(h) /\ told'[h] \in {"SUCCEEDED", "FAILED"}
  BY <1>1, <1>2, <1>3, <1>11 DEF Contract!Finish
<1>12. CASE /\ Status(h) = "accepted" /\ Status(h)' = "over"
            /\ Asked(h) /\ Asked(h)' /\ told'[h] = "CANCEL_CONFIRMED"
  BY <1>1, <1>2, <1>3, <1>12 DEF Contract!ConfirmCancel
<1>13. CASE /\ Status(h) = "accepted" /\ Status(h)' \in {"orphaned", "over"}
            /\ Asked(h)' /\ told'[h] = "CANCEL_FAILED"
  BY <1>1, <1>2, <1>3, <1>13 DEF Contract!FailCancel
<1>14. CASE /\ Status(h) = "orphaned" /\ Status(h)' = "over"
            /\ SameAsked(h) /\ SameTold(h)
  BY <1>1, <1>3, <1>4, <1>14 DEF Contract!OrphanEnds
<1>15. CASE /\ FuturesMayRaise
            /\ Status(h) \in {"none", "sent", "accepted"} /\ Status(h)' = "orphaned"
            /\ SameAsked(h) /\ told'[h] \in {"GOAL_REJECTED", "FAILED"}
  BY <1>1, <1>2, <1>3, <1>15 DEF Contract!Lose
<1> QED
  BY <1>6, <1>7, <1>8, <1>9, <1>10, <1>11, <1>12, <1>13, <1>14, <1>15 DEF ContractMove

LEMMA SubmitMoves ==
  ASSUME AdapterIInv, NEW h \in Handles, SubmitGoal(h)
  PROVE  ContractMove(h) /\ OnlyTouches(h)
<1>1. /\ AdapterTypeOK /\ NotSubmittedYet(h) /\ h \notin submitted /\ h \in submitted'
      /\ UNCHANGED record
  BY DEF AdapterIInv, SubmitGoal
<1>2. OnlyTouches(h)
  BY <1>1 DEF AdapterTypeOK, OnlyTouches, SubmitGoal, GoalSent, GoalNotSent,
             GoalSentUnheard, Raises, Tell
<1>3. Status(h) = "none" /\ SameAsked(h)
  BY <1>1 DEF Status, SameAsked, Asked
<1>4. CASE GoalSent(h)
  <2>1. Status(h)' = "sent" /\ SameTold(h)
    BY <1>1, <1>4 DEF GoalSent, Status, SameTold, NotSubmittedYet, NewRecord
  <2> QED BY <1>2, <1>3, <2>1 DEF ContractMove
<1>5. CASE GoalNotSent(h)
  <2>1. told'[h] = "GOAL_REJECTED" /\ Status(h)' = "over"
    BY <1>1, <1>5 DEF GoalNotSent, Tell, Status, NotSubmittedYet, AdapterTypeOK,
                     RunningStates
  <2> QED BY <1>2, <1>3, <2>1 DEF ContractMove
<1>6. CASE GoalSentUnheard(h)
  <2>1. /\ told'[h] = "GOAL_REJECTED" /\ Status(h)' = "orphaned"
        /\ FuturesMayRaise
    BY <1>1, <1>6 DEF GoalSentUnheard, Raises, Tell, Status, NotSubmittedYet,
                     AdapterTypeOK, RunningStates
  <2> QED BY <1>2, <1>3, <2>1 DEF ContractMove
<1> QED BY <1>4, <1>5, <1>6 DEF SubmitGoal

\* A request to cancel, from cancel_goal or after the acceptance.
LEMMA CancelMoves ==
  ASSUME AdapterIInv, NEW h \in Handles, NEW rec \in Records,
         NEW futures \in SUBSET Futures, StartCancel(h, rec, futures),
         rec \in {record[h], [record[h] EXCEPT !.cancel_requested = TRUE]},
         h \in submitted, told[h] = "none", UNCHANGED <<submitted, facade>>
  PROVE  ContractMove(h)
<1>1. AdapterTypeOK /\ record[h] \in Records
  BY DEF AdapterIInv, AdapterTypeOK
<1>2. CancelOutcome(h, rec, futures)
  BY <1>1, StartCancelOutcome
<1>3. /\ record'[h].goal_handle = rec.goal_handle
      /\ record'[h].cancel_requested = rec.cancel_requested
      /\ rec.goal_handle = record[h].goal_handle
      /\ rec.cancel_requested \/ rec.cancel_requested = record[h].cancel_requested
  BY <1>1, <1>2 DEF CancelOutcome, Records
<1>4. Status(h) = IF record[h].goal_handle THEN "accepted" ELSE "sent"
  BY DEF Status
<1>5. CASE told'[h] = "none"
  <2>1. Status(h)' = Status(h) /\ SameTold(h)
    BY <1>3, <1>4, <1>5 DEF Status, SameTold
  <2>2. Asked(h)' \/ SameAsked(h)
    BY <1>3 DEF Asked, SameAsked
  <2> QED BY <1>4, <2>1, <2>2 DEF ContractMove
<1>6. CASE told'[h] = "CANCEL_FAILED" /\ MayStartCancel(h, rec)
  <2>1. Status(h)' \in {"orphaned", "over"} /\ Asked(h)' /\ Status(h) = "accepted"
    BY <1>3, <1>4, <1>6 DEF Status, Asked, MayStartCancel
  <2> QED BY <1>6, <2>1 DEF ContractMove
<1> QED BY <1>2, <1>5, <1>6 DEF CancelOutcome

LEMMA CancelGoalMoves ==
  ASSUME AdapterIInv, NEW h \in Handles, CancelGoal(h)
  PROVE  ContractMove(h) /\ OnlyTouches(h)
<1> DEFINE rec == [record[h] EXCEPT !.cancel_requested = TRUE]
<1>1. AdapterTypeOK BY DEF AdapterIInv
<1>2. rec \in Records /\ awaits[h] \in SUBSET Futures
  BY <1>1 DEF AdapterTypeOK, Records
<1>3. /\ StartCancel(h, rec, awaits[h]) /\ told[h] = "none"
      /\ h \in submitted /\ UNCHANGED <<submitted, sink, facade>>
  BY DEF CancelGoal
<1>4. rec \in {record[h], [record[h] EXCEPT !.cancel_requested = TRUE]} OBVIOUS
<1> HIDE DEF rec
<1>5. OnlyTouches(h)
  BY <1>1, <1>2, <1>3, StartCancelOutcome DEF OnlyTouches
<1> QED BY <1>2, <1>3, <1>4, <1>5, CancelMoves

LEMMA GoalResponseMoves ==
  ASSUME AdapterIInv, NEW h \in Handles, GoalResponse(h)
  PROVE  ContractMove(h) /\ OnlyTouches(h)
<1>1. /\ AdapterTypeOK /\ h \in submitted /\ sink = NoHandle
      /\ RecordFits(h) /\ "send" \in awaits[h] /\ facade[h] # "deciding"
      /\ UNCHANGED <<submitted, facade, reply>>
  BY DEF AdapterIInv, GoalResponse, Runs, NotSubmittedYet, facadeVars
<1>2. ~record[h].goal_handle /\ told[h] = "none" /\ Status(h) = "sent"
  BY <1>1 DEF RecordFits, Status
<1>3. OnlyTouches(h)
  BY <1>1, AdapterAssumption
     DEF AdapterTypeOK, OnlyTouches, GoalResponse, Done, Raises, Tell
<1>4. CASE record' = [record EXCEPT ![h].goal_handle = TRUE] /\ UNCHANGED told
  <2>1. record[h] \in Records BY <1>1 DEF AdapterTypeOK
  <2>2. record'[h].goal_handle /\ SameAsked(h)
    BY <1>1, <1>4, <2>1 DEF AdapterTypeOK, Records, SameAsked, Asked
  <2>3. Status(h)' = "accepted" /\ SameTold(h)
    BY <1>1, <1>2, <1>4, <2>2 DEF Status, SameTold
  <2> QED BY <1>2, <1>3, <2>2, <2>3 DEF ContractMove
<1>5. CASE /\ Tell(h, "GOAL_REJECTED") /\ UNCHANGED record
           /\ facade[h] = "rejected" \/ FuturesMayRaise
  <2>1. told'[h] = "GOAL_REJECTED" /\ SameAsked(h)
    BY <1>1, <1>2, <1>5 DEF Tell, AdapterTypeOK, SameAsked, Asked
  <2>2. Status(h)' = "over" \/ (Status(h)' = "orphaned" /\ FuturesMayRaise)
    BY <1>1, <1>5, <2>1 DEF Status, RunningStates
  <2> QED BY <1>2, <1>3, <2>1, <2>2 DEF ContractMove
<1> QED BY <1>4, <1>5 DEF GoalResponse, Raises

LEMMA AfterAcceptedMoves ==
  ASSUME AdapterIInv, NEW h \in Handles, AfterAccepted(h)
  PROVE  ContractMove(h) /\ OnlyTouches(h)
<1>1. /\ AdapterTypeOK /\ h \in submitted /\ sink = h /\ sink' = NoHandle
      /\ record[h].goal_handle /\ UNCHANGED <<submitted, facade>>
  BY DEF AdapterIInv, AfterAccepted, RecordFits, NotSubmittedYet, NewRecord
<1>2. CASE told[h] = "none" /\ StartCancel(h, record[h], awaits[h] \cup {"result"})
  <2>1. record[h] \in Records /\ awaits[h] \cup {"result"} \in SUBSET Futures
    BY <1>1 DEF AdapterTypeOK, Futures
  <2>2. OnlyTouches(h)
    BY <1>1, <1>2, <2>1, AdapterAssumption, StartCancelOutcome DEF OnlyTouches
  <2> QED BY <1>1, <1>2, <2>1, <2>2, CancelMoves
<1>3. CASE UNCHANGED <<record, told, awaits, reply, raised>>
  BY <1>1, <1>3, AdapterAssumption
     DEF OnlyTouches, ContractMove, Status, SameAsked, Asked, SameTold
<1>4. CASE Raises(h) /\ Tell(h, "FAILED") /\ UNCHANGED <<record, awaits, reply>>
  <2>1. OnlyTouches(h)
    BY <1>1, <1>4, AdapterAssumption DEF AdapterTypeOK, OnlyTouches, Raises, Tell
  <2>2. SameAsked(h) /\ FuturesMayRaise BY <1>4 DEF SameAsked, Asked, Raises
  <2>3. CASE told[h] # "none"
    BY <1>1, <1>4, <2>1, <2>2, <2>3 DEF Tell, Status, SameTold, ContractMove
  <2>4. CASE told[h] = "none"
    <3>1. told'[h] = "FAILED" /\ Status(h) = "accepted"
      BY <1>1, <1>4, <2>4 DEF Tell, Status, AdapterTypeOK
    <3>2. Status(h)' \in {"orphaned", "over"} BY <1>1, <3>1 DEF Status
    <3> QED BY <2>1, <2>2, <3>1, <3>2 DEF ContractMove
  <2> QED BY <2>3, <2>4
<1> QED BY <1>2, <1>3, <1>4 DEF AfterAccepted

LEMMA ResultMoves ==
  ASSUME AdapterIInv, NEW h \in Handles, Result(h)
  PROVE  ContractMove(h) /\ OnlyTouches(h)
<1>1. /\ AdapterTypeOK /\ h \in submitted /\ record[h].goal_handle
      /\ facade[h] \in ResultStates /\ Done(h, "result") /\ record[h] \in Records
      /\ UNCHANGED <<submitted, sink, facade, reply>>
  BY DEF AdapterIInv, AdapterTypeOK, Result, Runs, RecordFits, NotSubmittedYet,
         NewRecord, facadeVars
<1>2. PICK event \in {"none", "SUCCEEDED", "FAILED", "CANCEL_CONFIRMED", "CANCEL_FAILED"} :
        /\ Tell(h, event)
        /\ raised' \in {raised, raised \cup {h}}
        /\ record' \in {record, [record EXCEPT ![h].result_status = facade[h]]}
        /\ event \in {"CANCEL_CONFIRMED", "CANCEL_FAILED"} => Asked(h)
  BY <1>1 DEF Result, ResultEvent, Records, Raises, Asked
<1>3. OnlyTouches(h)
  BY <1>1, <1>2 DEF AdapterTypeOK, OnlyTouches, Done, Tell
<1>4. record'[h].goal_handle /\ SameAsked(h)
  BY <1>1, <1>2 DEF AdapterTypeOK, Records, SameAsked, Asked
<1>5. CASE told[h] # "none" \/ event = "none"
  BY <1>1, <1>2, <1>3, <1>4, <1>5 DEF Tell, Status, SameTold, ContractMove
<1>6. CASE told[h] = "none" /\ event # "none"
  <2>1. told'[h] = event /\ Status(h) = "accepted"
    BY <1>1, <1>2, <1>6 DEF Tell, AdapterTypeOK, Status
  <2>2. Status(h)' = "over"
    BY <1>1, <1>6, <2>1 DEF Status, ResultStates, RunningStates
  <2> QED BY <1>2, <1>3, <1>4, <1>6, <2>1, <2>2 DEF ContractMove, SameAsked
<1> QED BY <1>5, <1>6

LEMMA CancelResponseMoves ==
  ASSUME AdapterIInv, NEW h \in Handles, CancelResponse(h)
  PROVE  ContractMove(h) /\ OnlyTouches(h)
<1>1. /\ AdapterTypeOK /\ h \in submitted /\ record[h] \in Records
      /\ record[h].goal_handle /\ Asked(h) /\ RecordFits(h) /\ Done(h, "cancel")
      /\ UNCHANGED <<submitted, sink, facade, reply>>
  BY DEF AdapterIInv, AdapterTypeOK, CancelResponse, Runs, RecordFits, Asked,
         NotSubmittedYet, NewRecord, facadeVars
<1>2. PICK response \in {reply[h], "invalid"} :
        /\ raised' \in {raised, raised \cup {h}}
        /\ record' = [record EXCEPT ![h].cancel_response = response]
        /\ Tell(h, CancelEvent(record[h], response))
  BY DEF CancelResponse, Raises
<1> DEFINE event == CancelEvent(record[h], response)
<1>3. /\ event \in {"none", "CANCEL_FAILED", "CANCEL_CONFIRMED"}
      /\ event = "CANCEL_CONFIRMED" => facade[h] = "CANCELED"
  BY <1>1 DEF CancelEvent, RecordFits
<1>4. Tell(h, event) BY <1>2
<1> HIDE DEF event
<1>5. OnlyTouches(h)
  BY <1>1, <1>2, <1>4 DEF AdapterTypeOK, OnlyTouches, Done, Tell
<1>6. record'[h].goal_handle /\ SameAsked(h) /\ Asked(h)'
  BY <1>1, <1>2 DEF AdapterTypeOK, Records, SameAsked, Asked
<1>7. CASE told[h] # "none" \/ event = "none"
  BY <1>1, <1>4, <1>5, <1>6, <1>7 DEF Tell, Status, SameTold, ContractMove
<1>8. CASE told[h] = "none" /\ event # "none"
  <2>1. told'[h] = event /\ Status(h) = "accepted"
    BY <1>1, <1>4, <1>8 DEF Tell, AdapterTypeOK, Status
  <2>2. Status(h)' \in {"orphaned", "over"}
    BY <1>1, <1>8, <2>1 DEF Status
  <2>3. event = "CANCEL_CONFIRMED" => Status(h)' = "over"
    BY <1>1, <1>3, <2>1 DEF Status, RunningStates
  <2> QED BY <1>1, <1>3, <1>5, <1>6, <1>8, <2>1, <2>2, <2>3 DEF ContractMove
<1> QED BY <1>7, <1>8

LEMMA FacadeMoves ==
  ASSUME AdapterIInv, NEW h \in Handles,
         FacadeDecides(h) \/ FacadeEnds(h) \/ FacadeAnswersCancel(h)
  PROVE  ContractMove(h) /\ OnlyTouches(h)
<1>1. AdapterTypeOK /\ UNCHANGED adapterVars
  BY DEF AdapterIInv, FacadeDecides, FacadeEnds, FacadeAnswersCancel
<1>2. OnlyTouches(h)
  BY <1>1 DEF AdapterTypeOK, OnlyTouches, adapterVars, FacadeDecides, FacadeEnds,
             FacadeAnswersCancel
<1>3. facade[h] \notin RunningStates => facade'[h] = facade[h]
  BY <1>1 DEF AdapterTypeOK, FacadeDecides, FacadeEnds, FacadeAnswersCancel,
             RunningStates
<1>4. SameAsked(h) /\ SameTold(h)
  BY <1>1 DEF SameAsked, Asked, SameTold, adapterVars
<1>5. Status(h)' = Status(h) \/ (Status(h) = "orphaned" /\ Status(h)' = "over")
  BY <1>1, <1>3 DEF Status, adapterVars
<1> QED BY <1>2, <1>4, <1>5 DEF ContractMove

LEMMA InitIsContractInit == AdapterInit => Contract!ContractInit
BY DEF AdapterInit, Contract!ContractInit, goalStatus, cancelsAsked, NewRecord

LEMMA StepIsContractStep ==
  ASSUME AdapterIInv, AdapterIInv', [AdapterNext]_navVars
  PROVE  [Contract!ContractNext]_(Contract!contractVars)
<1>1. AdapterTypeOK /\ AdapterTypeOK' BY DEF AdapterIInv
<1>2. CASE UNCHANGED navVars
  BY <1>2 DEF navVars, adapterVars, facadeVars, Contract!contractVars,
             goalStatus, cancelsAsked
<1>3. CASE AdapterNext
  <2>1. PICK h \in Handles : ContractMove(h) /\ OnlyTouches(h)
    BY <1>3, SubmitMoves, CancelGoalMoves, GoalResponseMoves, AfterAcceptedMoves,
       ResultMoves, CancelResponseMoves, FacadeMoves
       DEF AdapterNext
  <2> QED BY <1>1, <2>1, MoveIsStep
<1> QED BY <1>2, <1>3

\* The adapter keeps its promise to the core, for any goals, in every order of
\* futures and requests, and also when futures raise.
THEOREM AdapterImplementsContract == AdapterSpec => ImplementsContract
<1>1. AdapterIInv /\ AdapterIInv' /\ [AdapterNext]_navVars
        => [Contract!ContractNext]_(Contract!contractVars)
  BY StepIsContractStep
<1> QED
  BY <1>1, InitIsContractInit, AdapterInvariant, PTL
     DEF AdapterSpec, ImplementsContract, Contract!ContractSpec

-----------------------------------------------------------------------------
(***************************************************************************)
(* What the liveness of the adapter rests on, with the fairness of the     *)
(* executor and of the Facade: no goal and no cancellation is forgotten.   *)
(***************************************************************************)
LEMMA OthersWatched ==
  ASSUME NEW h \in Handles, OnlyTouches(h), sink \in {NoHandle, h} \/ sink' = sink,
         WatchIInv, Watched(h)'
  PROVE  WatchIInv'
<1>1. SUFFICES ASSUME NEW g \in Handles, g # h PROVE Watched(g)'
  BY DEF WatchIInv
<1>2. Watched(g) BY DEF WatchIInv
<1>3. /\ (g \in submitted') = (g \in submitted)
      /\ record'[g] = record[g]
      /\ told'[g] = told[g]
      /\ awaits'[g] = awaits[g]
      /\ facade'[g] = facade[g]
      /\ reply'[g] = reply[g]
      /\ sink' = g <=> sink = g
  BY <1>1, AdapterAssumption DEF OnlyTouches
<1> QED BY <1>2, <1>3 DEF Watched, IsWatched

LEMMA SubmitGoalWatched ==
  ASSUME AdapterIInv, WatchIInv, NEW h \in Handles, SubmitGoal(h)
  PROVE  WatchIInv'
<1>0. AdapterTypeOK /\ NotSubmittedYet(h) /\ RecordFits(h)
  BY DEF AdapterIInv, SubmitGoal
<1>1. OnlyTouches(h) /\ sink' = sink
  BY <1>0 DEF AdapterTypeOK, OnlyTouches, SubmitGoal, GoalSent, GoalNotSent,
             GoalSentUnheard, Raises, Tell
<1>2. /\ record'[h] = NewRecord /\ reply'[h] = "none"
      /\ \/ told'[h] = "none" /\ awaits'[h] = {"send"}
         \/ told'[h] = "GOAL_REJECTED"
  BY <1>0 DEF AdapterTypeOK, NotSubmittedYet, SubmitGoal, GoalSent, GoalNotSent,
             GoalSentUnheard, Raises, Tell
<1>3. Watched(h)' BY <1>2 DEF Watched, IsWatched, NewRecord
<1> QED BY <1>1, <1>3, OthersWatched

\* A request that is started is answered, or has failed.
LEMMA CancelOutcomeWatched ==
  ASSUME AdapterTypeOK, NEW h \in Handles, NEW rec \in Records,
         NEW futures \in SUBSET Futures, CancelOutcome(h, rec, futures),
         RecordFits(h), Watched(h), h \in submitted, facade' = facade,
         told[h] = "none", awaits[h] \subseteq futures,
         rec \in {record[h], [record[h] EXCEPT !.cancel_requested = TRUE]},
         \/ sink' = sink
         \/ sink = h /\ sink' # h /\ "result" \in futures
  PROVE  Watched(h)'
<1>0. record[h] \in Records /\ IsWatched(h) BY DEF AdapterTypeOK, Watched
<1>1. /\ rec.goal_handle = record[h].goal_handle
      /\ record[h].cancel_requested => rec.cancel_requested
      /\ rec.cancel_started = record[h].cancel_started
      /\ rec.cancel_response = record[h].cancel_response
      /\ rec.result_status = record[h].result_status
  BY <1>0 DEF Records
<1>2. /\ record'[h].goal_handle = rec.goal_handle
      /\ record'[h].cancel_requested = rec.cancel_requested
      /\ record'[h].result_status = rec.result_status
  BY DEF CancelOutcome, Records
<1>3. reply'[h] = "valid" => facade'[h] \in {"canceling"} \cup ResultStates
  BY DEF CancelOutcome, Watched
<1>4. CASE /\ ~MayStartCancel(h, rec)
           /\ record'[h] = rec
           /\ awaits'[h] = futures
           /\ reply'[h] = reply[h]
           /\ told'[h] = told[h]
  <2>1. IsWatched(h)'
    BY <1>0, <1>1, <1>4 DEF IsWatched, MayStartCancel
  <2> QED BY <1>3, <2>1 DEF Watched
<1>5. CASE /\ MayStartCancel(h, rec)
           /\ record'[h] = [rec EXCEPT !.cancel_started = TRUE]
           /\ awaits'[h] = futures \cup {"cancel"}
           /\ reply'[h] = "asked"
           /\ told'[h] = "none"
  <2>1. record'[h].cancel_started /\ record'[h].cancel_response = rec.cancel_response
    BY <1>5 DEF Records
  <2>2. rec.cancel_response = "none"
    BY <1>0, <1>1, <1>5 DEF RecordFits, IsWatched, MayStartCancel, Records
  <2>3. IsWatched(h)'
    BY <1>0, <1>1, <1>2, <1>5, <2>1, <2>2 DEF IsWatched, MayStartCancel
  <2> QED BY <1>3, <2>3 DEF Watched
<1>6. CASE told'[h] = "CANCEL_FAILED"
  BY <1>3, <1>6 DEF Watched
<1> QED BY <1>4, <1>5, <1>6 DEF CancelOutcome

LEMMA CancelGoalWatched ==
  ASSUME AdapterIInv, WatchIInv, NEW h \in Handles, CancelGoal(h)
  PROVE  WatchIInv'
<1> DEFINE rec == [record[h] EXCEPT !.cancel_requested = TRUE]
<1>0. AdapterTypeOK /\ RecordFits(h) /\ Watched(h)
  BY DEF AdapterIInv, WatchIInv
<1>1. rec \in Records /\ awaits[h] \in SUBSET Futures
  BY <1>0 DEF AdapterTypeOK, Records
<1>2. /\ StartCancel(h, rec, awaits[h]) /\ told[h] = "none"
      /\ h \in submitted /\ UNCHANGED <<submitted, sink, facade>>
  BY DEF CancelGoal
<1>3. rec \in {record[h], [record[h] EXCEPT !.cancel_requested = TRUE]} OBVIOUS
<1> HIDE DEF rec
<1>4. CancelOutcome(h, rec, awaits[h])
  BY <1>0, <1>1, <1>2, StartCancelOutcome
<1>5. Watched(h)'
  BY <1>0, <1>1, <1>2, <1>3, <1>4, CancelOutcomeWatched
<1> QED BY <1>2, <1>5, CancelGoalMoves, OthersWatched

LEMMA GoalResponseWatched ==
  ASSUME AdapterIInv, WatchIInv, NEW h \in Handles, GoalResponse(h)
  PROVE  WatchIInv'
<1>0. /\ AdapterTypeOK /\ RecordFits(h) /\ Watched(h) /\ "send" \in awaits[h]
      /\ h \in submitted /\ sink = NoHandle
      /\ UNCHANGED <<submitted, facade, reply>>
  BY DEF AdapterIInv, WatchIInv, GoalResponse, Runs, NotSubmittedYet, facadeVars
<1>1. told[h] = "none" /\ ~record[h].goal_handle /\ IsWatched(h)
  BY <1>0 DEF RecordFits, Watched
<1>2. CASE /\ record' = [record EXCEPT ![h].goal_handle = TRUE]
           /\ sink' = h
           /\ UNCHANGED <<told, raised>>
  <2>1. record[h] \in Records BY <1>0 DEF AdapterTypeOK
  <2>2. /\ record'[h].goal_handle
        /\ record'[h].cancel_started = record[h].cancel_started
        /\ record'[h].cancel_response = record[h].cancel_response
    BY <1>0, <1>2, <2>1 DEF AdapterTypeOK, Records
  <2>3. awaits'[h] = awaits[h] \ {"send"}
    BY <1>0 DEF GoalResponse, Done, AdapterTypeOK
  <2>4. IsWatched(h)'
    BY <1>0, <1>1, <1>2, <2>2, <2>3 DEF IsWatched
  <2>5. Watched(h)' BY <1>0, <2>4 DEF Watched
  <2> QED BY <1>0, <2>5, GoalResponseMoves, OthersWatched
<1>3. CASE Tell(h, "GOAL_REJECTED") /\ UNCHANGED sink
  <2>1. told'[h] # "none" BY <1>0, <1>1, <1>3 DEF Tell, AdapterTypeOK
  <2>2. Watched(h)' BY <1>0, <2>1 DEF Watched
  <2> QED BY <1>3, <2>2, GoalResponseMoves, OthersWatched
<1> QED BY <1>2, <1>3 DEF GoalResponse

LEMMA AfterAcceptedWatched ==
  ASSUME AdapterIInv, WatchIInv, NEW h \in Handles, AfterAccepted(h)
  PROVE  WatchIInv'
<1>0. /\ AdapterTypeOK /\ RecordFits(h) /\ Watched(h)
      /\ sink = h /\ sink' = NoHandle /\ sink' # h
      /\ UNCHANGED <<submitted, facade>>
  BY AdapterAssumption DEF AdapterIInv, WatchIInv, AfterAccepted
<1>1. record[h].goal_handle /\ h \in submitted
  BY <1>0 DEF AdapterIInv, RecordFits, NotSubmittedYet, NewRecord
<1>2. CASE told[h] = "none" /\ StartCancel(h, record[h], awaits[h] \cup {"result"})
  <2>1. record[h] \in Records /\ awaits[h] \cup {"result"} \in SUBSET Futures
    BY <1>0 DEF AdapterTypeOK, Futures
  <2>2. CancelOutcome(h, record[h], awaits[h] \cup {"result"})
    BY <1>0, <1>2, <2>1, StartCancelOutcome
  <2>3. Watched(h)'
    BY <1>0, <1>1, <1>2, <2>1, <2>2, CancelOutcomeWatched
  <2> QED BY <1>0, <2>3, AfterAcceptedMoves, OthersWatched
<1>3. CASE told[h] # "none" /\ UNCHANGED <<record, told, awaits, reply, raised>>
  <2>1. Watched(h)' BY <1>0, <1>3 DEF Watched
  <2> QED BY <1>0, <2>1, AfterAcceptedMoves, OthersWatched
<1>4. CASE Tell(h, "FAILED") /\ UNCHANGED reply
  <2>1. told'[h] # "none" BY <1>0, <1>4 DEF Tell, AdapterTypeOK
  <2>2. Watched(h)' BY <1>0, <1>4, <2>1 DEF Watched
  <2> QED BY <1>0, <2>2, AfterAcceptedMoves, OthersWatched
<1> QED BY <1>2, <1>3, <1>4 DEF AfterAccepted

LEMMA ResultWatched ==
  ASSUME AdapterIInv, WatchIInv, NEW h \in Handles, Result(h)
  PROVE  WatchIInv'
<1>0. /\ AdapterTypeOK /\ RecordFits(h) /\ Watched(h) /\ record[h] \in Records
      /\ facade[h] \in ResultStates /\ Done(h, "result")
      /\ UNCHANGED <<submitted, sink, facade, reply>>
  BY DEF AdapterIInv, AdapterTypeOK, WatchIInv, Result, facadeVars
<1>1. CASE told'[h] # "none"
  <2>1. Watched(h)' BY <1>0, <1>1 DEF Watched
  <2> QED BY <1>0, <2>1, ResultMoves, OthersWatched
<1>2. CASE told'[h] = "none"
  <2>1. /\ told[h] = "none"
        /\ record' = [record EXCEPT ![h].result_status = facade[h]]
        /\ ResultEvent(record[h], facade[h]) = "none"
    BY <1>0, <1>2 DEF Result, Tell, AdapterTypeOK
  <2>2. /\ facade[h] = "CANCELED" /\ record[h].cancel_requested
        /\ record[h].cancel_response = "none"
    BY <1>0, <2>1 DEF ResultEvent, Records
  <2>3. /\ record'[h].goal_handle = record[h].goal_handle
        /\ record'[h].cancel_requested
        /\ record'[h].cancel_started = record[h].cancel_started
        /\ record'[h].cancel_response = "none"
        /\ record'[h].result_status = "CANCELED"
    BY <1>0, <2>1, <2>2 DEF AdapterTypeOK, Records
  <2>4. awaits'[h] = awaits[h] \ {"result"}
    BY <1>0 DEF Done, AdapterTypeOK
  <2>5. h \in submitted => IsWatched(h)'
    BY <1>0, <2>1, <2>2, <2>3, <2>4 DEF Watched, IsWatched
  <2>6. Watched(h)' BY <1>0, <2>5 DEF Watched
  <2> QED BY <1>0, <2>6, ResultMoves, OthersWatched
<1> QED BY <1>1, <1>2

LEMMA CancelResponseWatched ==
  ASSUME AdapterIInv, WatchIInv, NEW h \in Handles, CancelResponse(h)
  PROVE  WatchIInv'
<1>0. /\ AdapterTypeOK /\ RecordFits(h) /\ Watched(h) /\ record[h] \in Records
      /\ Done(h, "cancel") /\ UNCHANGED <<submitted, sink, facade, reply>>
  BY DEF AdapterIInv, AdapterTypeOK, WatchIInv, CancelResponse, facadeVars
<1>1. CASE told'[h] # "none"
  <2>1. Watched(h)' BY <1>0, <1>1 DEF Watched
  <2> QED BY <1>0, <2>1, CancelResponseMoves, OthersWatched
<1>2. CASE told'[h] = "none"
  <2>1. PICK response \in {"valid", "invalid"} :
          /\ record' = [record EXCEPT ![h].cancel_response = response]
          /\ Tell(h, CancelEvent(record[h], response))
    BY DEF CancelResponse
  <2>2. told[h] = "none" /\ CancelEvent(record[h], response) = "none"
    BY <1>0, <1>2, <2>1 DEF Tell, AdapterTypeOK, CancelEvent
  <2>3. response = "valid" /\ record[h].result_status # "CANCELED"
    BY <2>1, <2>2 DEF CancelEvent
  <2>4. /\ record'[h].goal_handle = record[h].goal_handle
        /\ record'[h].cancel_requested = record[h].cancel_requested
        /\ record'[h].cancel_started = record[h].cancel_started
        /\ record'[h].cancel_response = "valid"
    BY <1>0, <2>1, <2>3 DEF AdapterTypeOK, Records
  <2>5. awaits'[h] = awaits[h] \ {"cancel"}
    BY <1>0 DEF Done, AdapterTypeOK
  <2>6. h \in submitted => IsWatched(h)'
    BY <1>0, <2>2, <2>3, <2>4, <2>5 DEF Watched, IsWatched
  <2>7. Watched(h)' BY <1>0, <2>6 DEF Watched
  <2> QED BY <1>0, <2>7, CancelResponseMoves, OthersWatched
<1> QED BY <1>1, <1>2

LEMMA FacadeWatched ==
  ASSUME AdapterIInv, WatchIInv, NEW h \in Handles,
         FacadeDecides(h) \/ FacadeEnds(h) \/ FacadeAnswersCancel(h)
  PROVE  WatchIInv'
<1>0. /\ AdapterTypeOK /\ Watched(h) /\ UNCHANGED adapterVars
  BY DEF AdapterIInv, WatchIInv, FacadeDecides, FacadeEnds, FacadeAnswersCancel
<1>1. /\ reply[h] # "none" => reply'[h] # "none"
      /\ reply'[h] = "valid" => facade'[h] \in {"canceling"} \cup ResultStates
  BY <1>0 DEF Watched, AdapterTypeOK, FacadeDecides, FacadeEnds, FacadeAnswersCancel,
             ResultStates
<1>2. IsWatched(h) => IsWatched(h)'
  BY <1>0, <1>1 DEF IsWatched, adapterVars
<1>3. Watched(h)' BY <1>0, <1>1, <1>2 DEF Watched, adapterVars
<1> QED BY <1>0, <1>3, FacadeMoves, OthersWatched DEF adapterVars

LEMMA NextWatched ==
  ASSUME AdapterIInv, WatchIInv, [AdapterNext]_navVars
  PROVE  WatchIInv'
<1>1. CASE UNCHANGED navVars
  BY <1>1 DEF WatchIInv, Watched, IsWatched, navVars, adapterVars, facadeVars
<1>2. CASE AdapterNext
  BY <1>2, SubmitGoalWatched, CancelGoalWatched, GoalResponseWatched,
     AfterAcceptedWatched, ResultWatched, CancelResponseWatched, FacadeWatched
     DEF AdapterNext
<1> QED BY <1>1, <1>2

LEMMA InitWatched == AdapterInit => WatchIInv
BY DEF AdapterInit, WatchIInv, Watched

\* A goal that is watched is not forgotten.
LEMMA WatchedIsNotForgotten == AdapterIInv /\ WatchIInv => NoGoalIsForgotten
<1> SUFFICES ASSUME AdapterIInv, WatchIInv, NEW h \in submitted, told[h] = "none", sink # h
    PROVE  \/ "send" \in awaits[h] /\ facade[h] # "none"
           \/ /\ ~record[h].cancel_requested
              /\ "result" \in awaits[h]
           \/ "cancel" \in awaits[h] /\ reply[h] # "none"
           \/ /\ "result" \in awaits[h]
              /\ facade[h] \in {"canceling"} \cup ResultStates
  BY DEF NoGoalIsForgotten
<1>1. h \in Handles /\ RecordFits(h) BY DEF AdapterIInv, AdapterTypeOK
<1>2. Watched(h) /\ IsWatched(h) BY <1>1 DEF WatchIInv, Watched
<1>3. CASE "send" \in awaits[h] BY <1>1, <1>3 DEF RecordFits
<1>4. CASE record[h].goal_handle
  <2>1. CASE record[h].cancel_requested
    BY <1>1, <1>2, <1>4, <2>1 DEF RecordFits, Watched, IsWatched
  <2>2. CASE ~record[h].cancel_requested
    BY <1>2, <1>4, <2>2 DEF IsWatched
  <2> QED BY <2>1, <2>2
<1> QED BY <1>2, <1>3, <1>4 DEF IsWatched

\* Until a goal has had its terminal event, a future is listened to that completes if
\* the Facade does its part, also when futures raise and when the core cancels the
\* goal from inside its acceptance.
THEOREM GoalsAreWatched == AdapterSpec => []NoGoalIsForgotten
<1>1. AdapterSpec => []WatchIInv
  BY InitWatched, NextWatched, AdapterInvariant, PTL DEF AdapterSpec
<1> QED BY <1>1, WatchedIsNotForgotten, AdapterInvariant, PTL
=============================================================================
