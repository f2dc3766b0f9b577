-------------------------- MODULE HilBridge_proofs ---------------------------
(***************************************************************************)
(* Proofs about HilBridge, for any number of requests, sizes of history    *)
(* and memory, and numbers of events, late results and restarts.           *)
(***************************************************************************)
EXTENDS HilBridge, WellFoundedInduction, TLAPS

-----------------------------------------------------------------------------
\* The queues: what Append, Tail and rotation leave in them.
LEMMA AppendEntries ==
  ASSUME NEW S, NEW seq \in Seq(S), NEW x \in S
  PROVE  /\ Append(seq, x) \in Seq(S)
         /\ Len(Append(seq, x)) = Len(seq) + 1
         /\ Append(seq, x)[Len(seq) + 1] = x
         /\ \A i \in 1..Len(seq) : Append(seq, x)[i] = seq[i]
  OBVIOUS

LEMMA TailEntries ==
  ASSUME NEW S, NEW seq \in Seq(S), seq # <<>>
  PROVE  /\ Tail(seq) \in Seq(S)
         /\ Head(seq) \in S
         /\ Len(seq) \in Nat \ {0}
         /\ Head(seq) = seq[1]
         /\ Len(Tail(seq)) = Len(seq) - 1
         /\ \A i \in 1..Len(seq) - 1 : Tail(seq)[i] = seq[i + 1]
  OBVIOUS

\* An entry of a queue survives what is put behind it, and the head's removal
\* unless it is the head.
LEMMA EntryStays ==
  ASSUME NEW S, NEW seq \in Seq(S), NEW x \in S, NEW i \in 1..Len(seq)
  PROVE  \E j \in 1..Len(Append(seq, x)) : Append(seq, x)[j] = seq[i]
  <1>1. i \in 1..Len(Append(seq, x)) /\ Append(seq, x)[i] = seq[i]
    BY AppendEntries
  <1> QED
    BY <1>1

LEMMA EntryLeavesAsHead ==
  ASSUME NEW S, NEW seq \in Seq(S), seq # <<>>, NEW i \in 1..Len(seq)
  PROVE  \/ seq[i] = Head(seq)
         \/ \E j \in 1..Len(Tail(seq)) : Tail(seq)[j] = seq[i]
  <1>1. CASE i = 1
    BY <1>1, TailEntries
  <1>2. CASE i # 1
    <2>1. i - 1 \in 1..Len(seq) - 1 /\ Len(Tail(seq)) = Len(seq) - 1
      BY <1>2, TailEntries
    <2>2. Tail(seq)[i - 1] = seq[(i - 1) + 1]
      BY <2>1, TailEntries
    <2>3. (i - 1) + 1 = i
      OBVIOUS
    <2> QED
      BY <2>1, <2>2, <2>3
  <1> QED
    BY <1>1, <1>2

\* And what is in a queue afterwards was in it before, or was put there.
LEMMA AppendBrings ==
  ASSUME NEW S, NEW seq \in Seq(S), NEW x \in S, NEW i \in 1..Len(Append(seq, x))
  PROVE  \/ i \in 1..Len(seq) /\ Append(seq, x)[i] = seq[i]
         \/ i = Len(seq) + 1 /\ Append(seq, x)[i] = x
  BY AppendEntries

LEMMA TailBrings ==
  ASSUME NEW S, NEW seq \in Seq(S), seq # <<>>, NEW i \in 1..Len(Tail(seq))
  PROVE  i + 1 \in 1..Len(seq) /\ Tail(seq)[i] = seq[i + 1]
  BY TailEntries

-----------------------------------------------------------------------------
LEMMA HilInitIInv ==
  HilInit => HilIInv
  <1> SUFFICES ASSUME HilInit PROVE HilIInv
    OBVIOUS
  <1> USE HilAssumption DEF HilInit, J6Init, PcInit
  <1>1. HilTypeOK
    BY DEF HilTypeOK, Lives
  <1>2. Origins /\ Answers /\ InSequence /\ EventsAreNumbered /\ BatchIsComplete
    BY DEF Origins, Answers, InSequence, EventsAreNumbered, BatchIsComplete,
           ResultIsEarned, OneAnswerPerGoal
  <1>3. NothingIsLost
    BY DEF NothingIsLost
  <1> QED
    BY <1>1, <1>2, <1>3 DEF HilIInv

\* The core's calls: a new event, with a number nobody has seen.
LEMMA EventIInv ==
  ASSUME HilIInv, NEW r \in Requests, SubmitGoal(r) \/ CancelGoal(r)
  PROVE  HilIInv'
  <1> USE HilAssumption
  <1>a. PICK operation \in {"SUBMIT_GOAL", "CANCEL_GOAL"} : AppendEvent(operation, r)
    BY DEF SubmitGoal, CancelGoal
  <1>b. nextEventId \in Nat /\ j6Life \in Lives
    BY DEF HilIInv, HilTypeOK
  <1>c. [event_id |-> nextEventId, operation |-> operation, nav_request_id |-> r,
         life |-> j6Life] \in Events
    BY <1>b DEF Events
  <1>0. PICK e \in Events :
          /\ e.event_id = nextEventId
          /\ e.nav_request_id = r
          /\ e.life = j6Life
          /\ history' = { old \in history : old.event_id + HistorySize > nextEventId }
                          \cup {e}
          /\ nextEventId' = nextEventId + 1
    BY <1>a, <1>c DEF AppendEvent
  <1>1. /\ record' \in [Requests -> Records \cup {None}]
        /\ record'[r] # None
        /\ \A q \in Requests : q # r => record'[q] = record[q]
        /\ record[r] # None => record'[r].terminal_event = record[r].terminal_event
        /\ record[r] = None => record'[r].terminal_event = "none"
    <2>1. record \in [Requests -> Records \cup {None}]
      BY DEF HilIInv, HilTypeOK
    <2>2. CASE SubmitGoal(r)
      <3> DEFINE new == [cancel_requested |-> FALSE, terminal_event |-> "none"]
      <3>1. new \in Records /\ new.terminal_event = "none"
        BY DEF Records
      <3>2. record' = [record EXCEPT ![r] = new] /\ record[r] = None
        BY <2>2 DEF SubmitGoal
      <3> QED
        BY <2>1, <3>1, <3>2
    <2>3. CASE CancelGoal(r)
      <3> DEFINE new == [record[r] EXCEPT !.cancel_requested = TRUE]
      <3>1. record[r] \in Records
        BY <2>1, <2>3 DEF CancelGoal
      <3>2. new \in Records /\ new.terminal_event = record[r].terminal_event
        BY <3>1 DEF Records
      <3>3. record' = [record EXCEPT ![r] = new] /\ record[r] # None
        BY <2>3 DEF CancelGoal
      <3> QED
        BY <2>1, <3>2, <3>3
    <2> QED
      BY <2>2, <2>3
  <1>2. UNCHANGED <<delivering, told, rosVars, results, netVars, late, lifeVars,
                    lastStarted, outcomes>>
    BY DEF SubmitGoal, CancelGoal
  <1>3. HilTypeOK'
    BY <1>0, <1>1, <1>2 DEF HilIInv, HilTypeOK, Events, rosVars, netVars, lifeVars
  <1>4. Origins'
    BY <1>0, <1>1, <1>2 DEF HilIInv, HilTypeOK, Origins, ResultIsEarned,
       rosVars, netVars, lifeVars, Events
  <1>5. Answers'
    <2>1. \A q \in Requests :
            record[q] # None =>
              record'[q] # None /\ record'[q].terminal_event = record[q].terminal_event
      BY <1>1
    <2>2. \A i \in 1..Len(delivering) : delivering[i].nav_request_id \in Requests
      <3>1. \A i \in 1..Len(delivering) : delivering[i] \in Results
        BY DEF HilIInv, HilTypeOK
      <3> QED
        BY <3>1 DEF Results
    <2> QED
      BY <2>1, <2>2, <1>2 DEF HilIInv, Answers, OneAnswerPerGoal
  <1>6. InSequence'
    BY <1>2 DEF HilIInv, InSequence, rosVars, netVars
  <1>7. EventsAreNumbered'
    BY <1>0 DEF HilIInv, HilTypeOK, EventsAreNumbered, Events
  <1>8. BatchIsComplete'
    BY <1>0, <1>2 DEF HilIInv, HilTypeOK, BatchIsComplete, EventsAreNumbered,
       Events, netVars, lifeVars
  <1>9. NothingIsLost'
    <2> SUFFICES ASSUME j6Life' = 1, NEW old \in history',
                        old.operation = "SUBMIT_GOAL"
                 PROVE  \/ old.event_id > lastEventId'
                        \/ InHand(old.nav_request_id)'
                        \/ record'[old.nav_request_id].terminal_event # "none"
      BY DEF NothingIsLost
    <2>1. CASE old = e
      BY <2>1, <1>0, <1>2 DEF HilIInv, HilTypeOK, BatchIsComplete, netVars, lifeVars
    <2>2. CASE old # e
      <3>1. old \in history
        BY <2>2, <1>0
      <3>2. InHand(old.nav_request_id)' = InHand(old.nav_request_id)
        BY <1>2 DEF InHand, rosVars
      <3>3. record[old.nav_request_id] # None
        BY <3>1 DEF HilIInv, Origins
      <3>4. \/ old.event_id > lastEventId
            \/ InHand(old.nav_request_id)
            \/ record[old.nav_request_id].terminal_event # "none"
        BY <3>1, <1>2 DEF HilIInv, NothingIsLost, lifeVars
      <3>5. old.nav_request_id \in Requests
        BY <3>1 DEF HilIInv, HilTypeOK, Events
      <3> QED
        BY <3>2, <3>3, <3>4, <3>5, <1>1, <1>2 DEF netVars
    <2> QED
      BY <2>1, <2>2
  <1> QED
    BY <1>3, <1>4, <1>5, <1>6, <1>7, <1>8, <1>9 DEF HilIInv

\* The runner takes a result: the goal it is about, if it was open, is answered by it.
LEMMA QueueResultAnswers ==
  ASSUME HilIInv, NEW result \in outcomes, QueueResult(result), UNCHANGED told
  PROVE  /\ record' \in [Requests -> Records \cup {None}]
         /\ delivering' \in Seq(Results)
         /\ \A r \in Requests :
              record[r] # None =>
                /\ record'[r] # None
                /\ record[r].terminal_event # "none" =>
                     record'[r].terminal_event # "none"
         /\ \A i \in 1..Len(delivering') : delivering'[i] \in outcomes
         /\ Answers'
         /\ Accepted(result) => record'[result.nav_request_id].terminal_event # "none"
  <1> DEFINE q == result.nav_request_id
  <1>1. /\ result \in Results
        /\ record \in [Requests -> Records \cup {None}]
        /\ delivering \in Seq(Results)
        /\ told \in [Requests -> {"none"} \cup Outcomes]
    BY DEF HilIInv, HilTypeOK
  <1>2. q \in Requests /\ result.event \in Outcomes
    BY <1>1 DEF Results
  <1>3. /\ Answers
        /\ \A i \in 1..Len(delivering) : delivering[i] \in outcomes
    BY DEF HilIInv, Origins
  <1>4. CASE record[q] # None /\ record[q].terminal_event = "none"
    <2> DEFINE new == [record[q] EXCEPT !.terminal_event = result.event]
    <2>1. record[q] \in Records
      BY <1>1, <1>2, <1>4
    <2>2. new \in Records /\ new.terminal_event = result.event
      BY <2>1, <1>2 DEF Records
    <2>3. new # None
      BY <2>2, HilAssumption
    <2>4. /\ record' = [record EXCEPT ![q] = new]
          /\ delivering' = Append(delivering, result)
      BY <1>4 DEF QueueResult
    <2>5. /\ record'[q] = new
          /\ \A r \in Requests : r # q => record'[r] = record[r]
          /\ record' \in [Requests -> Records \cup {None}]
      BY <2>2, <2>4, <1>1, <1>2
    <2>6. result.event # "none"
      BY <1>2 DEF Outcomes
    <2>7. \A i \in 1..Len(delivering') :
            \/ i \in 1..Len(delivering) /\ delivering'[i] = delivering[i]
            \/ i = Len(delivering) + 1 /\ delivering'[i] = result
      BY <2>4, <1>1, AppendBrings
    <2>8. told[q] = "none"
      BY <1>2, <1>3, <1>4 DEF Answers
    <2>9. \A i \in 1..Len(delivering) : delivering[i].nav_request_id # q
      <3> SUFFICES ASSUME NEW i \in 1..Len(delivering), delivering[i].nav_request_id = q
                   PROVE  FALSE
        OBVIOUS
      <3>1. record[q].terminal_event = delivering[i].event
        BY <1>3 DEF Answers
      <3>2. delivering[i] \in Results
        BY <1>1
      <3> QED
        BY <3>1, <3>2, <1>4 DEF Results, Outcomes
    <2>10. \A i \in 1..Len(delivering) : delivering[i].nav_request_id \in Requests
      <3>1. \A i \in 1..Len(delivering) : delivering[i] \in Results
        BY <1>1
      <3> QED
        BY <3>1 DEF Results
    <2> HIDE DEF q, new
    <2>11. Len(delivering) \in Nat
      BY <1>1
    <2>12. ASSUME NEW i \in 1..Len(delivering')
           PROVE  LET r == delivering'[i].nav_request_id IN
                  record'[r] # None /\ record'[r].terminal_event = delivering'[i].event
      <3>1. CASE i \in 1..Len(delivering) /\ delivering'[i] = delivering[i]
        BY <3>1, <2>5, <2>9, <2>10, <1>3 DEF Answers
      <3>2. CASE delivering'[i] = result
        BY <3>2, <2>2, <2>3, <2>5 DEF q
      <3> QED
        BY <3>1, <3>2, <2>7
    <2>13. ASSUME NEW r \in Requests, told'[r] # "none"
           PROVE  record'[r] # None /\ record'[r].terminal_event = told'[r]
      BY <2>13, <2>5, <2>8, <1>3 DEF Answers
    <2>14. ASSUME NEW i \in 1..Len(delivering')
           PROVE  /\ told'[delivering'[i].nav_request_id] = "none"
                  /\ \A j \in 1..Len(delivering') :
                       delivering'[j].nav_request_id = delivering'[i].nav_request_id
                         => i = j
      <3>1. told'[delivering'[i].nav_request_id] = "none"
        BY <2>7, <2>8, <1>3 DEF Answers, OneAnswerPerGoal, q
      <3>2. ASSUME NEW j \in 1..Len(delivering'),
                   delivering'[j].nav_request_id = delivering'[i].nav_request_id
            PROVE  i = j
        <4>1. CASE i \in 1..Len(delivering) /\ delivering'[i] = delivering[i]
          BY <4>1, <3>2, <2>7, <2>9, <1>3 DEF Answers, OneAnswerPerGoal, q
        <4>2. CASE i = Len(delivering) + 1 /\ delivering'[i] = result
          BY <4>2, <3>2, <2>7, <2>9 DEF q
        <4> QED
          BY <4>1, <4>2, <2>7
      <3> QED
        BY <3>1, <3>2
    <2>15. Answers'
      BY <2>12, <2>13, <2>14 DEF Answers, OneAnswerPerGoal
    <2>16. delivering' \in Seq(Results)
      BY <1>1, <2>4
    <2>17. \A i \in 1..Len(delivering') : delivering'[i] \in outcomes
      BY <2>7, <1>3
    <2>18. \A r \in Requests :
             record[r] # None =>
               /\ record'[r] # None
               /\ record[r].terminal_event # "none" => record'[r].terminal_event # "none"
      BY <2>2, <2>3, <2>5, <2>6
    <2>19. record'[result.nav_request_id].terminal_event # "none"
      BY <2>2, <2>5, <2>6 DEF q
    <2> QED
      BY <2>5, <2>15, <2>16, <2>17, <2>18, <2>19
  <1>5. CASE ~(record[q] # None /\ record[q].terminal_event = "none")
    <2>1. record' = record /\ delivering' = delivering
      BY <1>5 DEF QueueResult
    <2>2. Answers'
      BY <2>1, <1>3 DEF Answers, OneAnswerPerGoal
    <2>3. Accepted(result) => record'[q].terminal_event # "none"
      BY <2>1, <1>5 DEF Accepted
    <2> QED
      BY <2>1, <2>2, <2>3, <1>1, <1>3
  <1> QED
    BY <1>4, <1>5

\* What the bridge has in its hands stays there, or is answered.
LEMMA NothingIsLostStep ==
  ASSUME HilIInv, UNCHANGED <<history, lastEventId, j6Life>>,
         \A r \in Requests :
           InHand(r) => InHand(r)' \/ record'[r].terminal_event # "none",
         \A r \in Requests :
           record[r] # None /\ record[r].terminal_event # "none" =>
             record'[r].terminal_event # "none"
  PROVE  NothingIsLost'
  <1> SUFFICES ASSUME j6Life = 1, NEW e \in history, e.operation = "SUBMIT_GOAL"
               PROVE  \/ e.event_id > lastEventId
                      \/ InHand(e.nav_request_id)'
                      \/ record'[e.nav_request_id].terminal_event # "none"
    BY DEF NothingIsLost
  <1>1. e \in Events
    BY DEF HilIInv, HilTypeOK
  <1>2. e.nav_request_id \in Requests /\ record[e.nav_request_id] # None
    BY <1>1 DEF HilIInv, Origins, Events
  <1>3. \/ e.event_id > lastEventId
        \/ InHand(e.nav_request_id)
        \/ record[e.nav_request_id].terminal_event # "none"
    BY DEF HilIInv, NothingIsLost
  <1> QED
    BY <1>2, <1>3

\* Delivery: the head of the queue becomes what the core was told.
LEMMA DeliverIInv ==
  ASSUME HilIInv, Deliver
  PROVE  HilIInv'
  <1>1. /\ delivering \in Seq(Results)
        /\ delivering # <<>>
        /\ told \in [Requests -> {"none"} \cup Outcomes]
    BY DEF HilIInv, HilTypeOK, Deliver
  <1> DEFINE first == Head(delivering)
  <1>2. /\ first \in Results
        /\ first = delivering[1]
        /\ 1 \in 1..Len(delivering)
        /\ delivering' = Tail(delivering)
        /\ delivering' \in Seq(Results)
    BY <1>1, TailEntries DEF Deliver
  <1>3. first.nav_request_id \in Requests /\ first.event \in Outcomes
    BY <1>2 DEF Results
  <1>4. /\ told' \in [Requests -> {"none"} \cup Outcomes]
        /\ told'[first.nav_request_id] = first.event
        /\ \A r \in Requests : r # first.nav_request_id => told'[r] = told[r]
    BY <1>1, <1>3 DEF Deliver
  <1>5. \A i \in 1..Len(delivering') :
          i + 1 \in 1..Len(delivering) /\ delivering'[i] = delivering[i + 1]
    BY <1>1, <1>2, TailBrings
  <1> HIDE DEF first
  <1>6. UNCHANGED <<record, nextEventId, history, rosVars, results, netVars, late,
                    lifeVars, lastStarted, outcomes>>
    BY DEF Deliver
  <1>7. HilTypeOK'
    BY <1>2, <1>4, <1>6 DEF HilIInv, HilTypeOK, rosVars, netVars, lifeVars
  <1>8. Origins'
    <2>1. first \in outcomes
      BY <1>2 DEF HilIInv, Origins
    <2>2. first.life \in 1..j6Life
      <3>1. first.life <= j6Life
        BY <2>1 DEF HilIInv, Origins
      <3>2. first.life \in Lives /\ j6Life \in Lives
        BY <1>2 DEF Results, HilIInv, HilTypeOK
      <3> QED
        BY <3>1, <3>2, HilAssumption DEF Lives
    <2>3. first = [nav_request_id |-> first.nav_request_id, event |-> first.event,
                   life |-> first.life]
      BY <1>2 DEF Results
    <2>4. ResultIsEarned'
      <3> SUFFICES ASSUME NEW r \in Requests, told'[r] # "none"
                   PROVE  \E life \in 1..j6Life :
                            [nav_request_id |-> r, event |-> told'[r], life |-> life]
                              \in outcomes
        BY <1>6 DEF ResultIsEarned, lifeVars
      <3>1. CASE r = first.nav_request_id
        BY <3>1, <2>1, <2>2, <2>3, <1>4
      <3>2. CASE r # first.nav_request_id
        BY <3>2, <1>4 DEF HilIInv, Origins, ResultIsEarned
      <3> QED
        BY <3>1, <3>2
    <2>5. \A i \in 1..Len(delivering') : delivering'[i] \in outcomes
      BY <1>5 DEF HilIInv, Origins
    <2> QED
      BY <2>4, <2>5, <1>6 DEF HilIInv, Origins, rosVars, netVars, lifeVars
  <1>9. Answers'
    <2>1. Answers
      BY DEF HilIInv
    <2>2. record[first.nav_request_id] # None
            /\ record[first.nav_request_id].terminal_event = first.event
      BY <2>1, <1>2 DEF Answers
    <2>3. \A i \in 1..Len(delivering') :
            delivering'[i].nav_request_id # first.nav_request_id
      <3> SUFFICES ASSUME NEW i \in 1..Len(delivering'),
                          delivering'[i].nav_request_id = first.nav_request_id
                   PROVE  FALSE
        OBVIOUS
      <3>1. i + 1 = 1
        BY <2>1, <1>2, <1>5 DEF Answers, OneAnswerPerGoal
      <3>2. i \in 1..Len(delivering')
        OBVIOUS
      <3> QED
        BY <3>1, <3>2
    <2>4. \A i \in 1..Len(delivering') :
            LET r == delivering'[i].nav_request_id IN
            record'[r] # None /\ record'[r].terminal_event = delivering'[i].event
      BY <2>1, <1>5, <1>6 DEF Answers
    <2>5. \A r \in Requests :
            told'[r] # "none" => record'[r] # None /\ record'[r].terminal_event = told'[r]
      BY <2>1, <2>2, <1>4, <1>6 DEF Answers
    <2>6. ASSUME NEW i \in 1..Len(delivering')
          PROVE  /\ told'[delivering'[i].nav_request_id] = "none"
                 /\ \A j \in 1..Len(delivering') :
                      delivering'[j].nav_request_id = delivering'[i].nav_request_id
                        => i = j
      <3>1. delivering'[i].nav_request_id \in Requests
        <4>1. delivering'[i] \in Results
          BY <1>2
        <4> QED
          BY <4>1 DEF Results
      <3>2. told'[delivering'[i].nav_request_id] = "none"
        BY <2>1, <2>3, <3>1, <1>4, <1>5 DEF Answers, OneAnswerPerGoal
      <3>3. ASSUME NEW j \in 1..Len(delivering'),
                   delivering'[j].nav_request_id = delivering'[i].nav_request_id
            PROVE  i = j
        <4>1. /\ i + 1 \in 1..Len(delivering) /\ delivering'[i] = delivering[i + 1]
              /\ j + 1 \in 1..Len(delivering) /\ delivering'[j] = delivering[j + 1]
          BY <1>5, <3>3
        <4>2. delivering[j + 1].nav_request_id = delivering[i + 1].nav_request_id
          BY <4>1, <3>3
        <4>3. \A k, l \in 1..Len(delivering) :
                delivering[l].nav_request_id = delivering[k].nav_request_id => k = l
          BY <2>1 DEF Answers, OneAnswerPerGoal
        <4>4. i + 1 = j + 1
          BY <4>1, <4>2, <4>3
        <4>5. i \in Nat /\ j \in Nat
          BY <3>3
        <4> QED
          BY <4>4, <4>5
      <3> QED
        BY <3>2, <3>3
    <2> QED
      BY <2>4, <2>5, <2>6 DEF Answers, OneAnswerPerGoal
  <1>10. InSequence' /\ EventsAreNumbered' /\ BatchIsComplete'
    BY <1>6 DEF HilIInv, InSequence, EventsAreNumbered, BatchIsComplete, rosVars, netVars,
       lifeVars
  <1>11. NothingIsLost'
    BY <1>6 DEF HilIInv, NothingIsLost, InHand, rosVars, netVars, lifeVars
  <1> QED
    BY <1>7, <1>8, <1>9, <1>10, <1>11 DEF HilIInv

\* Polling: what the runner has of later events is the whole batch.
LEMMA PollIInv ==
  ASSUME HilIInv, PollHeard \/ PollFails \/ NothingToPost
  PROVE  HilIInv'
  <1>1. /\ batch' \in {batch, EventsAfter}
        /\ thread' \in {"post", "poll", "process"}
        /\ UNCHANGED <<j6Vars, rosVars, results, lastEventId, processed, late, lifeVars,
                       lastStarted, outcomes>>
    BY DEF PollHeard, PollFails, NothingToPost
  <1> USE DEF j6Vars, rosVars, lifeVars
  <1>2. HilTypeOK'
    BY <1>1 DEF HilIInv, HilTypeOK, EventsAfter
  <1>3. Origins'
    <2>1. \A e \in batch' : e.life <= j6Life'
      <3>1. j6Life \in Nat
        BY DEF HilIInv, HilTypeOK, Lives
      <3> QED
        BY <3>1, <1>1 DEF HilIInv, Origins, EventsAfter
    <2> QED
      BY <2>1, <1>1 DEF HilIInv, Origins, ResultIsEarned
  <1>4. Answers' /\ EventsAreNumbered'
    BY <1>1 DEF HilIInv, Answers, OneAnswerPerGoal, EventsAreNumbered
  <1>5. InSequence'
    <2>1. /\ \A e \in EventsAfter : lastEventId < e.event_id
          /\ \A e, other \in EventsAfter : e.event_id = other.event_id => e = other
      <3>1. \A e \in history : e.event_id \in Nat
        BY DEF HilIInv, HilTypeOK, Events
      <3>2. lastEventId \in Nat
        BY DEF HilIInv, HilTypeOK
      <3> QED
        BY <3>1, <3>2 DEF HilIInv, EventsAreNumbered, EventsAfter
    <2>2. /\ \A e \in batch' : lastEventId < e.event_id
          /\ \A e, other \in batch' : e.event_id = other.event_id => e = other
      BY <2>1, <1>1 DEF HilIInv, InSequence
    <2> QED
      BY <2>2, <1>1 DEF HilIInv, InSequence
  <1>6. BatchIsComplete'
    <2>1. \A e \in history : e.event_id \in Nat
      BY DEF HilIInv, HilTypeOK, Events
    <2>2. lastEventId \in Nat
      BY DEF HilIInv, HilTypeOK
    <2> QED
      BY <2>1, <2>2, <1>1 DEF HilIInv, BatchIsComplete, EventsAreNumbered, EventsAfter
  <1>7. NothingIsLost'
    BY <1>1 DEF HilIInv, NothingIsLost, InHand
  <1> QED
    BY <1>2, <1>3, <1>4, <1>5, <1>6, <1>7 DEF HilIInv

\* A late post: only the runner takes notice.
LEMMA LateIInv ==
  ASSUME HilIInv, NEW result \in Results, LatePostArrives(result)
  PROVE  HilIInv'
  <1>1. /\ QueueResult(result)
        /\ result \in outcomes
        /\ late' = late \ {result}
        /\ UNCHANGED <<nextEventId, history, told, rosVars, results, netVars, lifeVars,
                       lastStarted, outcomes>>
    BY DEF LatePostArrives, HilIInv, Origins
  <1>2. /\ record' \in [Requests -> Records \cup {None}]
        /\ delivering' \in Seq(Results)
        /\ \A r \in Requests :
             record[r] # None =>
               /\ record'[r] # None
               /\ record[r].terminal_event # "none" => record'[r].terminal_event # "none"
        /\ \A i \in 1..Len(delivering') : delivering'[i] \in outcomes
        /\ Answers'
    BY <1>1, QueueResultAnswers
  <1> USE DEF rosVars, netVars, lifeVars
  <1>3. HilTypeOK'
    BY <1>1, <1>2 DEF HilIInv, HilTypeOK
  <1>4. Origins'
    <2>1. \A e \in history : e.nav_request_id \in Requests
      BY DEF HilIInv, HilTypeOK, Events
    <2> QED
      BY <2>1, <1>1, <1>2 DEF HilIInv, Origins, ResultIsEarned
  <1>5. InSequence' /\ EventsAreNumbered' /\ BatchIsComplete'
    BY <1>1 DEF HilIInv, InSequence, EventsAreNumbered, BatchIsComplete
  <1>6. NothingIsLost'
    <2>1. \A r \in Requests : InHand(r)' = InHand(r)
      BY <1>1 DEF InHand
    <2> QED
      BY <2>1, <1>1, <1>2, NothingIsLostStep
  <1> QED
    BY <1>2, <1>3, <1>4, <1>5, <1>6 DEF HilIInv
\* Processing: the first event becomes the last one processed, and its execution, if
\* it is a submission, the last one queued.
LEMMA ProcessEventIInv ==
  ASSUME HilIInv, ProcessEvent
  PROVE  HilIInv'
  <1>0. PICK first \in batch :
          /\ Earliest(first)
          /\ batch' = batch \ {first}
          /\ lastEventId' = IF first.event_id > lastEventId
                            THEN first.event_id ELSE lastEventId
          /\ \/ IsProcessed(first.event_id) /\ UNCHANGED <<processed, executions>>
             \/ /\ ~IsProcessed(first.event_id)
                /\ Remember(first.event_id)
                /\ executions' =
                     IF first.operation = "SUBMIT_GOAL"
                     THEN Append(executions,
                                 [event_id |-> first.event_id, life |-> first.life,
                                  nav_request_id |-> first.nav_request_id])
                     ELSE executions
    BY DEF ProcessEvent
  <1> DEFINE request == [event_id |-> first.event_id, life |-> first.life,
                         nav_request_id |-> first.nav_request_id]
  <1>1. \A other \in batch : other # first => first.event_id < other.event_id
    <2>1. \A e \in batch : e.event_id \in Nat
      BY DEF HilIInv, HilTypeOK, Events
    <2>2. \A other \in batch : first.event_id = other.event_id => other = first
      BY DEF HilIInv, InSequence
    <2> QED
      BY <2>1, <2>2, <1>0 DEF Earliest
  <1>2. first \in Events /\ batch \subseteq Events
    BY <1>1 DEF HilIInv, HilTypeOK
  <1>3. /\ first.event_id \in Nat /\ first.life \in Lives
        /\ first.nav_request_id \in Requests
        /\ request \in ExecutionRequests
    BY <1>2 DEF Events, ExecutionRequests
  <1>4. /\ lastEventId \in Nat /\ lastStarted \in Nat /\ j6Life \in Nat
        /\ nextEventId \in Nat
        /\ processed \in Seq(Nat) /\ Len(processed) <= ProcessedSize
        /\ executions \in Seq(ExecutionRequests)
    BY DEF HilIInv, HilTypeOK, Lives
  <1>5. lastEventId < first.event_id /\ first.life <= j6Life
    BY <1>1 DEF HilIInv, InSequence, Origins
  <1>6. ~IsProcessed(first.event_id)
    <2> SUFFICES ASSUME NEW i \in 1..Len(processed), processed[i] = first.event_id
                 PROVE  FALSE
      BY DEF IsProcessed
    <2>1. processed[i] <= lastEventId
      BY DEF HilIInv, InSequence
    <2> QED
      BY <2>1, <1>3, <1>4, <1>5
  <1>7. /\ batch' = batch \ {first}
        /\ lastEventId' = first.event_id
        /\ Remember(first.event_id)
        /\ executions' = IF first.operation = "SUBMIT_GOAL"
                         THEN Append(executions, request) ELSE executions
        /\ thread' = IF batch' = {} THEN "post" ELSE "process"
        /\ UNCHANGED <<j6Vars, active, results, late, lifeVars, lastStarted, outcomes>>
    <2>1. thread' = IF batch' = {} THEN "post" ELSE "process"
      BY DEF ProcessEvent
    <2>2. UNCHANGED <<j6Vars, active, results, late, lifeVars, lastStarted, outcomes>>
      BY DEF ProcessEvent
    <2> QED
      BY <2>1, <2>2, <1>0, <1>5, <1>6
  <1>8. /\ processed' \in Seq(Nat) /\ Len(processed') <= ProcessedSize
        /\ \A i \in 1..Len(processed') : processed'[i] <= first.event_id
    <2>0. \A i \in 1..Len(processed) : processed[i] \in Nat /\ processed[i] <= first.event_id
      <3>1. \A i \in 1..Len(processed) : processed[i] <= lastEventId /\ processed[i] \in Nat
        BY <1>4 DEF HilIInv, InSequence
      <3> QED
        BY <3>1, <1>3, <1>4, <1>5
    <2>1. CASE Len(processed) >= ProcessedSize
      <3>1. processed' = Append(Tail(processed), first.event_id)
        BY <2>1, <1>7 DEF Remember
      <3>2. processed # <<>>
        BY <2>1, <1>4, HilAssumption
      <3>3. /\ Tail(processed) \in Seq(Nat)
            /\ Len(Tail(processed)) = Len(processed) - 1
            /\ \A i \in 1..Len(Tail(processed)) :
                 i + 1 \in 1..Len(processed) /\ Tail(processed)[i] = processed[i + 1]
        BY <3>2, <1>4, TailEntries, TailBrings
      <3>4. /\ processed' \in Seq(Nat)
            /\ Len(processed') = Len(Tail(processed)) + 1
            /\ \A i \in 1..Len(processed') :
                 \/ i \in 1..Len(Tail(processed)) /\ processed'[i] = Tail(processed)[i]
                 \/ processed'[i] = first.event_id
        BY <3>1, <3>3, <1>3, AppendEntries, AppendBrings
      <3>5. Len(processed') <= ProcessedSize
        BY <3>3, <3>4, <1>4, HilAssumption
      <3>6. \A i \in 1..Len(processed') : processed'[i] <= first.event_id
        <4>1. \A i \in 1..Len(Tail(processed)) : Tail(processed)[i] <= first.event_id
          BY <3>3, <2>0
        <4>2. first.event_id <= first.event_id
          BY <1>3
        <4> QED
          BY <3>4, <4>1, <4>2
      <3> QED
        BY <3>4, <3>5, <3>6
    <2>2. CASE ~(Len(processed) >= ProcessedSize)
      <3>1. processed' = Append(processed, first.event_id)
        BY <2>2, <1>7 DEF Remember
      <3>2. /\ processed' \in Seq(Nat)
            /\ Len(processed') = Len(processed) + 1
            /\ \A i \in 1..Len(processed') :
                 \/ i \in 1..Len(processed) /\ processed'[i] = processed[i]
                 \/ processed'[i] = first.event_id
        BY <3>1, <1>3, <1>4, AppendEntries, AppendBrings
      <3>3. Len(processed) + 1 <= ProcessedSize
        BY <2>2, <1>4, HilAssumption
      <3> QED
        BY <3>2, <3>3, <2>0, <1>3
    <2> QED
      BY <2>1, <2>2
  <1>9. /\ executions' \in Seq(ExecutionRequests)
        /\ Len(executions) \in Nat
        /\ \A i \in 1..Len(executions') :
             \/ i \in 1..Len(executions) /\ executions'[i] = executions[i]
             \/ i = Len(executions) + 1 /\ executions'[i] = request
        /\ \A i \in 1..Len(executions) :
             i \in 1..Len(executions') /\ executions'[i] = executions[i]
        /\ first.operation = "SUBMIT_GOAL" =>
             \E i \in 1..Len(executions') : executions'[i] = request
    <2> HIDE DEF request
    <2>1. CASE first.operation = "SUBMIT_GOAL"
      <3>1. executions' = Append(executions, request)
        BY <2>1, <1>7
      <3> QED
        BY <3>1, <1>3, <1>4, AppendEntries, AppendBrings
    <2>2. CASE first.operation # "SUBMIT_GOAL"
      BY <2>2, <1>4, <1>7
    <2> QED
      BY <2>1, <2>2
  <1>10. request.event_id = first.event_id /\ request.life = first.life
           /\ request.nav_request_id = first.nav_request_id
    OBVIOUS
  <1> HIDE DEF request
  <1>11. HilTypeOK'
    BY <1>2, <1>3, <1>7, <1>8, <1>9 DEF HilIInv, HilTypeOK, j6Vars, lifeVars
  <1>12. Origins'
    <2>1. \A i \in 1..Len(executions') : executions'[i].life <= j6Life
      BY <1>5, <1>9, <1>10 DEF HilIInv, Origins
    <2> QED
      BY <2>1, <1>7 DEF HilIInv, Origins, ResultIsEarned, j6Vars, lifeVars
  <1>13. Answers' /\ EventsAreNumbered'
    BY <1>7 DEF HilIInv, Answers, OneAnswerPerGoal, EventsAreNumbered, j6Vars
  <1>14. InSequence'
    <2>0. \A i \in 1..Len(executions) : executions[i].event_id \in Nat
      <3>1. \A i \in 1..Len(executions) : executions[i] \in ExecutionRequests
        BY <1>4
      <3> QED
        BY <3>1 DEF ExecutionRequests
    <2>1. \A i \in 1..Len(executions) :
            /\ lastStarted < executions[i].event_id
            /\ executions[i].event_id <= lastEventId
            /\ executions[i].event_id < first.event_id
      BY <2>0, <1>3, <1>4, <1>5 DEF HilIInv, InSequence
    <2>2. lastStarted < first.event_id
      BY <1>3, <1>4, <1>5 DEF HilIInv, InSequence
    <2>3. \A i \in 1..Len(executions') :
            lastStarted < executions'[i].event_id /\ executions'[i].event_id <= first.event_id
      BY <2>0, <2>1, <2>2, <1>3, <1>9, <1>10
    <2>4. ASSUME NEW i \in 1..Len(executions'), NEW j \in 1..Len(executions'), i < j
          PROVE  executions'[i].event_id < executions'[j].event_id
      <3>1. i \in 1..Len(executions) /\ executions'[i] = executions[i]
        BY <2>4, <1>9
      <3>2. CASE j \in 1..Len(executions) /\ executions'[j] = executions[j]
        BY <3>1, <3>2, <2>4 DEF HilIInv, InSequence
      <3>3. CASE executions'[j] = request
        BY <3>1, <3>3, <2>1, <1>10
      <3> QED
        BY <3>2, <3>3, <1>9
    <2>5. \A e \in batch' : first.event_id < e.event_id
      BY <1>1, <1>7
    <2>6. \A e, other \in batch' : e.event_id = other.event_id => e = other
      BY <1>7 DEF HilIInv, InSequence
    <2>7. lastStarted' <= lastEventId'
      BY <2>2, <1>3, <1>4, <1>7
    <2> QED
      BY <2>3, <2>4, <2>5, <2>6, <2>7, <1>7, <1>8 DEF InSequence
  <1>15. BatchIsComplete'
    <2> SUFFICES ASSUME j6Life = 1
                 PROVE  /\ lastEventId' < nextEventId
                        /\ \A e \in batch' : e.event_id < nextEventId
                        /\ \A e \in batch', other \in history :
                             lastEventId' < other.event_id /\ other.event_id <= e.event_id =>
                               other \in batch'
      BY <1>7 DEF BatchIsComplete, j6Vars, lifeVars
    <2>1. /\ \A e \in batch : e.event_id < nextEventId
          /\ \A e \in batch, other \in history :
               lastEventId < other.event_id /\ other.event_id <= e.event_id =>
                 other \in batch
      BY DEF HilIInv, BatchIsComplete
    <2>2. \A other \in history : other.event_id \in Nat
      BY DEF HilIInv, HilTypeOK, Events
    <2>3. ASSUME NEW e \in batch', NEW other \in history,
                 first.event_id < other.event_id, other.event_id <= e.event_id
          PROVE  other \in batch'
      <3>1. e \in batch /\ other # first
        BY <2>2, <2>3, <1>3, <1>7
      <3>2. lastEventId < other.event_id
        BY <2>2, <2>3, <1>3, <1>4, <1>5
      <3> QED
        BY <2>1, <2>3, <3>1, <3>2, <1>7
    <2> QED
      BY <2>1, <2>3, <1>1, <1>7
  <1>16. NothingIsLost'
    <2> SUFFICES ASSUME j6Life = 1, NEW e \in history, e.operation = "SUBMIT_GOAL"
                 PROVE  \/ e.event_id > lastEventId'
                        \/ InHand(e.nav_request_id)'
                        \/ record'[e.nav_request_id].terminal_event # "none"
      BY <1>7 DEF NothingIsLost, j6Vars, lifeVars
    <2>1. e \in Events
      BY DEF HilIInv, HilTypeOK
    <2>2. \A r \in Requests : InHand(r) => InHand(r)'
      <3> SUFFICES ASSUME NEW r \in Requests, InHand(r) PROVE InHand(r)'
        OBVIOUS
      <3>1. CASE \E i \in 1..Len(executions) : executions[i].nav_request_id = r
        BY <3>1, <1>9 DEF InHand
      <3>2. CASE ~\E i \in 1..Len(executions) : executions[i].nav_request_id = r
        BY <3>2, <1>7 DEF InHand
      <3> QED
        BY <3>1, <3>2
    <2>3. CASE e.event_id > first.event_id
      BY <2>3, <1>7
    <2>4. CASE e.event_id > lastEventId /\ ~(e.event_id > first.event_id)
      <3>1. e.event_id \in Nat /\ e.event_id <= first.event_id
        BY <2>1, <2>4, <1>3 DEF Events
      <3>2. e \in batch
        BY <3>1, <2>4, <1>1, <1>4 DEF HilIInv, BatchIsComplete
      <3>3. e = first
        BY <3>1, <3>2, <1>1, <1>3
      <3>4. \E i \in 1..Len(executions') : executions'[i].nav_request_id = e.nav_request_id
        BY <3>3, <1>9, <1>10
      <3> QED
        BY <3>4 DEF InHand
    <2>5. CASE ~(e.event_id > lastEventId)
      <3>1. e.nav_request_id \in Requests
        BY <2>1 DEF Events
      <3>2. \/ InHand(e.nav_request_id)
            \/ record[e.nav_request_id].terminal_event # "none"
        BY <2>5 DEF HilIInv, NothingIsLost
      <3> QED
        BY <3>1, <3>2, <2>2, <1>7 DEF j6Vars
    <2> QED
      BY <2>3, <2>4, <2>5
  <1> QED
    BY <1>11, <1>12, <1>13, <1>14, <1>15, <1>16 DEF HilIInv

\* A queue whose head goes to the end has the same entries.
LEMMA RotationKeepsEntries ==
  ASSUME HilIInv, results # <<>>, Retain
  PROVE  /\ results' \in Seq(Results)
         /\ \A i \in 1..Len(results) : \E j \in 1..Len(results') : results'[j] = results[i]
         /\ \A j \in 1..Len(results') : \E i \in 1..Len(results) : results'[j] = results[i]
  <1>0. results \in Seq(Results) /\ results' = Append(Tail(results), Head(results))
    BY DEF HilIInv, HilTypeOK, Retain
  <1>1. /\ Tail(results) \in Seq(Results)
        /\ Head(results) \in Results
        /\ Head(results) = results[1]
        /\ 1 \in 1..Len(results)
    BY <1>0, TailEntries
  <1>2. results' \in Seq(Results)
    BY <1>0, <1>1
  <1>3. /\ Len(Tail(results)) + 1 \in 1..Len(results')
        /\ results'[Len(Tail(results)) + 1] = Head(results)
    BY <1>0, <1>1, AppendEntries
  <1>4. ASSUME NEW i \in 1..Len(results)
        PROVE  \E j \in 1..Len(results') : results'[j] = results[i]
    <2>1. CASE results[i] = Head(results)
      BY <1>0, <2>1, <1>3
    <2>2. CASE \E k \in 1..Len(Tail(results)) : Tail(results)[k] = results[i]
      <3>1. PICK k \in 1..Len(Tail(results)) : Tail(results)[k] = results[i]
        BY <2>2
      <3>2. k \in 1..Len(results') /\ results'[k] = Tail(results)[k]
        BY <1>0, <1>1, AppendEntries
      <3> QED
        BY <3>1, <3>2
    <2> QED
      BY <1>0, <2>1, <2>2, EntryLeavesAsHead
  <1>5. ASSUME NEW j \in 1..Len(results')
        PROVE  \E i \in 1..Len(results) : results'[j] = results[i]
    <2>1. CASE j \in 1..Len(Tail(results)) /\ results'[j] = Tail(results)[j]
      BY <1>0, <2>1, TailBrings
    <2>2. CASE results'[j] = Head(results)
      BY <2>2, <1>0, <1>1
    <2> QED
      BY <1>0, <2>1, <2>2, <1>1, AppendBrings
  <1> QED
    BY <1>2, <1>4, <1>5

\* Posting: the result stays in the bridge's hands until the runner has taken it.
LEMMA PostIInv ==
  ASSUME HilIInv, NEW result \in Results, PostHeard(result) \/ PostUnheard(result)
  PROVE  HilIInv'
  <1>1. /\ results \in Seq(Results)
        /\ results # <<>>
        /\ result = Head(results)
        /\ thread' = "poll"
        /\ UNCHANGED <<rosVars, batch, lastEventId, processed, lifeVars, nextEventId,
                       history, told, lastStarted, outcomes>>
    BY DEF PostHeard, PostUnheard, Posted, HilIInv, HilTypeOK
  <1>2. result \in outcomes
    BY <1>1, TailEntries DEF HilIInv, Origins
  <1>3. QueueResult(result) \/ UNCHANGED <<record, delivering>>
    BY DEF PostHeard, PostUnheard
  <1>4. /\ record' \in [Requests -> Records \cup {None}]
        /\ delivering' \in Seq(Results)
        /\ \A r \in Requests :
             record[r] # None =>
               /\ record'[r] # None
               /\ record[r].terminal_event # "none" => record'[r].terminal_event # "none"
        /\ \A i \in 1..Len(delivering') : delivering'[i] \in outcomes
        /\ Answers'
    <2>1. CASE QueueResult(result)
      BY <2>1, <1>1, <1>2, QueueResultAnswers
    <2>2. CASE UNCHANGED <<record, delivering>>
      BY <2>2, <1>1 DEF HilIInv, HilTypeOK, Origins, Answers, OneAnswerPerGoal
    <2> QED
      BY <2>1, <2>2, <1>3
  <1>5. /\ results' \in Seq(Results)
        /\ \A i \in 1..Len(results') : \E k \in 1..Len(results) : results'[i] = results[k]
        /\ \A i \in 1..Len(results) :
             \/ \E k \in 1..Len(results') : results'[k] = results[i]
             \/ /\ results[i] = result
                /\ record'[result.nav_request_id].terminal_event # "none"
    <2>1. CASE Retain
      BY <2>1, <1>1, RotationKeepsEntries
    <2>2. CASE QueueResult(result) /\ Accepted(result) /\ results' = Tail(results)
      <3>1. record'[result.nav_request_id].terminal_event # "none"
        BY <2>2, <1>1, <1>2, QueueResultAnswers
      <3>2. results' \in Seq(Results)
        BY <2>2, <1>1, TailEntries
      <3>3. \A i \in 1..Len(results') : \E k \in 1..Len(results) : results'[i] = results[k]
        BY <2>2, <1>1, TailBrings
      <3>4. \A i \in 1..Len(results) :
              \/ results[i] = result
              \/ \E k \in 1..Len(results') : results'[k] = results[i]
        BY <2>2, <1>1, EntryLeavesAsHead
      <3> QED
        BY <3>1, <3>2, <3>3, <3>4
    <2> QED
      BY <2>1, <2>2 DEF PostHeard, PostUnheard
  <1>6. late' \subseteq late \cup {result}
    BY DEF PostHeard, PostUnheard
  <1> USE DEF rosVars, lifeVars
  <1>7. HilTypeOK'
    BY <1>1, <1>4, <1>5, <1>6 DEF HilIInv, HilTypeOK
  <1>8. Origins'
    <2>1. \A e \in history : e.nav_request_id \in Requests
      BY DEF HilIInv, HilTypeOK, Events
    <2>2. \A i \in 1..Len(results') : results'[i] \in outcomes
      BY <1>5 DEF HilIInv, Origins
    <2>3. late' \subseteq outcomes
      BY <1>2, <1>6 DEF HilIInv, Origins
    <2> QED
      BY <2>1, <2>2, <2>3, <1>1, <1>4 DEF HilIInv, Origins, ResultIsEarned
  <1>9. InSequence' /\ EventsAreNumbered' /\ BatchIsComplete'
    BY <1>1 DEF HilIInv, InSequence, EventsAreNumbered, BatchIsComplete
  <1>10. NothingIsLost'
    <2>1. \A r \in Requests : InHand(r) => InHand(r)' \/ record'[r].terminal_event # "none"
      <3> SUFFICES ASSUME NEW r \in Requests, InHand(r)
                   PROVE  InHand(r)' \/ record'[r].terminal_event # "none"
        OBVIOUS
      <3>1. CASE \E i \in 1..Len(results) : results[i].nav_request_id = r
        BY <3>1, <1>5 DEF InHand
      <3>2. CASE ~\E i \in 1..Len(results) : results[i].nav_request_id = r
        BY <3>2, <1>1 DEF InHand
      <3> QED
        BY <3>1, <3>2
    <2> QED
      BY <2>1, <1>1, <1>4, NothingIsLostStep
  <1> QED
    BY <1>4, <1>7, <1>8, <1>9, <1>10 DEF HilIInv

-----------------------------------------------------------------------------
\* The end of an execution becomes an outcome and a result to be posted.
LEMMA QueueTerminalResultQueues ==
  ASSUME HilIInv, NEW request \in ExecutionRequests, request.life <= j6Life,
         NEW event \in Outcomes, QueueTerminalResult(request, event)
  PROVE  /\ results' \in Seq(Results)
         /\ outcomes' \subseteq Results
         /\ outcomes \subseteq outcomes'
         /\ \A result \in outcomes' : result.life <= j6Life
         /\ \A i \in 1..Len(results') : results'[i] \in outcomes'
         /\ \A i \in 1..Len(results) :
              \E k \in 1..Len(results') : results'[k] = results[i]
         /\ \E k \in 1..Len(results') :
              results'[k].nav_request_id = request.nav_request_id
  <1> DEFINE result == ResultOf(request, event)
  <1>1. /\ result \in Results
        /\ result.life = request.life
        /\ result.nav_request_id = request.nav_request_id
    BY DEF ResultOf, Results, ExecutionRequests
  <1>2. results' = Append(results, result) /\ outcomes' = outcomes \cup {result}
    BY DEF QueueTerminalResult
  <1> HIDE DEF result
  <1>3. results \in Seq(Results) /\ outcomes \subseteq Results
    BY DEF HilIInv, HilTypeOK
  <1>4. \A i \in 1..Len(results) : results[i] \in outcomes
    BY DEF HilIInv, Origins
  <1>5. \A other \in outcomes : other.life <= j6Life
    BY DEF HilIInv, Origins
  <1>6. results' \in Seq(Results) /\ outcomes' \subseteq Results
    BY <1>1, <1>2, <1>3
  <1>7. \A i \in 1..Len(results') :
          \/ i \in 1..Len(results) /\ results'[i] = results[i]
          \/ results'[i] = result
    BY <1>1, <1>2, <1>3, AppendBrings
  <1>8. \A i \in 1..Len(results) : \E k \in 1..Len(results') : results'[k] = results[i]
    BY <1>1, <1>2, <1>3, EntryStays
  <1>9. Len(results) + 1 \in 1..Len(results') /\ results'[Len(results) + 1] = result
    BY <1>1, <1>2, <1>3, AppendEntries
  <1>10. \A i \in 1..Len(results') : results'[i] \in outcomes'
    BY <1>2, <1>4, <1>7
  <1>11. \A other \in outcomes' : other.life <= j6Life
    BY <1>1, <1>2, <1>5
  <1> QED
    BY <1>1, <1>2, <1>6, <1>8, <1>9, <1>10, <1>11

\* The first execution in the queue starts, or fails to.
LEMMA DrainExecutionQueueIInv ==
  ASSUME HilIInv, DrainExecutionQueue
  PROVE  HilIInv'
  <1> DEFINE request == Head(executions)
  <1>1. /\ executions \in Seq(ExecutionRequests)
        /\ executions # <<>>
        /\ executions' = Tail(executions)
        /\ active = None
        /\ lastStarted' = request.event_id
        /\ UNCHANGED <<j6Vars, netVars, late, lifeVars>>
    BY DEF HilIInv, HilTypeOK, DrainExecutionQueue, TakeNext
  <1>2. /\ request \in ExecutionRequests
        /\ request = executions[1]
        /\ 1 \in 1..Len(executions)
        /\ executions' \in Seq(ExecutionRequests)
        /\ \A i \in 1..Len(executions') :
             /\ i \in Nat /\ i + 1 \in 1..Len(executions) /\ 1 < i + 1
             /\ executions'[i] = executions[i + 1]
    BY <1>1, TailEntries, TailBrings
  <1>3. \A i \in 1..Len(executions) :
          \/ executions[i] = request
          \/ \E k \in 1..Len(executions') : executions'[k] = executions[i]
    BY <1>1, EntryLeavesAsHead
  <1>4. \/ active' = request /\ UNCHANGED <<results, outcomes>>
        \/ QueueTerminalResult(request, "FAILED") /\ UNCHANGED active
    BY DEF DrainExecutionQueue
  <1> HIDE DEF request
  <1>5. /\ request.event_id \in Nat
        /\ request.life <= j6Life
        /\ request # None
    BY <1>2, HilAssumption DEF ExecutionRequests, HilIInv, Origins
  <1>6. /\ results' \in Seq(Results)
        /\ outcomes' \subseteq Results
        /\ outcomes \subseteq outcomes'
        /\ \A result \in outcomes' : result.life <= j6Life
        /\ \A i \in 1..Len(results') : results'[i] \in outcomes'
        /\ \A i \in 1..Len(results) : \E k \in 1..Len(results') : results'[k] = results[i]
        /\ \/ active' = request
           \/ /\ active' = active
              /\ \E k \in 1..Len(results') :
                   results'[k].nav_request_id = request.nav_request_id
    <2>1. CASE active' = request /\ UNCHANGED <<results, outcomes>>
      BY <2>1 DEF HilIInv, HilTypeOK, Origins
    <2>2. CASE QueueTerminalResult(request, "FAILED") /\ UNCHANGED active
      <3>1. "FAILED" \in Outcomes
        BY DEF Outcomes
      <3> QED
        BY <3>1, <2>2, <1>2, <1>5, QueueTerminalResultQueues
    <2> QED
      BY <2>1, <2>2, <1>4
  <1> USE DEF j6Vars, netVars, lifeVars
  <1>7. HilTypeOK'
    BY <1>1, <1>2, <1>5, <1>6 DEF HilIInv, HilTypeOK
  <1>8. Origins'
    <2>1. \A i \in 1..Len(executions') : executions'[i].life <= j6Life
      BY <1>2 DEF HilIInv, Origins
    <2>2. active' # None => active'.life <= j6Life
      BY <1>1, <1>5, <1>6
    <2>3. ResultIsEarned'
      BY <1>1, <1>6 DEF HilIInv, Origins, ResultIsEarned
    <2> QED
      BY <2>1, <2>2, <2>3, <1>1, <1>6 DEF HilIInv, Origins
  <1>9. Answers' /\ EventsAreNumbered' /\ BatchIsComplete'
    BY <1>1 DEF HilIInv, Answers, OneAnswerPerGoal, EventsAreNumbered, BatchIsComplete
  <1>10. InSequence'
    <2>1. request.event_id <= lastEventId
      BY <1>2 DEF HilIInv, InSequence
    <2>2. \A i \in 1..Len(executions') :
            request.event_id < executions'[i].event_id
              /\ executions'[i].event_id <= lastEventId
      BY <1>2 DEF HilIInv, InSequence
    <2>3. ASSUME NEW i \in 1..Len(executions'), NEW k \in 1..Len(executions'), i < k
          PROVE  executions'[i].event_id < executions'[k].event_id
      <3>1. /\ i + 1 \in 1..Len(executions) /\ executions'[i] = executions[i + 1]
            /\ k + 1 \in 1..Len(executions) /\ executions'[k] = executions[k + 1]
            /\ i + 1 < k + 1
        BY <1>2, <2>3
      <3> QED
        BY <3>1 DEF HilIInv, InSequence
    <2> QED
      BY <2>1, <2>2, <2>3, <1>1 DEF HilIInv, InSequence
  <1>11. NothingIsLost'
    <2>1. \A r \in Requests : InHand(r) => InHand(r)'
      <3> SUFFICES ASSUME NEW r \in Requests, InHand(r) PROVE InHand(r)'
        OBVIOUS
      <3>1. CASE r = request.nav_request_id
        BY <3>1, <1>5, <1>6 DEF InHand
      <3>2. CASE r # request.nav_request_id
              /\ \E i \in 1..Len(executions) : executions[i].nav_request_id = r
        BY <3>2, <1>3 DEF InHand
      <3>3. CASE \E i \in 1..Len(results) : results[i].nav_request_id = r
        BY <3>3, <1>6 DEF InHand
      <3> QED
        BY <3>1, <3>2, <3>3, <1>1 DEF InHand
    <2> QED
      BY <2>1, <1>1, NothingIsLostStep
  <1> QED
    BY <1>7, <1>8, <1>9, <1>10, <1>11 DEF HilIInv

\* The active execution ends.
LEMMA OnTaskStatusIInv ==
  ASSUME HilIInv, OnTaskStatus
  PROVE  HilIInv'
  <1>1. /\ active # None
        /\ active' = None
        /\ UNCHANGED <<j6Vars, executions, netVars, late, lifeVars, lastStarted>>
    BY DEF OnTaskStatus
  <1>2. PICK event \in Outcomes : QueueTerminalResult(active, event)
    BY DEF OnTaskStatus
  <1>3. active \in ExecutionRequests /\ active.life <= j6Life
    BY <1>1 DEF HilIInv, HilTypeOK, Origins
  <1>4. /\ results' \in Seq(Results)
        /\ outcomes' \subseteq Results
        /\ outcomes \subseteq outcomes'
        /\ \A result \in outcomes' : result.life <= j6Life
        /\ \A i \in 1..Len(results') : results'[i] \in outcomes'
        /\ \A i \in 1..Len(results) : \E k \in 1..Len(results') : results'[k] = results[i]
        /\ \E k \in 1..Len(results') : results'[k].nav_request_id = active.nav_request_id
    BY <1>2, <1>3, QueueTerminalResultQueues
  <1> USE DEF j6Vars, netVars, lifeVars
  <1>5. HilTypeOK'
    BY <1>1, <1>4 DEF HilIInv, HilTypeOK
  <1>6. Origins'
    <2>1. ResultIsEarned'
      BY <1>1, <1>4 DEF HilIInv, Origins, ResultIsEarned
    <2> QED
      BY <2>1, <1>1, <1>4 DEF HilIInv, Origins
  <1>7. Answers' /\ EventsAreNumbered' /\ BatchIsComplete'
    BY <1>1 DEF HilIInv, Answers, OneAnswerPerGoal, EventsAreNumbered, BatchIsComplete
  <1>8. InSequence'
    BY <1>1 DEF HilIInv, InSequence
  <1>9. NothingIsLost'
    <2>1. \A r \in Requests : InHand(r) => InHand(r)'
      BY <1>1, <1>4 DEF InHand
    <2> QED
      BY <2>1, <1>1, NothingIsLostStep
  <1> QED
    BY <1>5, <1>6, <1>7, <1>8, <1>9 DEF HilIInv

\* A restarted J6 knows no goal, and none of the bridge's is of its present life.
LEMMA RestartJ6IInv ==
  ASSUME HilIInv, RestartJ6
  PROVE  HilIInv'
  <1> USE HilAssumption DEF rosVars, netVars
  <1>1. /\ j6Life \in 1..MaxRestarts + 1 /\ pcLife \in 1..MaxRestarts + 1
        /\ j6Life + pcLife < 2 + MaxRestarts
        /\ j6Life' = j6Life + 1
    BY DEF HilIInv, HilTypeOK, Lives, RestartJ6, MayRestart
  <1>2. j6Life' \in Lives /\ j6Life' # 1
    BY <1>1 DEF Lives
  <1>3. HilTypeOK'
    BY <1>2 DEF HilIInv, HilTypeOK, RestartJ6
  <1>4. \A n \in Nat : n <= j6Life => n <= j6Life'
    BY <1>1
  <1>5. Origins'
    <2>1. /\ \A e \in batch : e.life <= j6Life'
          /\ \A i \in 1..Len(executions) : executions[i].life <= j6Life'
          /\ active # None => active.life <= j6Life'
          /\ \A result \in outcomes : result.life <= j6Life'
      <3>1. \A e \in batch : e.life \in Nat
        BY DEF HilIInv, HilTypeOK, Events, Lives
      <3>2. \A i \in 1..Len(executions) : executions[i].life \in Nat
        <4>1. \A i \in 1..Len(executions) : executions[i] \in ExecutionRequests
          BY DEF HilIInv, HilTypeOK
        <4> QED
          BY <4>1 DEF ExecutionRequests, Lives
      <3>3. active # None => active.life \in Nat
        BY DEF HilIInv, HilTypeOK, ExecutionRequests, Lives
      <3>4. \A result \in outcomes : result.life \in Nat
        BY DEF HilIInv, HilTypeOK, Results, Lives
      <3> QED
        BY <3>1, <3>2, <3>3, <3>4, <1>4 DEF HilIInv, Origins
    <2> QED
      BY <2>1 DEF HilIInv, Origins, ResultIsEarned, RestartJ6
  <1>6. Answers' /\ EventsAreNumbered'
    BY DEF Answers, OneAnswerPerGoal, EventsAreNumbered, RestartJ6
  <1>7. InSequence'
    BY DEF HilIInv, InSequence, RestartJ6
  <1>8. BatchIsComplete' /\ NothingIsLost'
    BY <1>2 DEF BatchIsComplete, NothingIsLost
  <1> QED
    BY <1>3, <1>5, <1>6, <1>7, <1>8 DEF HilIInv

\* A restarted PC has nothing in its hands, but polls from the first event again.
LEMMA RestartPcIInv ==
  ASSUME HilIInv, RestartPc
  PROVE  HilIInv'
  <1> USE HilAssumption DEF j6Vars, RestartPc
  <1>1. /\ j6Life \in 1..MaxRestarts + 1 /\ pcLife \in 1..MaxRestarts + 1
        /\ j6Life + pcLife < 2 + MaxRestarts
        /\ pcLife' = pcLife + 1
    BY DEF HilIInv, HilTypeOK, Lives, MayRestart
  <1>2. pcLife' \in Lives
    BY <1>1 DEF Lives
  <1>3. HilTypeOK'
    BY <1>2 DEF HilIInv, HilTypeOK
  <1>4. Origins' /\ Answers' /\ EventsAreNumbered'
    BY DEF HilIInv, Origins, ResultIsEarned, Answers, OneAnswerPerGoal, EventsAreNumbered
  <1>5. InSequence'
    BY DEF InSequence
  <1>6. BatchIsComplete'
    BY DEF HilIInv, HilTypeOK, BatchIsComplete
  <1>7. NothingIsLost'
    <2>1. \A e \in history : e.event_id > 0
      BY DEF HilIInv, HilTypeOK, EventsAreNumbered, Events
    <2> QED
      BY <2>1 DEF NothingIsLost
  <1> QED
    BY <1>3, <1>4, <1>5, <1>6, <1>7 DEF HilIInv

LEMMA HilNextIInv ==
  HilIInv /\ [HilNext]_hilVars => HilIInv'
  <1> SUFFICES ASSUME HilIInv, [HilNext]_hilVars PROVE HilIInv'
    OBVIOUS
  <1>1. CASE \E r \in Requests : SubmitGoal(r) \/ CancelGoal(r)
    BY <1>1, EventIInv
  <1>2. CASE Deliver
    BY <1>2, DeliverIInv
  <1>3. CASE PollHeard \/ PollFails \/ NothingToPost
    BY <1>3, PollIInv
  <1>4. CASE ProcessEvent
    BY <1>4, ProcessEventIInv
  <1>5. CASE \E result \in Results : PostHeard(result) \/ PostUnheard(result)
    BY <1>5, PostIInv
  <1>6. CASE \E result \in Results : LatePostArrives(result)
    BY <1>6, LateIInv
  <1>7. CASE DrainExecutionQueue
    BY <1>7, DrainExecutionQueueIInv
  <1>8. CASE OnTaskStatus
    BY <1>8, OnTaskStatusIInv
  <1>9. CASE RestartJ6 \/ RestartPc
    BY <1>9, RestartJ6IInv, RestartPcIInv
  <1>10. CASE UNCHANGED hilVars
    BY <1>10 DEF hilVars, j6Vars, rosVars, netVars, lifeVars, HilIInv, HilTypeOK, Origins,
       ResultIsEarned, Answers, OneAnswerPerGoal, InSequence, EventsAreNumbered,
       BatchIsComplete, NothingIsLost, InHand
  <1> QED
    BY <1>1, <1>2, <1>3, <1>4, <1>5, <1>6, <1>7, <1>8, <1>9, <1>10 DEF HilNext

-----------------------------------------------------------------------------
\* The inductive invariant, for every number of requests, events, late results and
\* restarts and every size of the runner's history and the bridge's memory.
THEOREM HilInductive == HilSpec => []HilIInv
  BY HilInitIInv, HilNextIInv, PTL DEF HilSpec

\* Each variable has its type: the history never exceeds HistorySize ids, the memory of
\* processed ids never its limit.
THEOREM HilTypeCorrect == HilSpec => []HilTypeOK
  <1>1. HilIInv => HilTypeOK
    BY DEF HilIInv
  <1> QED
    BY <1>1, HilInductive, PTL

\* What the core is told of a goal is what an execution of it came to.
THEOREM ResultsAreEarned == HilSpec => []ResultIsEarned
  <1>1. HilIInv => ResultIsEarned
    BY DEF HilIInv, Origins
  <1> QED
    BY <1>1, HilInductive, PTL

\* The core hears one terminal event of a goal in a life of the J6.
THEOREM GoalsAreAnsweredOnce == HilSpec => []OneAnswerPerGoal
  <1>1. HilIInv => OneAnswerPerGoal
    BY DEF HilIInv, Answers
  <1> QED
    BY <1>1, HilInductive, PTL

\* A submission the runner still has is to be polled, in the bridge's hands or answered.
THEOREM SubmissionsAreNotLost == HilSpec => []NothingIsLost
  <1>1. HilIInv => NothingIsLost
    BY DEF HilIInv
  <1> QED
    BY <1>1, HilInductive, PTL

\* One life of the bridge executes requests in the order of their events, each once.
THEOREM ExecutionsRunInOrder == HilSpec => RunsInOrder
  <1>1. HilIInv /\ [HilNext]_hilVars =>
          [Len(executions') < Len(executions) /\ pcLife' = pcLife =>
             lastStarted' > lastStarted]_hilVars
    <2> SUFFICES ASSUME HilIInv, HilNext,
                        Len(executions') < Len(executions), pcLife' = pcLife
                 PROVE  lastStarted' > lastStarted
      OBVIOUS
    <2>1. executions \in Seq(ExecutionRequests) /\ pcLife \in Nat
      BY DEF HilIInv, HilTypeOK, Lives
    <2>2. CASE DrainExecutionQueue
      <3>1. executions # <<>> /\ lastStarted' = Head(executions).event_id
        BY <2>2 DEF DrainExecutionQueue, TakeNext
      <3>2. Head(executions) = executions[1] /\ 1 \in 1..Len(executions)
              /\ Head(executions) \in ExecutionRequests
        BY <3>1, <2>1, TailEntries
      <3>3. lastStarted < executions[1].event_id
        BY <3>2 DEF HilIInv, InSequence
      <3>4. lastStarted \in Nat /\ Head(executions).event_id \in Nat
        BY <3>2 DEF HilIInv, HilTypeOK, ExecutionRequests
      <3> QED
        BY <3>1, <3>2, <3>3, <3>4
    <2>3. CASE RestartPc
      BY <2>1, <2>3 DEF RestartPc
    <2>4. CASE ProcessEvent
      <3>1. PICK e \in batch :
              \/ executions' = executions
              \/ executions' = Append(executions, [event_id |-> e.event_id,
                                life |-> e.life, nav_request_id |-> e.nav_request_id])
        BY <2>4 DEF ProcessEvent
      <3>2. [event_id |-> e.event_id, life |-> e.life,
             nav_request_id |-> e.nav_request_id] \in ExecutionRequests
        BY DEF HilIInv, HilTypeOK, Events, ExecutionRequests
      <3>3. Len(executions') >= Len(executions)
        BY <3>1, <3>2, <2>1, AppendEntries
      <3> QED
        BY <3>1, <3>2, <3>3, <2>1
    <2>5. CASE executions' = executions
      BY <2>1, <2>5
    <2> QED
      BY <2>2, <2>3, <2>4, <2>5 DEF HilNext, SubmitGoal, CancelGoal, Deliver, PollHeard,
         PollFails, NothingToPost, PostHeard, PostUnheard, Posted, LatePostArrives,
         OnTaskStatus, RestartJ6, rosVars
  <1> QED
    BY <1>1, HilInductive, PTL DEF HilSpec, RunsInOrder

-----------------------------------------------------------------------------
(***************************************************************************)
(* What the liveness of HilBridge rests on.                                *)
(***************************************************************************)
\* The runner takes a result: its answer is on its way.
LEMMA QueueResultBrings ==
  ASSUME HilIInv, AnswerIsOnItsWay, NEW result \in outcomes, QueueResult(result),
         UNCHANGED told
  PROVE  /\ AnswerIsOnItsWay'
         /\ Accepted(result) =>
              /\ record'[result.nav_request_id] # None
              /\ record'[result.nav_request_id].terminal_event = result.event
  <1> DEFINE q == result.nav_request_id
  <1>1. /\ result \in Results
        /\ record \in [Requests -> Records \cup {None}]
        /\ delivering \in Seq(Results)
    BY DEF HilIInv, HilTypeOK
  <1>2. q \in Requests /\ result.event \in Outcomes
    BY <1>1 DEF Results
  <1>3. CASE record[q] # None /\ record[q].terminal_event = "none"
    <2> DEFINE new == [record[q] EXCEPT !.terminal_event = result.event]
    <2>1. new \in Records /\ new.terminal_event = result.event /\ new # None
      BY <1>1, <1>2, <1>3, HilAssumption DEF Records
    <2>2. /\ record' = [record EXCEPT ![q] = new]
          /\ delivering' = Append(delivering, result)
      BY <1>3 DEF QueueResult
    <2> HIDE DEF new, q
    <2>3. /\ record'[q] = new
          /\ \A r \in Requests : r # q => record'[r] = record[r]
      BY <1>1, <1>2, <2>2
    <2>4. \E i \in 1..Len(delivering') : delivering'[i].nav_request_id = q
      BY <1>1, <2>2, AppendEntries DEF q
    <2>5. \A i \in 1..Len(delivering) :
            \E j \in 1..Len(delivering') : delivering'[j] = delivering[i]
      BY <1>1, <2>2, EntryStays
    <2>6. AnswerIsOnItsWay'
      BY <2>3, <2>4, <2>5 DEF AnswerIsOnItsWay
    <2> QED
      BY <2>1, <2>3, <2>6 DEF q
  <1>4. CASE ~(record[q] # None /\ record[q].terminal_event = "none")
    <2>1. record' = record /\ delivering' = delivering
      BY <1>4 DEF QueueResult
    <2> QED
      BY <1>4, <2>1 DEF AnswerIsOnItsWay, Accepted
  <1> QED
    BY <1>3, <1>4

\* What was accepted and not yet told: the head of the queue is told, the rest stays.
LEMMA DeliverTells ==
  ASSUME HilIInv, AnswerIsOnItsWay, Deliver
  PROVE  AnswerIsOnItsWay'
  <1> DEFINE first == Head(delivering)
  <1>1. /\ delivering \in Seq(Results) /\ delivering # <<>>
        /\ told \in [Requests -> {"none"} \cup Outcomes]
        /\ delivering' = Tail(delivering)
        /\ record' = record
        /\ told' = [told EXCEPT ![first.nav_request_id] = first.event]
    BY DEF HilIInv, HilTypeOK, Deliver
  <1>2. first \in Results /\ first = delivering[1] /\ 1 \in 1..Len(delivering)
    BY <1>1, TailEntries
  <1>3. record[first.nav_request_id].terminal_event = first.event
    BY <1>2 DEF HilIInv, Answers
  <1>4. first.nav_request_id \in Requests
    BY <1>2 DEF Results
  <1> HIDE DEF first
  <1>5. SUFFICES ASSUME NEW r \in Requests,
                        record[r] # None, record[r].terminal_event # "none",
                        r # first.nav_request_id
                 PROVE  \/ told'[r] = record[r].terminal_event
                        \/ \E j \in 1..Len(delivering') : delivering'[j].nav_request_id = r
    BY <1>1, <1>3, <1>4 DEF AnswerIsOnItsWay
  <1>6. told'[r] = told[r]
    BY <1>1, <1>5
  <1>7. CASE told[r] = record[r].terminal_event
    BY <1>6, <1>7
  <1>8. CASE \E i \in 1..Len(delivering) : delivering[i].nav_request_id = r
    <2>1. PICK i \in 1..Len(delivering) : delivering[i].nav_request_id = r
      BY <1>8
    <2>2. delivering[i] # first
      BY <1>5, <2>1
    <2>3. \E j \in 1..Len(Tail(delivering)) : Tail(delivering)[j] = delivering[i]
      BY <1>1, <2>2, EntryLeavesAsHead DEF first
    <2> QED
      BY <1>1, <2>1, <2>3
  <1> QED
    BY <1>5, <1>7, <1>8 DEF AnswerIsOnItsWay

\* The core's calls open a goal, and leave answered ones alone.
LEMMA CallKeepsAnswers ==
  ASSUME HilIInv, AnswerIsOnItsWay, NEW r \in Requests, SubmitGoal(r) \/ CancelGoal(r)
  PROVE  AnswerIsOnItsWay'
  <1>1. record \in [Requests -> Records \cup {None}] /\ UNCHANGED <<delivering, told>>
    BY DEF HilIInv, HilTypeOK, SubmitGoal, CancelGoal
  <1>2. \A q \in Requests : q # r => record'[q] = record[q]
    BY <1>1 DEF SubmitGoal, CancelGoal
  <1>3. record'[r].terminal_event = "none"
    <2>1. CASE SubmitGoal(r)
      BY <1>1, <2>1 DEF SubmitGoal
    <2>2. CASE CancelGoal(r)
      <3>1. record[r] \in Records /\ record[r].terminal_event = "none"
        BY <1>1, <2>2 DEF CancelGoal
      <3> QED
        BY <1>1, <2>2, <3>1 DEF CancelGoal, Records
    <2> QED
      BY <2>1, <2>2
  <1> QED
    BY <1>1, <1>2, <1>3 DEF AnswerIsOnItsWay

LEMMA AnswersKeepComing ==
  ASSUME HilIInv, AnswerIsOnItsWay, [HilNext]_hilVars
  PROVE  AnswerIsOnItsWay'
  <1>1. CASE \E r \in Requests : SubmitGoal(r) \/ CancelGoal(r)
    BY <1>1, CallKeepsAnswers
  <1>2. CASE Deliver
    BY <1>2, DeliverTells
  <1>3. CASE \E result \in Results :
               PostHeard(result) \/ PostUnheard(result) \/ LatePostArrives(result)
    <2>1. PICK result \in Results :
            PostHeard(result) \/ PostUnheard(result) \/ LatePostArrives(result)
      BY <1>3
    <2>2. result \in outcomes /\ UNCHANGED told
      <3>1. CASE LatePostArrives(result)
        BY <3>1 DEF LatePostArrives, HilIInv, Origins
      <3>2. CASE Posted(result)
        <4>1. result = results[1] /\ 1 \in 1..Len(results)
          BY <3>2, TailEntries DEF Posted, HilIInv, HilTypeOK
        <4> QED
          BY <3>2, <4>1 DEF Posted, HilIInv, Origins
      <3> QED
        BY <2>1, <3>1, <3>2 DEF PostHeard, PostUnheard
    <2>3. QueueResult(result) \/ UNCHANGED <<record, delivering>>
      BY <2>1 DEF PostHeard, PostUnheard, LatePostArrives
    <2>4. CASE UNCHANGED <<record, delivering>>
      BY <2>2, <2>4 DEF AnswerIsOnItsWay
    <2> QED
      BY <2>2, <2>3, <2>4, QueueResultBrings
  <1>4. CASE RestartJ6
    BY <1>4 DEF RestartJ6, AnswerIsOnItsWay
  <1>5. CASE UNCHANGED <<record, delivering, told>>
    BY <1>5 DEF AnswerIsOnItsWay
  <1> QED
    BY <1>1, <1>2, <1>3, <1>4, <1>5 DEF HilNext, PollHeard, PollFails, ProcessEvent,
       NothingToPost, DrainExecutionQueue, OnTaskStatus, RestartPc, j6Vars, hilVars

\* A batch has an event that comes first.
LEMMA EarliestExists ==
  ASSUME NEW B, B \subseteq Events, B # {}
  PROVE  \E e \in B : \A other \in B : e.event_id <= other.event_id
  <1> DEFINE ids == { e.event_id : e \in B }
  <1>1. ids \subseteq Nat /\ ids # {}
    BY DEF Events
  <1> HIDE DEF ids
  <1>2. PICK n \in ids : \A m \in ids : ~(<<m, n>> \in OpToRel(<, Nat))
    BY <1>1, WFMin, NatLessThanWellFounded
  <1>3. \A m \in ids : ~(m < n)
    BY <1>1, <1>2 DEF OpToRel
  <1>4. \A m \in ids : n <= m
    BY <1>1, <1>3
  <1> QED
    BY <1>4 DEF ids

LEMMA NetworkKeepsGoing ==
  ASSUME HilIInv, HilIInv', NetworkGoesOn, [HilNext]_hilVars
  PROVE  NetworkGoesOn'
  <1>1. batch' \subseteq Events
    BY DEF HilIInv, HilTypeOK
  <1>2. SUFFICES (thread = "process" <=> batch # {})'
    BY <1>1, EarliestExists DEF NetworkGoesOn, Earliest
  <1>3. thread = "process" <=> batch # {}
    BY DEF NetworkGoesOn
  <1>4. CASE PollHeard \/ ProcessEvent
    BY <1>4 DEF PollHeard, ProcessEvent
  <1>5. CASE PollFails \/ NothingToPost
    BY <1>3, <1>5 DEF PollFails, NothingToPost
  <1>6. CASE \E result \in Results : PostHeard(result) \/ PostUnheard(result)
    BY <1>3, <1>6 DEF PostHeard, PostUnheard, Posted
  <1>7. CASE RestartPc
    BY <1>7 DEF RestartPc
  <1>8. CASE UNCHANGED <<thread, batch>>
    BY <1>3, <1>8
  <1> QED
    BY <1>4, <1>5, <1>6, <1>7, <1>8 DEF HilNext, SubmitGoal, CancelGoal, Deliver,
       LatePostArrives, DrainExecutionQueue, OnTaskStatus, RestartJ6, netVars, hilVars

\* A result leaves the bridge when the runner has it, or with the bridge's life.
LEMMA ResultLeavesAnswered ==
  ASSUME HilIInv, [HilNext]_hilVars, AnswerIsOnItsWay,
         NEW result \in Results, Queued(result), ~Queued(result)'
  PROVE  \/ pcLife' # pcLife
         \/ /\ record'[result.nav_request_id] # None
            /\ record'[result.nav_request_id].terminal_event = result.event
  <1>0. results \in Seq(Results)
    BY DEF HilIInv, HilTypeOK
  <1>1. results' # results
    BY DEF Queued
  <1>2. CASE RestartPc
    <2>1. pcLife' = pcLife + 1 /\ pcLife \in Lives
      BY <1>2 DEF RestartPc, HilIInv, HilTypeOK
    <2> QED
      BY <2>1, HilAssumption DEF Lives
  <1>3. CASE \E x \in Results : PostHeard(x) \/ PostUnheard(x)
    <2>1. PICK x \in Results : PostHeard(x) \/ PostUnheard(x)
      BY <1>3
    <2>2. results # <<>> /\ x = Head(results) /\ UNCHANGED told
      BY <2>1 DEF PostHeard, PostUnheard, Posted
    <2>3. ~Retain
      BY <2>2, RotationKeepsEntries DEF Queued
    <2>4. QueueResult(x) /\ Accepted(x) /\ results' = Tail(results)
      BY <2>1, <2>3 DEF PostHeard, PostUnheard
    <2>5. x = result
      BY <1>0, <2>2, <2>4, EntryLeavesAsHead DEF Queued
    <2>6. x \in outcomes
      BY <1>0, <2>2, TailEntries DEF HilIInv, Origins
    <2> QED
      BY <2>2, <2>4, <2>5, <2>6, QueueResultBrings
  <1>4. CASE \E request \in ExecutionRequests, event \in Outcomes :
               QueueTerminalResult(request, event)
    <2>1. PICK request \in ExecutionRequests, event \in Outcomes :
            QueueTerminalResult(request, event)
      BY <1>4
    <2>2. ResultOf(request, event) \in Results
      BY <2>1 DEF ResultOf, Results, ExecutionRequests
    <2>3. results' = Append(results, ResultOf(request, event))
      BY <2>1 DEF QueueTerminalResult
    <2> QED
      BY <1>0, <2>2, <2>3, EntryStays DEF Queued
  <1>5. CASE DrainExecutionQueue
    <2>1. Head(executions) \in ExecutionRequests /\ "FAILED" \in Outcomes
      BY <1>5, TailEntries DEF DrainExecutionQueue, TakeNext, HilIInv, HilTypeOK, Outcomes
    <2> QED
      BY <1>1, <1>4, <1>5, <2>1 DEF DrainExecutionQueue
  <1>6. CASE OnTaskStatus
    BY <1>4, <1>6 DEF OnTaskStatus, HilIInv, HilTypeOK
  <1> QED
    BY <1>1, <1>2, <1>3, <1>5, <1>6 DEF HilNext, SubmitGoal, CancelGoal, Deliver, PollHeard,
       PollFails, ProcessEvent, NothingToPost, LatePostArrives, RestartJ6, hilVars

\* An answer that was accepted is told the core, if its queue is drained.
THEOREM AcceptedAnswersArrive == HilSpec => []AnswerIsOnItsWay
  <1>1. HilInit => AnswerIsOnItsWay
    BY DEF HilInit, J6Init, AnswerIsOnItsWay
  <1> QED
    BY <1>1, AnswersKeepComing, HilInductive, PTL DEF HilSpec

\* The network thread is never stuck in a batch.
THEOREM NetworkThreadGoesOn == HilSpec => []NetworkGoesOn
  <1>1. HilInit => NetworkGoesOn
    BY DEF HilInit, PcInit, NetworkGoesOn
  <1> QED
    BY <1>1, NetworkKeepsGoing, HilInductive, PTL DEF HilSpec

\* However posts are lost, late or refused, the bridge keeps a result until the runner
\* has it.
THEOREM ResultsAreKept == HilSpec => NoResultIsDropped
  <1>1. HilIInv /\ AnswerIsOnItsWay /\ [HilNext]_hilVars =>
          [\A result \in Results :
             Queued(result) /\ ~Queued(result)' =>
               \/ pcLife' # pcLife
               \/ /\ record'[result.nav_request_id] # None
                  /\ record'[result.nav_request_id].terminal_event = result.event]_hilVars
    BY ResultLeavesAnswered
  <1> QED
    BY <1>1, HilInductive, AcceptedAnswersArrive, PTL DEF HilSpec, NoResultIsDropped
=============================================================================
