------------------------ MODULE VisualTargets_proofs -------------------------
(***************************************************************************)
(* Proofs about VisualTargets, for any ids, places, policies and batches,  *)
(* and any bounds on the clock.                                            *)
(***************************************************************************)
EXTENDS VisualTargets, WellFoundedInduction, TLAPS

-----------------------------------------------------------------------------
(***************************************************************************)
(* A batch is folded observation by observation: induction over its        *)
(* length, by least counterexample.                                        *)
(***************************************************************************)

\* A nonempty set of naturals has a least element.
LEMMA LeastNat ==
  ASSUME NEW T, T \subseteq Nat, T # {}
  PROVE  \E n \in T : \A m \in T : n <= m
<1>1. PICK n \in T : \A m \in T : ~(<<m, n>> \in OpToRel(<, Nat))
  BY WFMin, NatLessThanWellFounded
<1>2. \A m \in T : ~(m < n)
  BY <1>1 DEF OpToRel
<1> QED BY <1>2

LEMMA MaxOfPrefix ==
  ASSUME NEW n \in Nat, NEW s, s \subseteq 1..n, n \in s
  PROVE  Max(s) = n
<1>1. \A y \in s : n >= y OBVIOUS
<1>2. \A x \in s : (\A y \in s : x >= y) => x = n OBVIOUS
<1> QED BY <1>1, <1>2 DEF Max

\* FoldLeft's function on the sets of the first indices.
UpdatePasses(f, reg, batch, n) ==
  f = [s \in SUBSET (1..n) |->
         IF s = {} THEN reg ELSE Update(f[s \ {Max(s)}], batch[Max(s)])]

LEMMA UpdatePassesExist ==
  ASSUME NEW reg, NEW batch, NEW n \in Nat
  PROVE  \E f : UpdatePasses(f, reg, batch, n)
<1> DEFINE T == { i \in Nat : ~\E f : UpdatePasses(f, reg, batch, i) }
<1>1. SUFFICES ASSUME n \in T PROVE FALSE
  OBVIOUS
<1>2. PICK least \in T : \A m \in T : least <= m
  BY <1>1, LeastNat
<1>3. least # 0
  <2>1. \A s \in SUBSET (1..0) : s = {} OBVIOUS
  <2>2. UpdatePasses([s \in SUBSET (1..0) |-> reg], reg, batch, 0)
    BY <2>1 DEF UpdatePasses
  <2> QED BY <2>2
<1>4. PICK g : UpdatePasses(g, reg, batch, least - 1)
  BY <1>2, <1>3
<1> DEFINE F == [s \in SUBSET (1..least) |->
                   IF least \in s THEN Update(g[s \ {least}], batch[least]) ELSE g[s]]
<1>5. ASSUME NEW s \in SUBSET (1..least)
      PROVE  F[s] = IF s = {} THEN reg ELSE Update(F[s \ {Max(s)}], batch[Max(s)])
  <2>1. CASE least \in s
    <3>1. Max(s) = least BY <1>2, <2>1, MaxOfPrefix
    <3>2. F[s \ {least}] = g[s \ {least}] OBVIOUS
    <3> QED BY <2>1, <3>1, <3>2
  <2>2. CASE least \notin s
    <3>1. s \in SUBSET (1..(least - 1)) BY <1>2, <1>3, <2>2
    <3>2. g[s] = IF s = {} THEN reg ELSE Update(g[s \ {Max(s)}], batch[Max(s)])
      BY <1>4, <3>1 DEF UpdatePasses
    <3>3. F[s] = g[s] /\ F[s \ {Max(s)}] = g[s \ {Max(s)}]
      BY <2>2
    <3> QED BY <3>2, <3>3
  <2> QED BY <2>1, <2>2
<1>6. UpdatePasses(F, reg, batch, least)
  <2> HIDE DEF F
  <2>1. F = [s \in SUBSET (1..least) |-> F[s]] BY DEF F
  <2> QED BY <1>5, <2>1 DEF UpdatePasses
<1> QED BY <1>2, <1>6

\* The registry after each of the batch's observations, h[0] before the first.
LEMMA UpdateSteps ==
  ASSUME NEW reg, NEW batch \in Seq(Observations)
  PROVE  \E h : /\ h[0] = reg
                /\ \A k \in 1..Len(batch) : h[k] = Update(h[k - 1], batch[k])
                /\ UpdateMany(reg, batch) = h[Len(batch)]
<1> DEFINE n == Len(batch)
           F == CHOOSE f : UpdatePasses(f, reg, batch, n)
           h == [k \in 0..n |-> F[1..k]]
<1>1. n \in Nat /\ DOMAIN batch = 1..n OBVIOUS
<1>2. UpdatePasses(F, reg, batch, n) BY <1>1, UpdatePassesExist
<1>3. UpdateMany(reg, batch) = F[1..n]
  BY <1>1 DEF UpdateMany, FoldLeft, MapThenFoldSet, UpdatePasses
<1> HIDE DEF F, n
<1>4. h[0] = reg
  <2>1. 1..0 = {} /\ 0 \in 0..n BY <1>1
  <2> QED BY <1>2, <2>1 DEF UpdatePasses
<1>5. ASSUME NEW k \in 1..n PROVE h[k] = Update(h[k - 1], batch[k])
  <2>1. Max(1..k) = k BY <1>1, MaxOfPrefix
  <2>2. (1..k) \ {k} = 1..(k - 1) /\ 1..k # {} /\ 1..k \in SUBSET (1..n)
        /\ k \in 0..n /\ k - 1 \in 0..n
    BY <1>1
  <2>3. F[1..k] = Update(F[1..(k - 1)], batch[k])
    BY <1>2, <2>1, <2>2 DEF UpdatePasses
  <2> QED BY <2>2, <2>3
<1>6. h[n] = F[1..n] BY <1>1
<1> QED BY <1>3, <1>4, <1>5, <1>6 DEF n

\* The history of the newest observations is folded in the same way.
NewerPasses(f, n0, batch, n) ==
  f = [s \in SUBSET (1..n) |->
         IF s = {} THEN n0 ELSE Newer(f[s \ {Max(s)}], batch[Max(s)])]

LEMMA NewerPassesExist ==
  ASSUME NEW n0, NEW batch, NEW n \in Nat
  PROVE  \E f : NewerPasses(f, n0, batch, n)
<1> DEFINE T == { i \in Nat : ~\E f : NewerPasses(f, n0, batch, i) }
<1>1. SUFFICES ASSUME n \in T PROVE FALSE
  OBVIOUS
<1>2. PICK least \in T : \A m \in T : least <= m
  BY <1>1, LeastNat
<1>3. least # 0
  <2>1. \A s \in SUBSET (1..0) : s = {} OBVIOUS
  <2>2. NewerPasses([s \in SUBSET (1..0) |-> n0], n0, batch, 0)
    BY <2>1 DEF NewerPasses
  <2> QED BY <2>2
<1>4. PICK g : NewerPasses(g, n0, batch, least - 1)
  BY <1>2, <1>3
<1> DEFINE F == [s \in SUBSET (1..least) |->
                   IF least \in s THEN Newer(g[s \ {least}], batch[least]) ELSE g[s]]
<1>5. ASSUME NEW s \in SUBSET (1..least)
      PROVE  F[s] = IF s = {} THEN n0 ELSE Newer(F[s \ {Max(s)}], batch[Max(s)])
  <2>1. CASE least \in s
    <3>1. Max(s) = least BY <1>2, <2>1, MaxOfPrefix
    <3>2. F[s \ {least}] = g[s \ {least}] OBVIOUS
    <3> QED BY <2>1, <3>1, <3>2
  <2>2. CASE least \notin s
    <3>1. s \in SUBSET (1..(least - 1)) BY <1>2, <1>3, <2>2
    <3>2. g[s] = IF s = {} THEN n0 ELSE Newer(g[s \ {Max(s)}], batch[Max(s)])
      BY <1>4, <3>1 DEF NewerPasses
    <3>3. F[s] = g[s] /\ F[s \ {Max(s)}] = g[s \ {Max(s)}]
      BY <2>2
    <3> QED BY <3>2, <3>3
  <2> QED BY <2>1, <2>2
<1>6. NewerPasses(F, n0, batch, least)
  <2> HIDE DEF F
  <2>1. F = [s \in SUBSET (1..least) |-> F[s]] BY DEF F
  <2> QED BY <1>5, <2>1 DEF NewerPasses
<1> QED BY <1>2, <1>6

\* The same for the newest observations received.
LEMMA NewerSteps ==
  ASSUME NEW n0, NEW batch \in Seq(Observations)
  PROVE  \E h : /\ h[0] = n0
                /\ \A k \in 1..Len(batch) : h[k] = Newer(h[k - 1], batch[k])
                /\ FoldLeft(Newer, n0, batch) = h[Len(batch)]
<1> DEFINE n == Len(batch)
           F == CHOOSE f : NewerPasses(f, n0, batch, n)
           h == [k \in 0..n |-> F[1..k]]
<1>1. n \in Nat /\ DOMAIN batch = 1..n OBVIOUS
<1>2. NewerPasses(F, n0, batch, n) BY <1>1, NewerPassesExist
<1>3. FoldLeft(Newer, n0, batch) = F[1..n]
  BY <1>1 DEF FoldLeft, MapThenFoldSet, NewerPasses
<1> HIDE DEF F, n
<1>4. h[0] = n0
  <2>1. 1..0 = {} /\ 0 \in 0..n BY <1>1
  <2> QED BY <1>2, <2>1 DEF NewerPasses
<1>5. ASSUME NEW k \in 1..n PROVE h[k] = Newer(h[k - 1], batch[k])
  <2>1. Max(1..k) = k BY <1>1, MaxOfPrefix
  <2>2. (1..k) \ {k} = 1..(k - 1) /\ 1..k # {} /\ 1..k \in SUBSET (1..n)
        /\ k \in 0..n /\ k - 1 \in 0..n
    BY <1>1
  <2>3. F[1..k] = Newer(F[1..(k - 1)], batch[k])
    BY <1>2, <2>1, <2>2 DEF NewerPasses
  <2> QED BY <2>2, <2>3
<1>6. h[n] = F[1..n] BY <1>1
<1> QED BY <1>3, <1>4, <1>5, <1>6 DEF n

-----------------------------------------------------------------------------
(***************************************************************************)
(* What is stored after a batch and after a lookup.                        *)
(***************************************************************************)

\* Observations that were found expired and are still the newest.
Still(p, old, n) == { i \in p : n[i] = old[i] }

Since(old, n) ==
  \A i \in Ids : old[i] # NoTarget => n[i] # NoTarget /\ n[i].stamp >= old[i].stamp

LEMMA ObservationFields ==
  ASSUME NEW o \in Observations
  PROVE  /\ o # NoTarget /\ o.target_id \in Ids /\ o.stamp \in Times /\ o.stamp \in Nat
         /\ o.valid_for \in Nat /\ o.centroid \in Places
         /\ o.stamp # -1 /\ o.target_id \in Nat /\ o.centroid \in Nat
<1>1. /\ o.target_id \in Ids /\ o.stamp \in Times /\ o.valid_for \in Times
      /\ o.centroid \in Places
  BY DEF Observations
<1>2. Ids \subseteq Nat /\ Places \subseteq Nat /\ MaxTime \in Nat
  BY TargetsAssumption
<1>3. o # NoTarget BY TargetsAssumption
<1>4. Times \subseteq Nat /\ -1 \notin Times BY <1>2 DEF Times
<1>5. o.target_id \in Nat /\ o.stamp \in Nat /\ o.valid_for \in Nat /\ o.centroid \in Nat
  BY <1>1, <1>2, <1>4
<1>6. o.stamp # -1 BY <1>1, <1>4
<1> QED BY <1>1, <1>3, <1>5, <1>6

LEMMA HeldType ==
  ASSUME NEW o \in Observations \cup {NoTarget}, NEW isPassed
  PROVE  Held(o, isPassed) \in Observations \cup {NoTarget}
BY DEF Held, Observations, States

\* The registry and the history agree on which observation is newer.
LEMMA UpdateHolds ==
  ASSUME NEW old, NEW n, NEW p, NEW reg, NEW o \in Observations,
         IsNewest(old), IsNewest(n), Since(old, n),
         p \subseteq { i \in Ids : old[i] # NoTarget },
         Holds(reg, n, Still(p, old, n))
  PROVE  LET n2 == Newer(n, o)
         IN IsNewest(n2) /\ Since(old, n2)
            /\ Holds(Update(reg, o), n2, Still(p, old, n2))
<1> DEFINE id == o.target_id
           n2 == Newer(n, o)
<1>1. /\ o # NoTarget /\ id \in Ids /\ o.stamp \in Times /\ o.stamp \in Nat /\ o.stamp # -1
      /\ NoTarget \notin Observations
  BY ObservationFields, TargetsAssumption
<1>2. /\ n \in [Ids -> Observations \cup {NoTarget}]
      /\ \A i \in Ids : n[i] # NoTarget =>
           n[i].target_id = i /\ n[i].stamp \in Nat
      /\ old \in [Ids -> Observations \cup {NoTarget}]
      /\ \A i \in Ids : old[i] # NoTarget => old[i].stamp \in Nat
  BY ObservationFields DEF IsNewest
<1>3. /\ reg \in [targets: [Ids -> Observations \cup {NoTarget}],
                  latest: [Ids -> Times \cup {-1}]]
      /\ \A i \in Ids :
           /\ reg.latest[i] = IF n[i] = NoTarget THEN -1 ELSE n[i].stamp
           /\ reg.targets[i] = Held(n[i], i \in Still(p, old, n))
  BY DEF Holds
<1>4. (o.stamp <= reg.latest[id]) <=> ~(n[id] = NoTarget \/ n[id].stamp < o.stamp)
  BY <1>1, <1>2, <1>3
<1>5. CASE o.stamp <= reg.latest[id]
  <2>1. n2 = n /\ Update(reg, o) = reg BY <1>4, <1>5 DEF Newer, Update
  <2> QED BY <2>1
<1>6. CASE ~(o.stamp <= reg.latest[id])
  <2>1. n2 = [n EXCEPT ![id] = o] BY <1>4, <1>6 DEF Newer
  <2>2. /\ n2 \in [Ids -> Observations \cup {NoTarget}]
        /\ n2[id] = o
        /\ \A i \in Ids \ {id} : n2[i] = n[i]
    BY <1>1, <1>2, <2>1
  <2> HIDE DEF n2
  <2>3. IsNewest(n2) BY <1>2, <2>2 DEF IsNewest
  <2>4. Since(old, n2)
    <3> SUFFICES ASSUME NEW i \in Ids, old[i] # NoTarget
                 PROVE  n2[i] # NoTarget /\ n2[i].stamp >= old[i].stamp
      BY DEF Since
    <3>1. n[i] # NoTarget /\ n[i].stamp >= old[i].stamp BY DEF Since
    <3>2. i = id => n[id].stamp < o.stamp BY <1>4, <1>6, <3>1
    <3> QED BY <1>1, <1>2, <2>2, <3>1, <3>2
  <2>5. id \notin Still(p, old, n2)
    <3> SUFFICES ASSUME id \in p, old[id] = o PROVE FALSE
      BY <2>2 DEF Still
    <3>1. n[id] # NoTarget /\ n[id].stamp >= o.stamp BY <1>1 DEF Since
    <3> QED BY <1>1, <1>2, <1>4, <1>6, <3>1
  <2>6. \A i \in Ids \ {id} : i \in Still(p, old, n2) <=> i \in Still(p, old, n)
    BY <2>2 DEF Still
  <2> DEFINE r2 == Update(reg, o)
             held == IF o.observation_state \in Gone THEN NoTarget ELSE o
  <2>7. r2 = [targets |-> [reg.targets EXCEPT ![id] = held],
              latest |-> [reg.latest EXCEPT ![id] = o.stamp]]
    BY <1>6 DEF Update
  <2>8. held = Held(o, FALSE) BY <1>1 DEF Held
  <2>9. held \in Observations \cup {NoTarget} OBVIOUS
  <2> HIDE DEF held, r2
  <2>10. /\ r2 \in [targets: [Ids -> Observations \cup {NoTarget}],
                    latest: [Ids -> Times \cup {-1}]]
         /\ r2.targets[id] = held /\ r2.latest[id] = o.stamp
         /\ \A i \in Ids \ {id} : /\ r2.targets[i] = reg.targets[i]
                                  /\ r2.latest[i] = reg.latest[i]
    BY <1>1, <1>3, <2>7, <2>9
  <2>11. ASSUME NEW i \in Ids
         PROVE  /\ r2.latest[i] = IF n2[i] = NoTarget THEN -1 ELSE n2[i].stamp
                /\ r2.targets[i] = Held(n2[i], i \in Still(p, old, n2))
    <3>1. CASE i = id
      <4>1. Held(n2[i], i \in Still(p, old, n2)) = Held(o, FALSE)
        BY <2>2, <2>5, <3>1 DEF Held
      <4> QED BY <1>1, <2>2, <2>8, <2>10, <3>1, <4>1
    <3>2. CASE i # id
      <4>1. Held(n2[i], i \in Still(p, old, n2)) = Held(n[i], i \in Still(p, old, n))
        BY <2>2, <2>6, <3>2 DEF Held
      <4> QED BY <1>3, <2>2, <2>10, <3>2, <4>1
    <3> QED BY <3>1, <3>2
  <2>12. Holds(r2, n2, Still(p, old, n2)) BY <2>10, <2>11 DEF Holds
  <2> QED BY <2>3, <2>4, <2>12 DEF n2, r2
<1> QED BY <1>5, <1>6

\* A batch, whatever it repeats and in whatever order, leaves the newest of each
\* target.
LEMMA BatchHolds ==
  ASSUME NEW old, NEW p, NEW reg, NEW batch \in Seq(Observations), IsNewest(old),
         p \subseteq { i \in Ids : old[i] # NoTarget }, Holds(reg, old, p)
  PROVE  LET n == FoldLeft(Newer, old, batch)
         IN IsNewest(n) /\ Holds(UpdateMany(reg, batch), n, Still(p, old, n))
<1>1. PICK hr : /\ hr[0] = reg
                /\ \A k \in 1..Len(batch) : hr[k] = Update(hr[k - 1], batch[k])
                /\ UpdateMany(reg, batch) = hr[Len(batch)]
  BY UpdateSteps
<1>2. PICK hn : /\ hn[0] = old
                /\ \A k \in 1..Len(batch) : hn[k] = Newer(hn[k - 1], batch[k])
                /\ FoldLeft(Newer, old, batch) = hn[Len(batch)]
  BY NewerSteps
<1> DEFINE Good(k) == /\ IsNewest(hn[k]) /\ Since(old, hn[k])
                      /\ Holds(hr[k], hn[k], Still(p, old, hn[k]))
           T == { k \in 0..Len(batch) : ~Good(k) }
<1>3. Good(0)
  <2>1. Since(old, old)
    BY ObservationFields DEF Since, IsNewest
  <2>2. Still(p, old, old) = p BY DEF Still
  <2> QED BY <1>1, <1>2, <2>1, <2>2
<1>4. ASSUME NEW k \in 1..Len(batch), Good(k - 1) PROVE Good(k)
  <2>1. batch[k] \in Observations OBVIOUS
  <2>2. hr[k] = Update(hr[k - 1], batch[k]) /\ hn[k] = Newer(hn[k - 1], batch[k])
    BY <1>1, <1>2
  <2> QED BY <1>4, <2>1, <2>2, UpdateHolds
<1> HIDE DEF Good
<1>5. T = {}
  <2> SUFFICES ASSUME T # {} PROVE FALSE OBVIOUS
  <2>1. T \subseteq Nat OBVIOUS
  <2>2. PICK least \in T : \A m \in T : least <= m BY <2>1, LeastNat
  <2>3. least # 0 BY <1>3
  <2>4. least \in 1..Len(batch) /\ least - 1 \in 0..Len(batch) BY <2>3
  <2>5. Good(least - 1) BY <2>2, <2>4
  <2> QED BY <1>4, <2>4, <2>5
<1>6. Good(Len(batch)) BY <1>5
<1> QED BY <1>1, <1>2, <1>6 DEF Good

\* Observations that have expired.
Late(n, time) ==
  { i \in Ids : n[i] # NoTarget /\ time >= n[i].stamp + n[i].valid_for }

LEMMA ExpireHolds ==
  ASSUME NEW n, NEW p, NEW reg, NEW time \in Nat, IsNewest(n), Holds(reg, n, p)
  PROVE  Holds(Expire(reg, time), n, p \cup Late(n, time))
<1> DEFINE x == Expire(reg, time)
           mark(o) == IF o # NoTarget /\ IsExpired(o, time)
                      THEN [o EXCEPT !.observation_state = "EXPIRED"] ELSE o
<1>1. /\ n \in [Ids -> Observations \cup {NoTarget}]
      /\ NoTarget \notin Observations
  BY TargetsAssumption DEF IsNewest
<1>2. /\ reg \in [targets: [Ids -> Observations \cup {NoTarget}],
                  latest: [Ids -> Times \cup {-1}]]
      /\ \A i \in Ids :
           /\ reg.latest[i] = IF n[i] = NoTarget THEN -1 ELSE n[i].stamp
           /\ reg.targets[i] = Held(n[i], i \in p)
  BY DEF Holds
<1>3. x = [reg EXCEPT !.targets = [i \in Ids |-> mark(reg.targets[i])]]
  BY <1>2 DEF Expire, Stored
<1>4. \A o \in Observations \cup {NoTarget} : mark(o) \in Observations \cup {NoTarget}
  BY DEF Observations, States
<1>5. /\ x \in [targets: [Ids -> Observations \cup {NoTarget}],
                latest: [Ids -> Times \cup {-1}]]
      /\ \A i \in Ids : x.latest[i] = reg.latest[i] /\ x.targets[i] = mark(reg.targets[i])
  <2> HIDE DEF x, mark
  <2> QED BY <1>2, <1>3, <1>4
<1>6. ASSUME NEW i \in Ids
      PROVE  mark(Held(n[i], i \in p)) = Held(n[i], i \in p \cup Late(n, time))
  <2>1. CASE n[i] = NoTarget \/ n[i].observation_state \in Gone
    BY <2>1 DEF Held
  <2>2. CASE n[i] # NoTarget /\ n[i].observation_state \notin Gone
    <3> DEFINE o == n[i]
               e == [o EXCEPT !.observation_state = "EXPIRED"]
    <3>1. o \in Observations /\ e \in Observations
      BY <1>1, <2>2 DEF Observations, States
    <3>2. /\ e.stamp = o.stamp /\ e.valid_for = o.valid_for
          /\ [e EXCEPT !.observation_state = "EXPIRED"] = e
      BY <3>1 DEF Observations
    <3>3. IsExpired(o, time) <=> i \in Late(n, time)
      BY <2>2 DEF IsExpired, Late
    <3>4. IsExpired(e, time) <=> IsExpired(o, time)
      BY <3>2 DEF IsExpired
    <3>5. /\ Held(o, i \in p) = IF i \in p THEN e ELSE o
          /\ Held(o, i \in p \cup Late(n, time))
               = IF i \in p \cup Late(n, time) THEN e ELSE o
      BY <2>2 DEF Held
    <3> HIDE DEF o, e
    <3>6. o # NoTarget /\ e # NoTarget BY <1>1, <3>1
    <3>7. mark(o) = IF i \in Late(n, time) THEN e ELSE o
      BY <3>3, <3>6 DEF e
    <3>8. mark(e) = e BY <3>2, <3>6
    <3>9. mark(Held(o, i \in p)) = Held(o, i \in p \cup Late(n, time))
      BY <3>5, <3>7, <3>8
    <3> QED BY <3>9 DEF o
  <2> QED BY <2>1, <2>2
<1> QED BY <1>2, <1>5, <1>6 DEF Holds

\* A target is available by its newest observation, unless that was found expired.
Fits(i, n, p, policy) ==
  /\ i \in Ids \ p
  /\ n[i] # NoTarget
  /\ n[i].observation_state \in {"NEW", "CONFIRMED"}
  /\ n[i].projection_valid
  /\ n[i].target_type \notin {"UNKNOWN", "ANY"}
  /\ policy \in {"ANY", n[i].target_type}

LEMMA CandidatesFit ==
  ASSUME NEW n, NEW p, NEW reg, NEW policy, IsNewest(n), Holds(reg, n, p)
  PROVE  Candidates(reg, policy) = { n[i] : i \in { j \in Ids : Fits(j, n, p, policy) } }
<1>1. /\ n \in [Ids -> Observations \cup {NoTarget}]
      /\ NoTarget \notin Observations
      /\ \A i \in Ids : reg.targets[i] = Held(n[i], i \in p)
  BY TargetsAssumption DEF IsNewest, Holds
<1>2. ASSUME NEW i \in Ids, reg.targets[i] # NoTarget
      PROVE  /\ n[i] # NoTarget /\ n[i].observation_state \notin Gone
             /\ reg.targets[i] = IF i \in p
                  THEN [n[i] EXCEPT !.observation_state = "EXPIRED"] ELSE n[i]
  BY <1>1, <1>2 DEF Held
<1>3. ASSUME NEW o \in Candidates(reg, policy)
      PROVE  \E i \in Ids : Fits(i, n, p, policy) /\ o = n[i]
  <2>1. PICK i \in Ids : o = reg.targets[i] /\ o # NoTarget
    BY DEF Candidates, Available, Stored
  <2>2. o.observation_state \in {"NEW", "CONFIRMED"}
    BY DEF Candidates, Available
  <2>3. n[i] \in Observations BY <1>1, <1>2, <2>1
  <2>4. i \notin p
    <3> SUFFICES ASSUME i \in p PROVE FALSE OBVIOUS
    <3>1. o = [n[i] EXCEPT !.observation_state = "EXPIRED"] BY <1>2, <2>1
    <3>2. o.observation_state = "EXPIRED" BY <2>3, <3>1 DEF Observations
    <3> QED BY <2>2, <3>2
  <2>5. o = n[i] BY <1>2, <2>1, <2>4
  <2> QED BY <2>1, <2>4, <2>5 DEF Candidates, Available, Fits
<1>4. ASSUME NEW i \in Ids, Fits(i, n, p, policy)
      PROVE  n[i] \in Candidates(reg, policy)
  <2>1. reg.targets[i] = n[i] BY <1>1, <1>4 DEF Fits, Held, Gone
  <2> QED BY <1>4, <2>1 DEF Fits, Candidates, Available, Stored
<1> QED BY <1>3, <1>4

\* Of any candidates there is a first: the least id of the least distance.
LEMMA SelectedIsFirst ==
  ASSUME NEW S, S \subseteq Observations, S # {}, NEW at \in Places
  PROVE  /\ Selected(S, at) \in S
         /\ \A u \in S : Before(Selected(S, at), u, at)
<1>1. at \in Nat BY TargetsAssumption
<1>2. \A o \in S : Distance(o, at) \in Nat /\ o.target_id \in Nat
  BY <1>1, ObservationFields DEF Distance
<1> DEFINE D == { Distance(o, at) : o \in S }
<1>3. PICK d \in D : \A e \in D : d <= e
  <2>1. D \subseteq Nat /\ D # {} BY <1>2
  <2> HIDE DEF D
  <2> QED BY <2>1, LeastNat
<1> DEFINE I == { o.target_id : o \in { u \in S : Distance(u, at) = d } }
<1>4. PICK i \in I : \A j \in I : i <= j
  <2>1. I \subseteq Nat /\ I # {} BY <1>2, <1>3
  <2> HIDE DEF I
  <2> QED BY <2>1, LeastNat
<1>5. PICK o \in S : Distance(o, at) = d /\ o.target_id = i BY <1>4
<1>6. ASSUME NEW u \in S PROVE Before(o, u, at)
  <2>1. d <= Distance(u, at) BY <1>3
  <2>2. Distance(u, at) = d => i <= u.target_id BY <1>4
  <2>3. d \in Nat /\ Distance(u, at) \in Nat BY <1>2, <1>3
  <2> QED BY <1>5, <2>1, <2>2, <2>3 DEF Before
<1> QED BY <1>6 DEF Selected

-----------------------------------------------------------------------------
(***************************************************************************)
(* The lookup: what it stores, and what it answers.                        *)
(***************************************************************************)

\* Late targets are passed by a lookup; what was passed stays so until it is seen anew.
LEMMA PassedAfter ==
  ASSUME IsNewest(newest), IsNewest(newest'),
         passed \subseteq { i \in Ids : newest[i] # NoTarget },
         NEW looked, NEW at, NotePassed(looked, at)
  PROVE  passed' = Still(passed, newest, newest')
                     \cup (IF looked /\ at # NoPose THEN Late(newest', now) ELSE {})
<1>1. \A i \in Ids : i \in passed => newest[i] # NoTarget
  OBVIOUS
<1>2. \A i : i \in Still(passed, newest, newest') <=>
               i \in Ids /\ i \in passed /\ newest'[i] = newest[i]
  BY DEF Still
<1>3. \A i : i \in Late(newest', now) <=>
               /\ i \in Ids /\ newest'[i] # NoTarget
               /\ now >= newest'[i].stamp + newest'[i].valid_for
  BY DEF Late
<1>4. \A i : i \in passed' <=>
               /\ i \in Ids /\ newest'[i] # NoTarget
               /\ \/ i \in passed /\ newest'[i] = newest[i]
                  \/ looked /\ at # NoPose /\ now >= newest'[i].stamp + newest'[i].valid_for
  BY DEF NotePassed
<1> QED BY <1>1, <1>2, <1>3, <1>4

\* Expiring twice at the same time is expiring once.
LEMMA ExpiredCandidates ==
  ASSUME NEW n, NEW p, NEW reg, NEW time \in Nat, NEW policy, IsNewest(n), Holds(reg, n, p)
  PROVE  Candidates(Expire(reg, time), policy)
           = { n[i] : i \in { j \in Ids : Fits(j, n, p \cup Late(n, time), policy) } }
<1>1. Holds(Expire(reg, time), n, p \cup Late(n, time)) BY ExpireHolds
<1> HIDE DEF Expire, Late
<1> QED BY <1>1, CandidatesFit

\* A target fits after a lookup just when a mission may be driven to it.
LEMMA FitsIsUsable ==
  ASSUME NEW i \in Ids, NEW policy, now \in Nat, IsNewest(newest'),
         Late(newest', now) \subseteq passed'
  PROVE  Fits(i, newest', passed', policy) <=> Usable(i, policy)
<1>1. newest'[i] # NoTarget => newest'[i].stamp \in Nat /\ newest'[i].valid_for \in Nat
  BY ObservationFields DEF IsNewest
<1>2. i \notin passed' /\ newest'[i] # NoTarget => now < newest'[i].stamp + newest'[i].valid_for
  BY <1>1 DEF Late
<1> QED BY <1>2 DEF Fits, Usable

\* What a lookup leaves: the mission waits on with no candidates left, or is driven to
\* the first usable target.
LookedUp(m, at) ==
  /\ Holds(registry', newest', passed')
  /\ passed' \subseteq { i \in Ids : newest'[i] # NoTarget }
  /\ mission' \in Missions
  /\ mission'.policy = m.policy
  /\ \/ /\ mission' = m
        /\ at # NoPose => Candidates(Expire(registry', now), m.policy) = {}
     \/ /\ mission'.state = "driving"
        /\ at # NoPose
        /\ mission'.target \in Ids
        /\ Usable(mission'.target, m.policy)
        /\ \A i \in Ids : Usable(i, m.policy) =>
             Before(newest'[mission'.target], newest'[i], at)

LEMMA ResolveKeeps ==
  ASSUME NEW reg, NEW m \in Missions, NEW at \in Places \cup {NoPose},
         now \in Times, IsNewest(newest), IsNewest(newest'),
         passed \subseteq { i \in Ids : newest[i] # NoTarget },
         Holds(reg, newest', Still(passed, newest, newest')),
         NotePassed(TRUE, at), Resolve(reg, m, at)
  PROVE  LookedUp(m, at)
<1>1. now \in Nat BY TargetsAssumption DEF Times
<1>2. /\ newest' \in [Ids -> Observations \cup {NoTarget}]
      /\ \A i \in Ids : newest'[i] # NoTarget => newest'[i].target_id = i
      /\ NoTarget \notin Ids
  BY TargetsAssumption DEF IsNewest
<1>3. passed' \subseteq { i \in Ids : newest'[i] # NoTarget }
  BY DEF NotePassed
<1>4. CASE at = NoPose
  <2>1. passed' = Still(passed, newest, newest') BY <1>4, PassedAfter
  <2>2. registry' = reg /\ mission' = m BY <1>4 DEF Resolve
  <2> QED BY <1>3, <1>4, <2>1, <2>2 DEF LookedUp
<1>5. CASE at # NoPose
  <2> DEFINE C == Candidates(Expire(reg, now), m.policy)
  <2>1. passed' = Still(passed, newest, newest') \cup Late(newest', now)
    BY <1>5, PassedAfter
  <2>2. /\ registry' = Expire(reg, now)
        /\ mission' = IF C = {} THEN m
                      ELSE [m EXCEPT !.state = "driving", !.deadline = 0,
                                     !.target = Selected(C, at).target_id]
    BY <1>5 DEF Resolve
  <2>3. Holds(registry', newest', passed') BY <1>1, <2>1, <2>2, ExpireHolds
  <2>4. C = { newest'[i] : i \in { j \in Ids : Fits(j, newest', passed', m.policy) } }
    BY <1>1, <2>1, ExpiredCandidates
  <2>5. Candidates(Expire(registry', now), m.policy) = C
    <3>1. passed' \cup Late(newest', now) = passed' BY <2>1
    <3> QED BY <1>1, <2>3, <2>4, <3>1, ExpiredCandidates
  <2>6. \A i \in Ids : Fits(i, newest', passed', m.policy) <=> Usable(i, m.policy)
    BY <1>1, <2>1, FitsIsUsable
  <2> HIDE DEF C
  <2>7. CASE C = {}
    BY <1>3, <2>2, <2>3, <2>5, <2>7 DEF LookedUp
  <2>8. CASE C # {}
    <3> DEFINE o == Selected(C, at)
    <3>1. C \subseteq Observations
      BY <1>2, <2>4 DEF Fits
    <3>2. o \in C /\ \A u \in C : Before(o, u, at)
      BY <1>5, <2>8, <3>1, SelectedIsFirst
    <3>3. PICK i \in Ids : Fits(i, newest', passed', m.policy) /\ o = newest'[i]
      BY <2>4, <3>2
    <3>4. o.target_id = i BY <1>2, <3>3 DEF Fits
    <3>5. mission' = [m EXCEPT !.state = "driving", !.deadline = 0, !.target = i]
      BY <2>2, <2>8, <3>4
    <3>6. /\ mission' \in Missions /\ mission'.state = "driving"
          /\ mission'.policy = m.policy /\ mission'.target = i
      BY <3>5 DEF Missions
    <3>7. \A j \in Ids : Usable(j, m.policy) => Before(newest'[i], newest'[j], at)
      BY <2>4, <2>6, <3>2, <3>3
    <3> QED BY <1>3, <1>5, <2>3, <2>6, <3>3, <3>6, <3>7 DEF LookedUp
  <2> QED BY <2>7, <2>8
<1> QED BY <1>4, <1>5

-----------------------------------------------------------------------------
(***************************************************************************)
(* The steps keep the invariant, and a goal that is frozen is the first.   *)
(***************************************************************************)

\* GoalIsCurrent, of one step.
FreezesFirst ==
  mission.target = NoTarget /\ mission'.target # NoTarget =>
    /\ pose' # NoPose
    /\ Usable(mission'.target, mission'.policy)
    /\ \A i \in Ids : Usable(i, mission'.policy) =>
         Before(newest'[mission'.target], newest'[i], pose')

\* The initial states satisfy it.
LEMMA InitIInv ==
  ASSUME TargetsInit
  PROVE  TargetsIInv
<1>1. /\ now \in Times /\ resets \in 0..MaxResets
  BY TargetsAssumption DEF TargetsInit, Times
<1>2. IsNewest(newest) /\ Holds(registry, newest, passed)
  BY DEF TargetsInit, IsNewest, Holds, Held
<1>3. MissionFits
  BY DEF TargetsInit, MissionFits, NoMission, Missions
<1>4. NoTargetIsMissed
  BY DEF TargetsInit, NoTargetIsMissed
<1> QED BY <1>1, <1>2, <1>3, <1>4 DEF TargetsInit, TargetsIInv

\* A lookup at the robot's pose, for the mission as it is or as it becomes.
LEMMA LookupKeeps ==
  ASSUME TargetsIInv, IsNewest(newest'), NEW m \in Missions,
         m.state = "waiting", m.target = NoTarget,
         now' = now, resets' = resets, pose' \in Places \cup {NoPose},
         LookedUp(m, pose')
  PROVE  TargetsIInv' /\ FreezesFirst
<1>1. MissionFits'
  BY TargetsAssumption DEF LookedUp, MissionFits
<1>2. NoTargetIsMissed'
  BY DEF LookedUp, NoTargetIsMissed
<1>3. now' \in Times /\ resets' \in 0..MaxResets BY DEF TargetsIInv
<1>4. TargetsIInv'
  BY <1>1, <1>2, <1>3 DEF LookedUp, TargetsIInv
<1>5. FreezesFirst
  BY DEF LookedUp, FreezesFirst
<1> QED BY <1>4, <1>5

LEMMA ActivateKeeps ==
  ASSUME TargetsIInv, NEW policy \in Policies, Activate(policy)
  PROVE  TargetsIInv' /\ FreezesFirst
<1> DEFINE m == [NoMission EXCEPT !.state = "waiting", !.policy = policy,
                                  !.deadline = now + Wait]
<1>1. /\ now \in Times /\ now \in Nat /\ now + Wait \in Nat
  BY TargetsAssumption DEF TargetsIInv, Times
<1>2. m \in Missions /\ m.state = "waiting" /\ m.target = NoTarget
  BY <1>1 DEF NoMission, Missions
<1> HIDE DEF m
<1>3. IsNewest(newest') /\ newest' = newest /\ pose' = pose
  BY DEF Activate, TargetsIInv
<1>4. Holds(registry, newest', Still(passed, newest, newest'))
  <2>1. Still(passed, newest, newest') = passed BY <1>3 DEF Still
  <2> QED BY <1>3, <2>1 DEF TargetsIInv
<1>5. LookedUp(m, pose')
  BY <1>1, <1>2, <1>3, <1>4, ResolveKeeps DEF Activate, TargetsIInv, m
<1> QED BY <1>2, <1>3, <1>5, LookupKeeps DEF Activate, TargetsIInv

\* A retry with the registry `reg`, at a pose and after a batch, if one came.
LEMMA RetryKeeps ==
  ASSUME TargetsIInv, IsNewest(newest'), NEW reg,
         now' = now, resets' = resets, pose' \in Places \cup {NoPose},
         Holds(reg, newest', Still(passed, newest, newest')), Retry(reg, pose')
  PROVE  TargetsIInv' /\ FreezesFirst
<1>1. now \in Times /\ MissionFits /\ passed \subseteq { i \in Ids : newest[i] # NoTarget }
      /\ IsNewest(newest)
  BY DEF TargetsIInv
<1>2. passed' \subseteq { i \in Ids : newest'[i] # NoTarget }
  BY DEF Retry, NotePassed
<1>3. CASE Waiting /\ ~TimedOut
  <2>1. NotePassed(TRUE, pose') /\ Resolve(reg, mission, pose')
    BY <1>3 DEF Retry
  <2>2. mission \in Missions /\ mission.state = "waiting" /\ mission.target = NoTarget
    BY <1>1, <1>3 DEF MissionFits, Waiting
  <2>3. LookedUp(mission, pose') BY <1>1, <2>1, <2>2, ResolveKeeps
  <2> QED BY <2>2, <2>3, LookupKeeps
<1>4. CASE ~(Waiting /\ ~TimedOut)
  <2>1. NotePassed(FALSE, pose') BY <1>4 DEF Retry
  <2>2. passed' = Still(passed, newest, newest') BY <1>1, <2>1, PassedAfter
  <2>3. registry' = reg /\ mission' \in {mission, NoMission} /\ mission'.state # "waiting"
    BY <1>4 DEF Retry, Waiting, NoMission
  <2>4. MissionFits'
    BY <1>1, <2>3 DEF MissionFits, NoMission, Missions
  <2>5. NoTargetIsMissed' BY <2>3 DEF NoTargetIsMissed
  <2>6. now' \in Times /\ resets' \in 0..MaxResets BY DEF TargetsIInv
  <2>7. Holds(registry', newest', passed') BY <2>2, <2>3
  <2>8. TargetsIInv' BY <1>2, <2>4, <2>5, <2>6, <2>7 DEF TargetsIInv
  <2>9. FreezesFirst BY <2>3 DEF FreezesFirst, NoMission
  <2> QED BY <2>8, <2>9
<1> QED BY <1>3, <1>4

LEMMA ResumeKeeps ==
  ASSUME TargetsIInv, Resume
  PROVE  TargetsIInv' /\ FreezesFirst
<1>1. /\ now \in Times /\ MissionFits /\ IsNewest(newest')
      /\ newest' = newest /\ pose' = pose /\ now' = now /\ resets' = resets
      /\ mission.state = "paused"
  BY DEF Resume, TargetsIInv
<1>2. CASE mission.target # NoTarget
  <2>1. /\ mission' = [mission EXCEPT !.state = "driving"]
        /\ UNCHANGED <<registry, passed>>
    BY <1>2 DEF Resume
  <2>2. MissionFits' BY <1>1, <1>2, <2>1 DEF MissionFits, Missions
  <2>3. mission'.state = "driving" BY <1>1, <2>1 DEF MissionFits, Missions
  <2>4. NoTargetIsMissed' BY <2>3 DEF NoTargetIsMissed
  <2>5. TargetsIInv' BY <1>1, <2>1, <2>2, <2>4 DEF TargetsIInv
  <2> QED BY <1>2, <2>5 DEF FreezesFirst
<1>3. CASE mission.target = NoTarget
  <2> DEFINE m == [mission EXCEPT !.state = "waiting"]
  <2>1. Resolve(registry, m, pose) /\ NotePassed(TRUE, pose) BY <1>3 DEF Resume
  <2>2. m \in Missions /\ m.state = "waiting" /\ m.target = NoTarget
    BY <1>1, <1>3 DEF MissionFits, Missions
  <2> HIDE DEF m
  <2>3. Holds(registry, newest', Still(passed, newest, newest'))
    <3>1. Still(passed, newest, newest') = passed BY <1>1 DEF Still
    <3> QED BY <1>1, <3>1 DEF TargetsIInv
  <2>4. LookedUp(m, pose')
    BY <1>1, <2>1, <2>2, <2>3, ResolveKeeps DEF TargetsIInv
  <2> QED BY <1>1, <2>2, <2>4, LookupKeeps DEF TargetsIInv
<1> QED BY <1>2, <1>3

LEMMA ReceiveTargetsKeeps ==
  ASSUME TargetsIInv, NEW batch \in Batches, ReceiveTargets(batch)
  PROVE  TargetsIInv' /\ FreezesFirst
<1>1. batch \in Seq(Observations) BY TargetsAssumption
<1>2. newest' = FoldLeft(Newer, newest, batch)
  BY DEF ReceiveTargets, NoteNewest
<1>3. /\ IsNewest(newest')
      /\ Holds(UpdateMany(registry, batch), newest', Still(passed, newest, newest'))
  BY <1>1, <1>2, BatchHolds DEF TargetsIInv
<1>4. /\ now' = now /\ resets' = resets /\ pose' = pose
      /\ pose' \in Places \cup {NoPose}
      /\ Retry(UpdateMany(registry, batch), pose')
  BY DEF ReceiveTargets, TargetsIInv
<1> QED BY <1>3, <1>4, RetryKeeps

LEMMA ReceivePoseKeeps ==
  ASSUME TargetsIInv, NEW place \in Places, ReceivePose(place)
  PROVE  TargetsIInv' /\ FreezesFirst
<1>1. /\ pose' = place /\ newest' = newest /\ now' = now /\ resets' = resets
      /\ Retry(registry, pose')
  BY DEF ReceivePose
<1>2. Still(passed, newest, newest') = passed BY <1>1 DEF Still
<1>3. IsNewest(newest') /\ Holds(registry, newest', Still(passed, newest, newest'))
  BY <1>1, <1>2 DEF TargetsIInv
<1> QED BY <1>1, <1>3, RetryKeeps

\* The mission stops waiting without a lookup: PAUSE, the timeout, another end.
LEMMA QuietKeeps ==
  ASSUME TargetsIInv, UNCHANGED <<now, resets, registry, pose, newest, passed>>,
         \/ mission' = NoMission
         \/ mission' = [mission EXCEPT !.state = "paused"]
  PROVE  TargetsIInv' /\ FreezesFirst
<1>1. /\ MissionFits'
      /\ mission'.state # "waiting"
      /\ mission'.target \in {mission.target, NoTarget}
  BY DEF TargetsIInv, MissionFits, Missions, NoMission
<1>2. NoTargetIsMissed' BY <1>1 DEF NoTargetIsMissed
<1> QED BY <1>1, <1>2 DEF TargetsIInv, FreezesFirst

\* Time only makes fewer targets fit.
LEMMA TickKeeps ==
  ASSUME TargetsIInv, Tick
  PROVE  TargetsIInv' /\ FreezesFirst
<1>1. /\ now \in Nat /\ now' \in Times /\ now' = now + 1
      /\ UNCHANGED <<resets, registry, pose, mission, newest, passed>>
  BY TargetsAssumption DEF TargetsIInv, Times, Tick
<1>2. /\ IsNewest(newest) /\ Holds(registry, newest, passed)
      /\ \A i \in Ids : newest[i] # NoTarget =>
           newest[i].stamp \in Nat /\ newest[i].valid_for \in Nat
  BY ObservationFields DEF TargetsIInv, IsNewest
<1>3. Late(newest, now) \subseteq Late(newest, now')
  BY <1>1, <1>2 DEF Late
<1>4. Candidates(Expire(registry, now'), mission.policy)
        \subseteq Candidates(Expire(registry, now), mission.policy)
  <2> DEFINE policy == mission.policy
  <2> HIDE DEF policy
  <2>1. ASSUME NEW time \in Nat
        PROVE  Candidates(Expire(registry, time), policy)
                 = { newest[i] : i \in { j \in Ids :
                       Fits(j, newest, passed \cup Late(newest, time), policy) } }
    BY <1>2, ExpiredCandidates
  <2>2. now \in Nat /\ now' \in Nat BY <1>1
  <2>3. \A j \in Ids : Fits(j, newest, passed \cup Late(newest, now'), policy)
                         => Fits(j, newest, passed \cup Late(newest, now), policy)
    BY <1>3 DEF Fits
  <2> QED BY <2>1, <2>2, <2>3 DEF policy
<1>5. NoTargetIsMissed'
  BY <1>1, <1>4 DEF TargetsIInv, NoTargetIsMissed
<1> QED BY <1>1, <1>5 DEF TargetsIInv, MissionFits, FreezesFirst

\* When the clock was set back, what was late may fit again.
LEMMA ClockSetBackKeeps ==
  ASSUME TargetsIInv, ClockSetBack
  PROVE  TargetsIInv' /\ FreezesFirst
<1>1. /\ now' \in Times /\ resets' \in 0..MaxResets /\ resets' # 0
      /\ UNCHANGED <<registry, pose, mission, newest, passed>>
  BY TargetsAssumption DEF TargetsIInv, ClockSetBack
<1>2. NoTargetIsMissed' BY <1>1 DEF NoTargetIsMissed
<1> QED BY <1>1, <1>2 DEF TargetsIInv, MissionFits, FreezesFirst

LEMMA NextKeeps ==
  ASSUME TargetsIInv, [TargetsNext]_targetVars
  PROVE  TargetsIInv' /\ FreezesFirst
<1>1. CASE \E policy \in Policies : Activate(policy)
  BY <1>1, ActivateKeeps
<1>2. CASE Pause \/ MissionEnds \/ Timer
  BY <1>2, QuietKeeps DEF Pause, MissionEnds, Timer
<1>3. CASE Resume
  BY <1>3, ResumeKeeps
<1>4. CASE \E batch \in Batches : ReceiveTargets(batch)
  BY <1>4, ReceiveTargetsKeeps
<1>5. CASE \E place \in Places : ReceivePose(place)
  BY <1>5, ReceivePoseKeeps
<1>6. CASE Tick
  BY <1>6, TickKeeps
<1>7. CASE ClockSetBack
  BY <1>7, ClockSetBackKeeps
<1>8. CASE UNCHANGED targetVars
  <2>1. UNCHANGED <<now, resets, registry, pose, mission, newest, passed>>
    BY <1>8 DEF targetVars
  <2> QED BY <2>1 DEF TargetsIInv, MissionFits, NoTargetIsMissed, FreezesFirst
<1> QED BY <1>1, <1>2, <1>3, <1>4, <1>5, <1>6, <1>7, <1>8 DEF TargetsNext

-----------------------------------------------------------------------------
\* The inductive invariant holds in every reachable state.
THEOREM TargetsInvariant == TargetsSpec => []TargetsIInv
<1>1. TargetsInit => TargetsIInv BY InitIInv
<1>2. TargetsIInv /\ [TargetsNext]_targetVars => TargetsIInv' BY NextKeeps
<1> QED BY <1>1, <1>2, PTL DEF TargetsSpec

\* Type correctness; the registry stores no target that is lost or invalid.
THEOREM TargetsTypeCorrect == TargetsSpec => []TargetsTypeOK
<1>1. ASSUME TargetsIInv PROVE TargetsTypeOK
  <2>1. registry \in [targets: [Ids -> Observations \cup {NoTarget}],
                      latest: [Ids -> Times \cup {-1}]]
    BY <1>1 DEF TargetsIInv, Holds
  <2>2. ASSUME NEW o \in Stored(registry) PROVE o.observation_state \notin {"LOST", "INVALID"}
    <3>1. PICK i \in Ids : o = registry.targets[i] /\ o # NoTarget BY DEF Stored
    <3>2. o = Held(newest[i], i \in passed) /\ newest[i] \in Observations \cup {NoTarget}
      BY <1>1, <3>1 DEF TargetsIInv, Holds, IsNewest
    <3> QED BY <3>1, <3>2 DEF Held, Gone, Observations
  <2> QED BY <1>1, <2>1, <2>2 DEF TargetsIInv, MissionFits, TargetsTypeOK
<1> QED BY <1>1, TargetsInvariant, PTL

\* However observations are delayed, repeated or reordered, within a batch or between
\* batches, and the clock set back, the registry holds the newest of each target,
\* nothing when that says the target is gone.
THEOREM RegistryIsNewest == TargetsSpec => []RegistryHoldsNewest
<1>1. ASSUME TargetsIInv PROVE RegistryHoldsNewest
  BY <1>1 DEF TargetsIInv, Holds, Held, RegistryHoldsNewest
<1> QED BY <1>1, TargetsInvariant, PTL

\* No mission waits while there is a target for it, unless the clock was set back.
THEOREM NoneIsMissed == TargetsSpec => []NoTargetIsMissed
<1>1. TargetsIInv => NoTargetIsMissed BY DEF TargetsIInv
<1> QED BY <1>1, TargetsInvariant, PTL

\* A goal that is frozen is the first target that is usable at that moment.
THEOREM GoalIsFirst == TargetsSpec => GoalIsCurrent
<1>1. TargetsIInv /\ [TargetsNext]_targetVars => [FreezesFirst]_targetVars
  BY NextKeeps
<1> QED BY <1>1, TargetsInvariant, PTL DEF TargetsSpec, GoalIsCurrent, FreezesFirst

-----------------------------------------------------------------------------
(***************************************************************************)
(* What WaitEnds rests on.                                                 *)
(***************************************************************************)
\* A lookup leaves the deadline as it is, or finds a target and needs none any more.
LEMMA ResolveDeadline ==
  ASSUME NEW reg, NEW m \in Missions, NEW at, Resolve(reg, m, at)
  PROVE  \/ mission' = m
         \/ mission'.state = "driving" /\ mission'.deadline = 0
<1>1. CASE at = NoPose BY <1>1 DEF Resolve
<1>2. CASE at # NoPose
  <2> DEFINE found(target) ==
        [m EXCEPT !.state = "driving", !.deadline = 0, !.target = target]
  <2>1. \A target : found(target).state = "driving" /\ found(target).deadline = 0
    BY DEF Missions
  <2>2. mission' = m \/ \E target : mission' = found(target)
    BY <1>2 DEF Resolve
  <2> QED BY <2>1, <2>2
<1> QED BY <1>1, <1>2

\* A step keeps the deadline of a mission without a target, drops it, or sets it when the
\* mission begins.
LEMMA DeadlineAfter ==
  ASSUME TargetsIInv, TargetsNext
  PROVE  \/ mission'.deadline = mission.deadline
         \/ mission'.state = "driving" /\ mission'.deadline = 0
         \/ mission' = NoMission
         \/ mission = NoMission /\ now' = now /\ mission'.deadline = now + Wait
<1>1. mission \in Missions /\ now + Wait \in Nat
  BY TargetsAssumption DEF TargetsIInv, MissionFits, Times
<1>2. ASSUME NEW policy \in Policies, Activate(policy)
      PROVE  \/ mission'.state = "driving" /\ mission'.deadline = 0
             \/ mission = NoMission /\ now' = now /\ mission'.deadline = now + Wait
  <2> DEFINE m == [NoMission EXCEPT !.state = "waiting", !.policy = policy,
                                    !.deadline = now + Wait]
  <2>1. m \in Missions /\ m.deadline = now + Wait BY <1>1 DEF NoMission, Missions
  <2>2. mission = NoMission /\ now' = now /\ Resolve(registry, m, pose)
    BY <1>2 DEF Activate
  <2> HIDE DEF m
  <2> QED BY <2>1, <2>2, ResolveDeadline
<1>3. ASSUME NEW reg, NEW at, Retry(reg, at)
      PROVE  \/ mission' \in {mission, NoMission}
             \/ mission'.state = "driving" /\ mission'.deadline = 0
  BY <1>1, <1>3, ResolveDeadline DEF Retry
<1>4. CASE \E batch \in Batches : ReceiveTargets(batch)
  BY <1>3, <1>4 DEF ReceiveTargets
<1>5. CASE \E place \in Places : ReceivePose(place)
  BY <1>3, <1>5 DEF ReceivePose
<1>6. CASE Resume
  <2> DEFINE m == [mission EXCEPT !.state = "waiting"]
  <2>1. m \in Missions /\ m.deadline = mission.deadline BY <1>1 DEF Missions
  <2>2. mission' = [mission EXCEPT !.state = "driving"] \/ Resolve(registry, m, pose)
    BY <1>6 DEF Resume
  <2> HIDE DEF m
  <2>3. CASE mission' = [mission EXCEPT !.state = "driving"]
    BY <1>1, <2>3 DEF Missions
  <2> QED BY <2>1, <2>2, <2>3, ResolveDeadline
<1>7. CASE Pause
  BY <1>1, <1>7 DEF Pause, Missions
<1>8. CASE MissionEnds \/ Timer \/ Tick \/ ClockSetBack
  BY <1>8 DEF MissionEnds, Timer, Tick, ClockSetBack
<1> QED BY <1>2, <1>4, <1>5, <1>6, <1>7, <1>8 DEF TargetsNext

\* The clock only runs forward until it is set back.
LEMMA ClockRuns ==
  ASSUME TargetsIInv, TargetsNext, resets' = 0
  PROVE  resets = 0 /\ (now' = now \/ now' = now + 1)
<1>1. CASE ClockSetBack
  BY <1>1, TargetsAssumption DEF ClockSetBack, TargetsIInv
<1>2. CASE ~ClockSetBack
  BY <1>2 DEF TargetsNext, Activate, Pause, Resume, MissionEnds, ReceiveTargets, ReceivePose,
             Timer, Tick
<1> QED BY <1>1, <1>2

\* A waiting mission's time runs out, whatever comes in and however often it is paused.
THEOREM DeadlinesAreKept == TargetsSpec => DeadlineIsKept
<1>1. TargetsIInv /\ TargetsIInv' /\ [TargetsNext]_targetVars =>
        [mission # NoMission /\ mission.target = NoTarget
           /\ mission' # NoMission /\ mission'.target = NoTarget =>
             mission'.deadline = mission.deadline]_targetVars
  BY DeadlineAfter DEF TargetsIInv, MissionFits
<1> QED BY <1>1, TargetsInvariant, PTL DEF TargetsSpec, DeadlineIsKept

\* And runs out after one wait at the latest.
THEOREM WaitsAreBounded == TargetsSpec => []WaitIsBounded
<1>1. TargetsInit => WaitIsBounded
  BY TargetsAssumption DEF TargetsInit, NoMission, WaitIsBounded
<1>2. ASSUME TargetsIInv, WaitIsBounded, [TargetsNext]_targetVars PROVE WaitIsBounded'
  <2>1. mission.deadline \in Nat /\ now \in Nat /\ Wait \in Nat
    BY <1>2, TargetsAssumption DEF TargetsIInv, MissionFits, Missions, Times
  <2>2. CASE UNCHANGED targetVars
    BY <1>2, <2>2 DEF targetVars, WaitIsBounded
  <2>3. CASE TargetsNext
    <3>1. SUFFICES ASSUME resets' = 0 PROVE mission'.deadline <= now' + Wait
      BY DEF WaitIsBounded
    <3>2. mission.deadline <= now + Wait /\ (now' = now \/ now' = now + 1)
      BY <1>2, <2>3, <3>1, ClockRuns DEF WaitIsBounded
    <3>3. mission'.deadline \in {mission.deadline, 0} \/ (now' = now /\ mission'.deadline = now + Wait)
      BY <1>2, <2>3, DeadlineAfter DEF NoMission
    <3> QED BY <2>1, <3>2, <3>3
  <2> QED BY <1>2, <2>2, <2>3
<1> QED BY <1>1, <1>2, TargetsInvariant, PTL DEF TargetsSpec
=============================================================================
