------------------------- MODULE CommandStore_proofs -------------------------
(***************************************************************************)
(* Proofs about CommandStore, for any commands and any cache capacity.     *)
(* The cache is a suffix of the history `finished`, so what a retry is     *)
(* told is decided by how far back the end of its command lies.            *)
(***************************************************************************)
EXTENDS CommandStore, TLAPS

\* A status that is not there is not final.
LEMMA NoneIsOpen == ~IsTerminal("none")
  BY DEF IsTerminal, TerminalStates

\* The end of b is a.
Ends(a, b) ==
  /\ Len(a) <= Len(b)
  /\ \A i \in 1..Len(a) : a[i] = b[Len(b) - Len(a) + i]

\* Appending the same to both, and dropping the oldest, keeps a the end of b.
LEMMA AppendEnds ==
  ASSUME NEW S, NEW a \in Seq(S), NEW b \in Seq(S), NEW x \in S, Ends(a, b)
  PROVE  Ends(Append(a, x), Append(b, x))
<1> DEFINE aa == Append(a, x)
           bb == Append(b, x)
<1>1. /\ Len(aa) = Len(a) + 1
      /\ Len(bb) = Len(b) + 1
      /\ Len(a) \in Nat /\ Len(b) \in Nat
  OBVIOUS
<1>2. ASSUME NEW i \in 1..(Len(a) + 1)
      PROVE  aa[i] = bb[Len(b) - Len(a) + i]
  <2>1. CASE i = Len(a) + 1
    BY <1>1, <2>1
  <2>2. CASE i \in 1..Len(a)
    <3>1. aa[i] = a[i]
      BY <2>2
    <3>2. a[i] = b[Len(b) - Len(a) + i] /\ Len(b) - Len(a) + i \in 1..Len(b)
      BY <1>1, <2>2 DEF Ends
    <3>3. bb[Len(b) - Len(a) + i] = b[Len(b) - Len(a) + i]
      BY <3>2
    <3> QED
      BY <3>1, <3>2, <3>3
  <2>3. i = Len(a) + 1 \/ i \in 1..Len(a)
    BY <1>1
  <2> QED
    BY ONLY <2>1, <2>2, <2>3
<1> HIDE DEF aa, bb
<1>3. Len(aa) <= Len(bb) /\ Len(bb) - Len(aa) = Len(b) - Len(a)
  BY <1>1 DEF Ends
<1>4. \A i \in 1..Len(aa) : aa[i] = bb[Len(bb) - Len(aa) + i]
  BY <1>1, <1>2, <1>3
<1>5. Ends(aa, bb)
  BY <1>3, <1>4 DEF Ends
<1> QED
  BY <1>5 DEF aa, bb

LEMMA TailEnds ==
  ASSUME NEW S, NEW a \in Seq(S), NEW b \in Seq(S), a # <<>>, Ends(a, b)
  PROVE  Ends(Tail(a), b)
<1>1. /\ Len(Tail(a)) = Len(a) - 1
      /\ Len(a) \in Nat /\ Len(b) \in Nat /\ Len(a) > 0
  OBVIOUS
<1>2. ASSUME NEW i \in 1..(Len(a) - 1)
      PROVE  Tail(a)[i] = b[Len(b) - (Len(a) - 1) + i]
  <2>1. Tail(a)[i] = a[i + 1]
    BY <1>1
  <2>2. a[i + 1] = b[Len(b) - Len(a) + (i + 1)]
    BY <1>1 DEF Ends
  <2>3. Len(b) - Len(a) + (i + 1) = Len(b) - (Len(a) - 1) + i
    BY <1>1
  <2> QED
    BY <2>1, <2>2, <2>3
<1> QED
  BY <1>1, <1>2 DEF Ends

\* What the lemmas below need of the invariant: the cache is the end of the history.
LEMMA CacheIsEnd ==
  ASSUME StoreIInv
  PROVE  /\ cache \in Seq(Snapshots) /\ finished \in Seq(Snapshots)
         /\ Ends(cache, finished)
         /\ Len(cache) <= MaxEntries
         /\ Len(cache) < MaxEntries => Len(cache) = Len(finished)
         /\ MaxEntries \in Nat \ {0}
<1>1. /\ cache \in Seq(Snapshots) /\ finished \in Seq(Snapshots)
      /\ Len(cache) \in Nat /\ Len(finished) \in Nat
      /\ MaxEntries \in Nat \ {0}
  BY StoreAssumption DEF StoreIInv, StoreTypeOK
<1>2. Len(cache) = IF Len(finished) < MaxEntries THEN Len(finished) ELSE MaxEntries
  BY DEF StoreIInv, CacheHoldsNewest
<1>3. /\ Len(cache) <= MaxEntries
      /\ Len(cache) <= Len(finished)
      /\ Len(cache) < MaxEntries => Len(cache) = Len(finished)
  BY <1>1, <1>2
<1>4. Ends(cache, finished)
  BY <1>3 DEF StoreIInv, CacheHoldsNewest, Ends
<1> QED
  BY <1>1, <1>3, <1>4

LEMMA SnapshotsOfFinished ==
  ASSUME StoreIInv, NEW i \in DOMAIN finished
  PROVE  finished[i].id \in Commands /\ finished[i].state \in States
<1>1. finished[i] \in Snapshots
  BY CacheIsEnd
<1> QED
  BY <1>1 DEF Snapshots

\* A command without a final status is neither in the history nor in the cache.
LEMMA OpenIsNotCached ==
  ASSUME StoreIInv, NEW c \in Commands, ~IsTerminal(latest[c])
  PROVE  ~IsIn(finished, c) /\ ~IsIn(cache, c)
<1>1. ~IsIn(finished, c)
  BY DEF StoreIInv, FinishedOnce, IsIn
<1>2. ASSUME NEW i \in DOMAIN cache PROVE cache[i].id # c
  <2>1. /\ DOMAIN cache = 1..Len(cache) /\ DOMAIN finished = 1..Len(finished)
        /\ Len(cache) \in Nat /\ Len(finished) \in Nat
    BY CacheIsEnd
  <2>2. Len(cache) <= Len(finished) /\ cache[i] = finished[Len(finished) - Len(cache) + i]
    BY <2>1, CacheIsEnd DEF Ends
  <2>3. Len(finished) - Len(cache) + i \in DOMAIN finished
    BY <2>1, <2>2
  <2> QED
    BY <1>1, <2>2, <2>3 DEF IsIn
<1> QED
  BY <1>1, <1>2 DEF IsIn

\* A new final status keeps the cache the newest part of the history.
LEMMA CacheWriteHoldsNewest ==
  ASSUME StoreIInv, NEW s \in Snapshots, ~IsIn(cache, s.id),
         cache' = CacheWrite(s), finished' = Append(finished, s)
  PROVE  CacheHoldsNewest' /\ cache' \in Seq(Snapshots)
<1> DEFINE longer == Append(cache, s)
<1>1. /\ longer \in Seq(Snapshots) /\ longer # <<>>
      /\ finished' \in Seq(Snapshots)
      /\ Len(longer) = Len(cache) + 1
      /\ Len(finished') = Len(finished) + 1
      /\ Len(cache) \in Nat /\ Len(finished) \in Nat
  BY CacheIsEnd
<1>2. Ends(longer, finished')
  BY CacheIsEnd, AppendEnds
<1>3. cache' = IF Len(longer) > MaxEntries THEN Tail(longer) ELSE longer
  BY DEF CacheWrite
<1> HIDE DEF longer
<1>4. CASE Len(longer) > MaxEntries
  <2>1. Ends(Tail(longer), finished')
    BY <1>1, <1>2, TailEnds
  <2>2. Len(Tail(longer)) = Len(longer) - 1 /\ Tail(longer) \in Seq(Snapshots)
    BY <1>1
  <2>3. Len(cache) = MaxEntries /\ Len(cache) <= Len(finished) /\ MaxEntries \in Nat
    BY <1>1, <1>4, CacheIsEnd DEF Ends
  <2>4. cache' = Tail(longer)
    BY <1>3, <1>4
  <2>5. Len(cache') = MaxEntries /\ ~(Len(finished') < MaxEntries)
    BY <1>1, <2>2, <2>3, <2>4
  <2>6. Ends(cache', finished')
    BY <2>1, <2>4
  <2> QED
    BY <2>2, <2>4, <2>5, <2>6 DEF CacheHoldsNewest, Ends
<1>5. CASE ~(Len(longer) > MaxEntries)
  <2>1. cache' = longer
    BY <1>3, <1>5
  <2>2. Len(cache) = Len(finished) /\ Len(cache) < MaxEntries /\ MaxEntries \in Nat
    BY <1>1, <1>5, CacheIsEnd
  <2>3. Len(cache') = IF Len(finished') < MaxEntries THEN Len(finished') ELSE MaxEntries
    BY <1>1, <2>1, <2>2, <1>5
  <2>4. Ends(cache', finished')
    BY <1>2, <2>1
  <2> QED
    BY <1>1, <2>1, <2>3, <2>4 DEF CacheHoldsNewest, Ends
<1> QED
  BY <1>4, <1>5

\* A handler that leaves the cache and the history alone.
LEMMA CacheUntouched ==
  ASSUME StoreIInv, UNCHANGED <<cache, finished>>
  PROVE  CacheHoldsNewest'
  BY DEF StoreIInv, CacheHoldsNewest

LEMMA InitIInv == StoreInit => StoreIInv
<1> SUFFICES ASSUME StoreInit PROVE StoreIInv
  OBVIOUS
<1>1. /\ cache = <<>> /\ finished = <<>>
      /\ Len(cache) = 0 /\ Len(finished) = 0 /\ MaxEntries \in Nat \ {0}
  BY StoreAssumption DEF StoreInit
<1>2. StoreTypeOK
  BY <1>1 DEF StoreInit, StoreTypeOK
<1>3. Registered
  BY DEF StoreInit, Registered, Fingerprint, NoMessage
<1>4. FinishedOnce
  BY <1>1, NoneIsOpen DEF StoreInit, FinishedOnce
<1>5. CacheHoldsNewest
  BY <1>1 DEF CacheHoldsNewest
<1> QED
  BY <1>2, <1>3, <1>4, <1>5 DEF StoreIInv

LEMMA RegisterIInv ==
  ASSUME StoreIInv, NEW c \in Commands, NEW message \in Messages,
         RegisterOrReplay(c, message)
  PROVE  StoreIInv'
<1> USE DEF StoreIInv
<1>1. message.meaning \in Meanings /\ message # NoMessage
  BY StoreAssumption DEF Messages, NoMessage
<1>2. StoreTypeOK'
  BY <1>1 DEF RegisterOrReplay, StoreTypeOK, Fingerprint, RecordStates
<1>3. Registered'
  BY <1>1 DEF RegisterOrReplay, StoreTypeOK, Registered, Fingerprint
<1>4. FinishedOnce'
  BY DEF RegisterOrReplay, FinishedOnce, IsIn, IsTerminal
<1>5. CacheHoldsNewest'
  BY CacheUntouched DEF RegisterOrReplay
<1> QED
  BY <1>2, <1>3, <1>4, <1>5

LEMMA UpdateIInv ==
  ASSUME StoreIInv, NEW c \in Commands, NEW state \in RecordStates,
         UpdateRecord(c, state)
  PROVE  StoreIInv'
<1> USE DEF StoreIInv
<1>1. StoreTypeOK'
  BY DEF UpdateRecord, StoreTypeOK, history
<1>2. Registered'
  BY DEF UpdateRecord, StoreTypeOK, Registered, Fingerprint, RecordStates, history
<1>3. FinishedOnce'
  BY DEF UpdateRecord, FinishedOnce, IsIn, IsTerminal, history
<1>4. CacheHoldsNewest'
  BY CacheUntouched DEF UpdateRecord, history
<1> QED
  BY <1>1, <1>2, <1>3, <1>4

\* A status that is not final.
LEMMA OpenWriteIInv ==
  ASSUME StoreIInv, NEW c \in Commands, NEW state \in States,
         ~IsTerminal(state), WriteCommandStatus(c, state)
  PROVE  StoreIInv'
<1> USE DEF StoreIInv
<1>1. /\ latest' = [latest EXCEPT ![c] = state] /\ record[c] # "none"
      /\ UNCHANGED <<fingerprint, record, cache, first, finished>>
      /\ ~IsIn(finished, c)
  BY OpenIsNotCached DEF WriteCommandStatus
<1>2. StoreTypeOK'
  BY <1>1 DEF StoreTypeOK
<1>3. Registered'
  BY <1>1 DEF StoreTypeOK, Registered, Fingerprint
<1>4. FinishedOnce'
  <2>1. \A i \in DOMAIN finished : finished[i].id # c
    BY <1>1 DEF IsIn
  <2>2. \A i \in DOMAIN finished : finished[i].id \in Commands
    BY SnapshotsOfFinished
  <2>3. \A d \in Commands : latest'[d] = IF d = c THEN state ELSE latest[d]
    BY <1>1 DEF StoreTypeOK
  <2> QED
    BY <1>1, <2>1, <2>2, <2>3 DEF FinishedOnce, IsIn, IsTerminal
<1>5. CacheHoldsNewest'
  BY <1>1, CacheUntouched
<1> QED
  BY <1>2, <1>3, <1>4, <1>5

\* The final status of a command: the first, for the store takes no second one.
LEMMA FinalWriteIInv ==
  ASSUME StoreIInv, NEW c \in Commands, NEW state \in States,
         IsTerminal(state), WriteCommandStatus(c, state)
  PROVE  StoreIInv'
<1> USE DEF StoreIInv
<1> DEFINE s == [id |-> c, state |-> state]
<1>1. /\ cache' = CacheWrite(s)
      /\ latest' = [latest EXCEPT ![c] = state]
      /\ finished' = Append(finished, s)
      /\ record[c] # "none"
      /\ UNCHANGED <<fingerprint, record, first>>
  BY OpenIsNotCached DEF WriteCommandStatus
<1>2. ~IsIn(finished, c) /\ ~IsIn(cache, c)
  BY OpenIsNotCached DEF WriteCommandStatus
<1>3. s \in Snapshots /\ s.id = c /\ s.state = state
  BY DEF Snapshots
<1> HIDE DEF s
<1>4. CacheHoldsNewest' /\ cache' \in Seq(Snapshots)
  BY <1>1, <1>2, <1>3, CacheWriteHoldsNewest
<1>5. /\ finished' \in Seq(Snapshots)
      /\ DOMAIN finished = 1..Len(finished) /\ Len(finished) \in Nat
      /\ DOMAIN finished' = 1..(Len(finished) + 1)
      /\ \A i \in DOMAIN finished : finished'[i] = finished[i]
      /\ finished'[Len(finished) + 1] = s
  BY <1>1, <1>3 DEF StoreTypeOK
<1>6. StoreTypeOK'
  BY <1>1, <1>4, <1>5 DEF StoreTypeOK
<1>7. Registered'
  BY <1>1 DEF StoreTypeOK, Registered, Fingerprint
<1>8. FinishedOnce'
  <2>1. \A i \in DOMAIN finished : finished[i].id # c /\ finished[i].id \in Commands
    BY <1>2, SnapshotsOfFinished DEF IsIn
  <2>2. \A d \in Commands : latest'[d] = IF d = c THEN state ELSE latest[d]
    BY <1>1 DEF StoreTypeOK
  <2>3. \A i \in DOMAIN finished' : i \in DOMAIN finished \/ i = Len(finished) + 1
    BY <1>5
  <2>4. \A i, j \in DOMAIN finished' : finished'[i].id = finished'[j].id => i = j
    BY <1>3, <1>5, <2>1, <2>3 DEF FinishedOnce
  <2>5. \A i \in DOMAIN finished' :
          IsTerminal(finished'[i].state) /\ latest'[finished'[i].id] = finished'[i].state
    BY <1>3, <1>5, <2>1, <2>2, <2>3 DEF FinishedOnce
  <2>6. \A d \in Commands : IsTerminal(latest'[d]) => IsIn(finished', d)
    <3> SUFFICES ASSUME NEW d \in Commands, IsTerminal(latest'[d]) PROVE IsIn(finished', d)
      OBVIOUS
    <3>1. CASE d = c
      BY <1>3, <1>5, <3>1 DEF IsIn
    <3>2. CASE d # c
      <4>1. PICK i \in DOMAIN finished : finished[i].id = d
        BY <2>2, <3>2 DEF FinishedOnce, IsIn
      <4>2. i \in DOMAIN finished' /\ finished'[i].id = d
        BY <1>5, <4>1
      <4> QED
        BY <4>2 DEF IsIn
    <3> QED
      BY <3>1, <3>2
  <2> QED
    BY <2>4, <2>5, <2>6 DEF FinishedOnce, IsTerminal
<1> QED
  BY <1>4, <1>6, <1>7, <1>8

LEMMA NextIInv == StoreIInv /\ [StoreNext]_csVars => StoreIInv'
<1> SUFFICES ASSUME StoreIInv, [StoreNext]_csVars PROVE StoreIInv'
  OBVIOUS
<1>1. ASSUME NEW c \in Commands, NEW message \in Messages, RegisterOrReplay(c, message)
      PROVE  StoreIInv'
  BY <1>1, RegisterIInv
<1>2. ASSUME NEW c \in Commands, NEW state \in RecordStates, UpdateRecord(c, state)
      PROVE  StoreIInv'
  BY <1>2, UpdateIInv
<1>3. ASSUME NEW c \in Commands, NEW state \in States, WriteCommandStatus(c, state)
      PROVE  StoreIInv'
  BY <1>3, OpenWriteIInv, FinalWriteIInv
<1>4. CASE UNCHANGED csVars
  BY <1>4 DEF StoreIInv, StoreTypeOK, Registered, FinishedOnce, CacheHoldsNewest,
              IsIn, IsTerminal, Fingerprint, csVars, storeVars, history
<1> QED
  BY <1>1, <1>2, <1>3, <1>4 DEF StoreNext

\* The inductive invariant of the store (command_store.py), for any commands,
\* messages and capacity.
THEOREM StoreInvariant == StoreSpec => []StoreIInv
  BY InitIInv, NextIInv, PTL DEF StoreSpec

\* What the cache has of a command that ended as finished[i].
LEMMA CachedIfNew ==
  ASSUME StoreIInv, NEW i \in DOMAIN finished
  PROVE  Cached(finished[i].id) = IF Len(finished) - i < MaxEntries
                                  THEN finished[i].state ELSE "none"
<1> DEFINE c == finished[i].id
           m == Len(cache)
           n == Len(finished)
           gone == n - m
<1>1. DOMAIN cache = 1..m /\ DOMAIN finished = 1..n
  BY CacheIsEnd
<1>2. /\ m \in Nat /\ n \in Nat /\ MaxEntries \in Nat
      /\ m <= n /\ m <= MaxEntries
      /\ m < MaxEntries => m = n
  BY CacheIsEnd DEF Ends
<1>3. \A j \in DOMAIN cache : cache[j] = finished[gone + j]
  BY <1>1, CacheIsEnd DEF Ends
<1> HIDE DEF c, m, n
<1>4. i \in 1..n
  BY <1>1
<1>5. /\ gone \in Nat /\ gone + m = n
      /\ n - i < MaxEntries => gone < i
      /\ ~(n - i < MaxEntries) => i <= gone
      /\ \A j \in 1..m : gone + j \in 1..n
  BY <1>2, <1>4
<1> HIDE DEF gone
<1>6. \A j, k \in DOMAIN finished : finished[j].id = finished[k].id => j = k
  BY DEF StoreIInv, FinishedOnce
<1>7. \A j \in DOMAIN cache : cache[j].id = c => gone + j = i
  BY <1>1, <1>3, <1>5, <1>6 DEF c
<1>8. CASE n - i < MaxEntries
  <2>1. i - gone \in DOMAIN cache
    BY <1>1, <1>2, <1>4, <1>5, <1>8
  <2>2. cache[i - gone].id = c
    <3>1. gone + (i - gone) = i
      BY <1>4, <1>5
    <3> QED
      BY <1>3, <2>1, <3>1 DEF c
  <2>3. IsIn(cache, c)
    BY <2>1, <2>2 DEF IsIn
  <2>4. PICK j \in DOMAIN cache :
          j = (CHOOSE k \in DOMAIN cache : cache[k].id = c) /\ cache[j].id = c
    BY <2>1, <2>2
  <2>5. cache[j] = finished[i]
    BY <1>3, <1>7, <2>4
  <2> QED
    BY <1>8, <2>3, <2>4, <2>5 DEF Cached, c, n
<1>9. CASE ~(n - i < MaxEntries)
  <2>1. ASSUME NEW j \in DOMAIN cache PROVE cache[j].id # c
    <3>1. gone + j # i
      BY <1>1, <1>2, <1>4, <1>5, <1>9
    <3> QED
      BY <1>7, <3>1
  <2> QED
    BY <1>9, <2>1 DEF Cached, IsIn, c, n
<1> QED
  BY <1>8, <1>9

\* The invariant decides every answer to a retry.
LEMMA IInvTellsStory == StoreIInv => RetryTellsStory
<1> SUFFICES ASSUME StoreIInv, NEW c \in Commands, NEW message \in Messages,
                    first[c] # NoMessage
             PROVE  IF message.meaning # first[c].meaning
                    THEN Answer(c, message).reason = "DUPLICATE_COMMAND_CONFLICT"
                    ELSE \A i \in DOMAIN finished : finished[i].id = c =>
                           Answer(c, message) =
                             IF Len(finished) - i < MaxEntries
                             THEN [reason |-> "IDEMPOTENT_REPLAY", state |-> finished[i].state]
                             ELSE [reason |-> "TERMINAL_CACHE_MISSING", state |-> "none"]
  BY DEF RetryTellsStory
<1>1. first[c] \in Messages
  BY DEF StoreIInv, StoreTypeOK
<1>2. /\ fingerprint[c] = first[c].meaning /\ fingerprint[c] # "none"
      /\ record[c] # "none"
  BY <1>1, StoreAssumption DEF StoreIInv, Registered, Fingerprint, Messages
<1>3. CASE message.meaning # first[c].meaning
  <2>1. Decision(c, message) = "CONFLICT"
    BY <1>2, <1>3 DEF Decision, Fingerprint
  <2> QED
    BY <1>3, <2>1 DEF Answer
<1>4. CASE message.meaning = first[c].meaning
  <2>1. Answer(c, message) = ReplayAnswer(c)
    <3>1. Decision(c, message) = "REPLAY"
      BY <1>2, <1>4 DEF Decision, Fingerprint
    <3> QED
      BY <3>1 DEF Answer
  <2>2. ASSUME NEW i \in DOMAIN finished, finished[i].id = c
        PROVE  ReplayAnswer(c) =
                 IF Len(finished) - i < MaxEntries
                 THEN [reason |-> "IDEMPOTENT_REPLAY", state |-> finished[i].state]
                 ELSE [reason |-> "TERMINAL_CACHE_MISSING", state |-> "none"]
    <3>1. IsTerminal(latest[c]) /\ latest[c] # "none"
      BY <2>2, NoneIsOpen DEF StoreIInv, FinishedOnce
    <3>2. finished[i].state # "none"
      BY SnapshotsOfFinished, StoreAssumption
    <3>3. Cached(c) = IF Len(finished) - i < MaxEntries THEN finished[i].state ELSE "none"
      BY <2>2, CachedIfNew
    <3> QED
      BY <1>2, <3>1, <3>2, <3>3 DEF ReplayAnswer
  <2> QED
    BY <1>4, <2>1, <2>2
<1> QED
  BY <1>3, <1>4

\* A retry is never taken for a new command and is told the first final status
\* as long as the cache can hold it (register_or_replay).
THEOREM RetriesAreAnswered == StoreSpec => []RetryTellsStory
  BY StoreInvariant, IInvTellsStory, PTL

\* No step takes a final status back, whatever the cache has forgotten
\* (write_command_status).
THEOREM EndsAreKept == StoreSpec => EndIsKept
<1>1. ASSUME StoreIInv, [StoreNext]_csVars
      PROVE  \A c \in Commands : IsTerminal(latest[c]) => latest'[c] = latest[c]
  <2> SUFFICES ASSUME NEW c \in Commands, IsTerminal(latest[c])
               PROVE  latest'[c] = latest[c]
    OBVIOUS
  <2>1. ASSUME NEW d \in Commands, NEW state \in States, WriteCommandStatus(d, state)
        PROVE  latest'[c] = latest[c]
    <3>1. d # c
      BY <2>1 DEF WriteCommandStatus
    <3>2. PICK new : latest' = [latest EXCEPT ![d] = new]
      BY <2>1 DEF WriteCommandStatus
    <3> QED
      BY <3>1, <3>2 DEF StoreIInv, StoreTypeOK
  <2>2. CASE UNCHANGED latest
    BY <2>2
  <2> QED
    BY <1>1, <2>1, <2>2 DEF StoreNext, RegisterOrReplay, UpdateRecord, csVars, storeVars
<1>2. StoreIInv /\ StoreIInv' /\ [StoreNext]_csVars =>
        [\A c \in Commands : IsTerminal(latest[c]) => latest'[c] = latest[c]]_csVars
  BY <1>1
<1> QED
  BY <1>2, StoreInvariant, PTL DEF StoreSpec, EndIsKept

\* Every variable of the stores keeps its type.
THEOREM StoreTypeCorrect == StoreSpec => []StoreTypeOK
<1>1. StoreIInv => StoreTypeOK BY DEF StoreIInv
<1> QED BY <1>1, StoreInvariant, PTL
=============================================================================
