---------------------------- MODULE CommandStore ----------------------------
(***************************************************************************)
(* CommandRecordStore with its deduplicator and its terminal cache         *)
(* (domain/command_store.py, domain/command_processing.py): what is kept   *)
(* of each command_id, and what a retry of it is answered.                 *)
(*                                                                         *)
(* The last status of every command is kept for ever; a final one is also  *)
(* put into a bounded FIFO cache, and it is the cache that a retry is      *)
(* answered from.  Unbounded: fingerprints, records, latest statuses.      *)
(***************************************************************************)
EXTENDS Naturals, Sequences

CONSTANTS
  Commands,   \* command_ids
  Meanings,   \* values of the fields of a command that its fingerprint keeps
  Details,    \* values of the others (stamp, confidence, raw_text)
  States,     \* the external states that are written
  MaxEntries  \* capacity of the terminal cache

\* _COMMAND_TERMINAL_STATES: EMERGENCY_STOPPED ends executions only.
TerminalStates == { "REJECTED", "SUCCEEDED", "CANCELED", "FAILED" }

ASSUME StoreAssumption ==
  /\ MaxEntries \in Nat \ {0}
  /\ "none" \notin Meanings \cup States

RecordStates == { "RECEIVED", "ACCEPTED", "REJECTED", "QUEUED", "APPLIED", "TERMINAL" }

Messages  == [meaning: Meanings, detail: Details]
NoMessage == [meaning |-> "none", detail |-> "none"]
Snapshots == [id: Commands, state: States]

VARIABLES
  fingerprint,  \* _fingerprints, by command; "none" before the first message
  record,       \* _records: record state by command, or "none"
  latest,       \* _latest_command_status: state by command, or "none"
  cache,        \* _terminal_cache, oldest first
  first,        \* history: the first message of each command
  finished      \* history: the first final status of each command, in order

storeVars == <<fingerprint, record, latest, cache>>
history   == <<first, finished>>
csVars    == <<storeVars, history>>

StoreInit ==
  /\ fingerprint = [c \in Commands |-> "none"]
  /\ record = [c \in Commands |-> "none"]
  /\ latest = [c \in Commands |-> "none"]
  /\ cache = <<>>
  /\ first = [c \in Commands |-> NoMessage]
  /\ finished = <<>>

IsTerminal(state) == state \in TerminalStates

(***************************************************************************)
(* TerminalStatusCache.                                                    *)
(***************************************************************************)
IsIn(snapshots, c) == \E i \in DOMAIN snapshots : snapshots[i].id = c

\* get_command: the state cached for c, or "none".
Cached(c) ==
  IF IsIn(cache, c)
  THEN cache[CHOOSE i \in DOMAIN cache : cache[i].id = c].state ELSE "none"

\* write: the first status of a command stays, the oldest command goes.
CacheWrite(snapshot) ==
  IF IsIn(cache, snapshot.id) THEN cache
  ELSE LET longer == Append(cache, snapshot) IN
       IF Len(longer) > MaxEntries THEN Tail(longer) ELSE longer

(***************************************************************************)
(* register_or_replay.                                                     *)
(***************************************************************************)

Fingerprint(message) == message.meaning

\* check_and_record.
Decision(c, message) ==
  CASE fingerprint[c] = "none"                 -> "NEW"
    [] fingerprint[c] = Fingerprint(message)   -> "REPLAY"
    [] OTHER                                   -> "CONFLICT"

\* What a REPLAY is answered: the reason and, for IDEMPOTENT_REPLAY, the state.
ReplayAnswer(c) ==
  IF record[c] = "none" \/ latest[c] = "none"
    THEN [reason |-> "COMMAND_RECORD_CORRUPT", state |-> "none"]
  ELSE IF ~IsTerminal(latest[c])
    THEN [reason |-> "IDEMPOTENT_REPLAY", state |-> latest[c]]
  ELSE IF Cached(c) = "none"
    THEN [reason |-> "TERMINAL_CACHE_MISSING", state |-> "none"]
  ELSE [reason |-> "IDEMPOTENT_REPLAY", state |-> Cached(c)]

Answer(c, message) ==
  CASE Decision(c, message) = "NEW" ->
         [reason |-> "COMMAND_RECEIVED", state |-> "none"]
    [] Decision(c, message) = "CONFLICT" ->
         [reason |-> "DUPLICATE_COMMAND_CONFLICT", state |-> "none"]
    [] OTHER -> ReplayAnswer(c)

\* Mutant: a conflicting message takes the command over.
RegisterLastMessage(c, message) ==
  /\ Decision(c, message) # "REPLAY"
  /\ fingerprint' = [fingerprint EXCEPT ![c] = Fingerprint(message)]
  /\ record' = [record EXCEPT ![c] = "RECEIVED"]
  /\ first' = IF first[c] = NoMessage THEN [first EXCEPT ![c] = message] ELSE first
  /\ UNCHANGED <<latest, cache, finished>>

\* A retry and a conflict change nothing: they are Answer alone.
RegisterOrReplay(c, message) ==
  /\ Decision(c, message) = "NEW"
  /\ fingerprint' = [fingerprint EXCEPT ![c] = Fingerprint(message)]
  /\ record' = [record EXCEPT ![c] = "RECEIVED"]
  /\ first' = [first EXCEPT ![c] = message]
  /\ UNCHANGED <<latest, cache, finished>>

(***************************************************************************)
(* update_record and write_command_status, for a command that has a record *)
(* (another one raises KeyError).                                          *)
(***************************************************************************)
UpdateRecord(c, state) ==
  /\ record[c] \notin {"none", "TERMINAL"}
  /\ record' = [record EXCEPT ![c] = state]
  /\ UNCHANGED <<fingerprint, latest, cache, history>>

\* Mutant: whether a final status was written is asked of the cache.
WriteUnlessCached(c, state) ==
  /\ record[c] # "none"
  /\ ~IsIn(cache, c)
  /\ latest' = [latest EXCEPT ![c] = state]
  /\ IF IsTerminal(state)
     THEN /\ cache' = CacheWrite([id |-> c, state |-> state])
          /\ finished' = IF IsIn(finished, c) THEN finished
                         ELSE Append(finished, [id |-> c, state |-> state])
     ELSE UNCHANGED <<cache, finished>>
  /\ UNCHANGED <<fingerprint, record, first>>

\* A write after a final status changes nothing.
WriteCommandStatus(c, state) ==
  /\ record[c] # "none"
  /\ ~IsTerminal(latest[c])
  /\ IF ~IsTerminal(state)
     THEN /\ latest' = [latest EXCEPT ![c] = state]
          /\ UNCHANGED <<cache, finished>>
     ELSE /\ cache' = CacheWrite([id |-> c, state |-> state])
          /\ latest' = [latest EXCEPT ![c] = IF IsIn(cache, c) THEN Cached(c)
                                             ELSE state]
          /\ finished' = IF IsIn(finished, c) THEN finished
                         ELSE Append(finished, [id |-> c, state |-> state])
  /\ UNCHANGED <<fingerprint, record, first>>

StoreNext ==
  \E c \in Commands :
    \/ \E message \in Messages : RegisterOrReplay(c, message)
    \/ \E state \in RecordStates : UpdateRecord(c, state)
    \/ \E state \in States : WriteCommandStatus(c, state)

StoreSpec == StoreInit /\ [][StoreNext]_csVars
-----------------------------------------------------------------------------
\* The type invariant.
StoreTypeOK ==
  /\ fingerprint \in [Commands -> Meanings \cup {"none"}]
  /\ record \in [Commands -> RecordStates \cup {"none"}]
  /\ latest \in [Commands -> States \cup {"none"}]
  /\ cache \in Seq(Snapshots)
  /\ first \in [Commands -> Messages \cup {NoMessage}]
  /\ finished \in Seq(Snapshots)

\* The cache holds the commands that ended last, as they first ended, in the
\* order in which they did, however many more there were and however often
\* somebody tried to end one again.
CacheHoldsNewest ==
  /\ Len(cache) = IF Len(finished) < MaxEntries THEN Len(finished) ELSE MaxEntries
  /\ \A i \in 1..Len(cache) : cache[i] = finished[Len(finished) - Len(cache) + i]

\* The retry of a command, whatever its details and however late it comes, is
\* never taken for a new command; it is told the first final status, unless at
\* least MaxEntries commands ended since, and one that means something else is
\* refused.  (Of the retry of a command that has not ended, which is told no final
\* status yet, that it is not taken for a new one is part of StoreIInv.)
RetryTellsStory ==
  \A c \in Commands, message \in Messages :
    first[c] # NoMessage =>
      LET answer == Answer(c, message) IN
      IF message.meaning # first[c].meaning
      THEN answer.reason = "DUPLICATE_COMMAND_CONFLICT"
      ELSE \A i \in DOMAIN finished : finished[i].id = c =>
             answer = IF Len(finished) - i < MaxEntries
                      THEN [reason |-> "IDEMPOTENT_REPLAY", state |-> finished[i].state]
                      ELSE [reason |-> "TERMINAL_CACHE_MISSING", state |-> "none"]

\* A command that has been told its end is not told another one: no step takes a
\* final status back, also not after the cache has forgotten it.
EndIsKept ==
  [][\A c \in Commands : IsTerminal(latest[c]) => latest'[c] = latest[c]]_csVars

\* Each command ends once, and its latest status is the one it ended with.
FinishedOnce ==
  /\ \A i, j \in DOMAIN finished : finished[i].id = finished[j].id => i = j
  /\ \A i \in DOMAIN finished :
       IsTerminal(finished[i].state) /\ latest[finished[i].id] = finished[i].state
  /\ \A c \in Commands : IsTerminal(latest[c]) => IsIn(finished, c)

Registered ==
  \A c \in Commands :
    /\ first[c] = NoMessage <=> record[c] = "none"
    /\ fingerprint[c] = Fingerprint(first[c])
    /\ record[c] = "none" => latest[c] = "none"

\* The inductive invariant, from which RetryTellsStory and EndIsKept follow.
StoreIInv ==
  /\ StoreTypeOK
  /\ Registered
  /\ FinishedOnce
  /\ CacheHoldsNewest
=============================================================================
