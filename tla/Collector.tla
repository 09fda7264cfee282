------------------------------ MODULE Collector ------------------------------
(***************************************************************************)
(* The polling loop of one device of the collector (cmd/collector): the    *)
(* main poll of the catalogue, the optional requests on the same Modbus    *)
(* session, redialling, and what reaches telemetry_samples.  A register    *)
(* answers with its own address and the time it was measured at.           *)
(***************************************************************************)
EXTENDS Integers, Sequences, SequencesExt, FiniteSets, FiniteSetsExt

CONSTANTS
  NoSample,    \* nothing there
  Catalogue,   \* key -> [start, words]: registers.ResolvedEntry
  Optional,    \* sequence of [keys, every]: optionalGroups
  Blanks,      \* sets of keys a device may have no reading of
  MaxPerRead,  \* maxRegistersPerRead
  PollEvery, OptionalBackoff, RequestTimeout, MaxReconnect,
  LastColTick, \* bound: the clock stops here
  MaxColFaults \* bound: refusals, timeouts, broken connections, failed inserts

ASSUME CollectorAssumption ==
  /\ {MaxPerRead, PollEvery, OptionalBackoff, RequestTimeout, MaxReconnect} \subseteq Nat \ {0}
  /\ {LastColTick, MaxColFaults} \subseteq Nat
  /\ IsFiniteSet(DOMAIN Catalogue)
  /\ \A k \in DOMAIN Catalogue : Catalogue[k] \in [start : Nat, words : Nat \ {0}]
  /\ Optional \in Seq([keys : SUBSET DOMAIN Catalogue, every : Nat])

OptionalKeys == UNION {Optional[g].keys : g \in DOMAIN Optional}
MainKeys == DOMAIN Catalogue \ OptionalKeys

-----------------------------------------------------------------------------
(* modbusclient/plan.go *)

Extends(last, c) ==
  c.start = last.start + last.words /\ last.words + c.words <= MaxPerRead

AddRead(reads, c) ==
  IF reads # <<>> /\ Extends(reads[Len(reads)], c)
  THEN [reads EXCEPT ![Len(reads)].words = @ + c.words] ELSE Append(reads, c)

\* The reads planned after n entries by address, neighbours merged.
ReadsOf(entries) ==
  LET plan[n \in 0 .. Cardinality(entries)] ==
        IF n = 0 THEN [reads |-> <<>>, left |-> entries]
        ELSE LET p == plan[n - 1]
                 c == CHOOSE c \in p.left : \A e \in p.left : c.start <= e.start
             IN  [reads |-> AddRead(p.reads, c), left |-> p.left \ {c}]
  IN  plan

PlanChunks(keys) ==
  LET entries == {Catalogue[k] : k \in keys}
  IN  ReadsOf(entries)[Cardinality(entries)].reads

MainChunks == PlanChunks(MainKeys)
GroupChunks == [g \in DOMAIN Optional |-> PlanChunks(Optional[g].keys)]

\* payloadForEntry and SliceForEntry: the register a key is decoded from, when
\* a chunk holds it and the reply to that one has it.
Slice(chunk, reply, e) ==
  LET off == e.start - chunk.start
  IN  IF off + e.words > reply.words THEN NoSample
      ELSE [reg |-> reply.start + off, at |-> reply.at, blank |-> reply.blank]

Holding(e, chunks) ==
  {i \in DOMAIN chunks : /\ chunks[i].start <= e.start
                         /\ e.start + e.words <= chunks[i].start + chunks[i].words}

Payload(k, chunks, replies) ==
  LET e == Catalogue[k]
      i == CHOOSE i \in Holding(e, chunks) : TRUE
  IN  IF Holding(e, chunks) = {} THEN NoSample ELSE Slice(chunks[i], replies[i], e)

-----------------------------------------------------------------------------
VARIABLES
  colClock,
  session,   \* the TCP session: [late, dead], or NoSample
  dialFailures,
  wakeAt,    \* when the loop of runDevice runs again
  optNext,   \* group -> when it is due
  poll,      \* the poll under way
  samples,    \* key -> its newest sample
  colFaults

colVars == <<colClock, session, dialFailures, wakeAt, optNext, poll, samples, colFaults>>

NoPoll == [at |-> "idle", group |-> 0, left |-> {}, got |-> <<>>, begun |-> 0, read |-> 0]

ColInit ==
  /\ colClock = 0 /\ session = NoSample /\ dialFailures = 0 /\ wakeAt = 0 /\ poll = NoPoll
  /\ optNext = [g \in DOMAIN Optional |-> 0] /\ colFaults = 0
  /\ samples = [k \in DOMAIN Catalogue |-> NoSample]

Faulty == colFaults < MaxColFaults /\ colFaults' = colFaults + 1

ColTick ==
  /\ colClock < LastColTick /\ colClock' = colClock + 1
  /\ UNCHANGED <<session, dialFailures, wakeAt, optNext, poll, samples, colFaults>>

\* The ticker of runDevice keeps one tick for a loop that is late.
NextTick == wakeAt' = Max({wakeAt + PollEvery, colClock})

ReconnectWait(attempt) ==
  IF attempt <= 1 THEN PollEvery ELSE Min({MaxReconnect, PollEvery * 2 ^ (attempt - 1)})

DialFails ==
  /\ poll.at = "idle" /\ wakeAt <= colClock /\ session = NoSample /\ Faulty
  /\ dialFailures' = dialFailures + 1
  /\ wakeAt' = colClock + ReconnectWait(dialFailures + 1)
  /\ UNCHANGED <<colClock, session, optNext, poll, samples>>

\* A loop dials when it has no session and starts its main poll.
BeginMain ==
  /\ poll.at = "idle" /\ wakeAt <= colClock
  /\ session' = IF session = NoSample THEN [late |-> NoSample, dead |-> FALSE] ELSE session
  /\ dialFailures' = IF session = NoSample THEN 0 ELSE dialFailures
  /\ poll' = [at |-> "main", group |-> 0, left |-> {}, got |-> <<>>,
              begun |-> colClock, read |-> colClock]
  /\ UNCHANGED <<colClock, wakeAt, optNext, samples, colFaults>>

Chunks == IF poll.at = "main" THEN MainChunks ELSE GroupChunks[poll.group]
ReadBudget(chunks) == RequestTimeout * (Len(chunks) + 1)
Reading == poll.at # "idle" /\ Len(poll.got) < Len(Chunks)

\* What the device answers to the chunk a poll is at.
Answer(blank) ==
  LET c == Chunks[Len(poll.got) + 1]
  IN  [start |-> c.start, words |-> c.words, at |-> colClock, blank |-> blank]

\* readChunkData: the next reply of the stream, which is an older one when the
\* session still owes one.
ReadChunk ==
  /\ Reading /\ ~session.dead /\ colClock <= poll.begun + ReadBudget(Chunks)
  /\ \E blank \in Blanks :
       LET reply == IF session.late = NoSample THEN Answer(blank) ELSE session.late
           owed == IF session.late = NoSample THEN NoSample ELSE Answer(blank)
       IN  /\ poll' = [poll EXCEPT !.got = Append(@, reply), !.read = colClock]
           /\ session' = [session EXCEPT !.late = owed]
  /\ UNCHANGED <<colClock, dialFailures, wakeAt, optNext, samples, colFaults>>

\* The optional groups left of this loop, one after the other.
NextGroup(left) ==
  IF left = {} THEN poll' = NoPoll /\ NextTick
  ELSE /\ poll' = [at |-> "optional", group |-> Min(left), left |-> left \ {Min(left)},
                   got |-> <<>>, begun |-> colClock, read |-> colClock]
       /\ UNCHANGED wakeAt

DueGroups == {g \in DOMAIN Optional : optNext[g] <= colClock}

\* buildSamples: none when a reply is short; no sample of a blank reading.
Complete(keys) == \A k \in keys : Payload(k, Chunks, poll.got) # NoSample
StoreSamples(keys, time) ==
  samples' = [k \in DOMAIN Catalogue |->
    LET p == IF k \in keys THEN Payload(k, Chunks, poll.got) ELSE NoSample
    IN  IF p = NoSample \/ k \in p.blank THEN samples[k]
        ELSE [reg |-> p.reg, at |-> p.at, blank |-> p.blank, time |-> time]]

\* The main poll is stored and the optional requests that are due begin.
StoreMain ==
  /\ poll.at = "main" /\ ~Reading /\ Complete(MainKeys)
  /\ StoreSamples(MainKeys, poll.read) /\ NextGroup(DueGroups)
  /\ UNCHANGED <<colClock, session, dialFailures, optNext, colFaults>>

MainFails ==
  /\ poll.at = "main"
  /\ IF session.dead \/ (~Reading /\ ~Complete(MainKeys)) THEN UNCHANGED colFaults ELSE Faulty
  /\ session' = NoSample /\ poll' = NoPoll /\ NextTick
  /\ UNCHANGED <<colClock, dialFailures, optNext, samples>>

\* pollOptional: the samples carry the time the request began; a failed insert
\* is only logged.
StoreOptional ==
  /\ poll.at = "optional" /\ ~Reading
  /\ LET keys == Optional[poll.group].keys
     IN  \/ /\ Complete(keys) /\ StoreSamples(keys, poll.begun) /\ UNCHANGED colFaults
         \/ /\ UNCHANGED samples /\ IF Complete(keys) THEN Faulty ELSE UNCHANGED colFaults
  /\ optNext' = [optNext EXCEPT ![poll.group] = poll.begun + Optional[poll.group].every]
  /\ NextGroup(poll.left)
  /\ UNCHANGED <<colClock, session, dialFailures>>

\* Mutant of Redials: a group that timed out is only paused.
RedialsNever(failure) == FALSE

Redials(failure) == failure = "timeout"

\* What a failed request leaves in the stream.
AfterFailure(failure) ==
  [late |-> IF failure = "timeout" THEN Answer({}) ELSE NoSample, dead |-> failure = "broken"]

OptionalFails ==
  /\ poll.at = "optional" /\ Reading
  /\ \E failure \in IF session.dead THEN {"broken"} ELSE {"refused", "timeout", "broken"} :
       /\ failure = "timeout" => colClock >= poll.begun + RequestTimeout
       /\ IF session.dead THEN UNCHANGED colFaults ELSE Faulty
       /\ IF Redials(failure)
          THEN session' = NoSample /\ poll' = NoPoll /\ NextTick
          ELSE session' = AfterFailure(failure) /\ NextGroup(poll.left)
  /\ optNext' = [optNext EXCEPT ![poll.group] = poll.begun + OptionalBackoff]
  /\ UNCHANGED <<colClock, dialFailures, samples>>

\* The process stops and starts again.
RestartCollector ==
  /\ Faulty /\ session' = NoSample /\ dialFailures' = 0 /\ wakeAt' = colClock /\ poll' = NoPoll
  /\ optNext' = [g \in DOMAIN Optional |-> 0]
  /\ UNCHANGED <<colClock, samples>>

ColNext ==
  \/ ColTick \/ DialFails \/ BeginMain \/ ReadChunk \/ StoreMain \/ MainFails
  \/ StoreOptional \/ OptionalFails \/ RestartCollector

ColSpec == ColInit /\ [][ColNext]_colVars

-----------------------------------------------------------------------------
(* A stored sample is a reading of its own register, of a device that had  *)
(* one, measured within the read budget of its time: one session serves    *)
(* the main poll and the optional requests, and a reply that comes late    *)
(* must not be taken for the next one's.                                   *)
SampleIsItsReading ==
  \A k \in DOMAIN Catalogue : samples[k] # NoSample =>
    LET s == samples[k]
        plans == IF k \in MainKeys THEN {MainChunks}
                 ELSE {GroupChunks[g] : g \in {g \in DOMAIN Optional : k \in Optional[g].keys}}
    IN  /\ s.reg = Catalogue[k].start /\ k \notin s.blank
        /\ \E plan \in plans : s.at - s.time \in -ReadBudget(plan) .. ReadBudget(plan)
============================================================================
