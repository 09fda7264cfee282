------------------------------ MODULE EdgeUplink ------------------------------
(***************************************************************************)
(* The edge device's black box (internal/edge/blackbox.go), its uplink     *)
(* goroutine (internal/edge/service.go: runUplink, sendOneBatch), the      *)
(* hourly maintenance of the box and the cloud's batch ingest              *)
(* (internal/api/edge_handlers.go: edgeBatch, internal/storage/edge.go).   *)
(*                                                                         *)
(* Four activities interleave: the core loop writes rows, the uplink reads *)
(* pending rows and marks them once acknowledged, the maintenance deletes  *)
(* rows, and the cloud commits requests that the network may delay, lose   *)
(* or deliver twice.  SQLite runs on one connection, so each statement is  *)
(* one atomic step and any two statements of different goroutines may be   *)
(* interleaved.                                                            *)
(*                                                                         *)
(* Time is ordinal: a row's ts is the position at which it was written and *)
(* "older than retention_days" is ts < horizon for a horizon that moves    *)
(* forward at any pace.                                                    *)
(***************************************************************************)
EXTENDS Naturals, Sequences, FiniteSets

CONSTANTS
  BatchMaxRecords,      \* uplink.batch_max_records
  OfflineAfter,         \* pollFailThreshold: failures before UPLINK_OFFLINE
  BacklogAbove,         \* uplinkBacklogThreshold
  EventBuffer,          \* capacity of the events channel
  MaintainChunk,        \* rows per DELETE statement
  GuardBudget,          \* rows the disk guard may delete from a table per pass
  MaxRows,              \* bound: rows the core loop writes on its own
  MaxEvents,            \* bound: rows it writes beyond those, for events
  MaxPasses,            \* bound: maintenance passes
  MaxHorizon,           \* bound: how far the retention horizon moves
  MaxFaults             \* bound: failed calls, lost answers and restarts

ASSUME UplinkAssumption ==
  /\ BatchMaxRecords \in Nat \ {0}
  /\ OfflineAfter \in Nat \ {0}
  /\ BacklogAbove \in Nat
  /\ EventBuffer \in Nat \ {0}
  /\ MaintainChunk \in Nat \ {0}
  /\ GuardBudget \in Nat \ {0}
  /\ MaxRows \in Nat
  /\ MaxEvents \in Nat
  /\ MaxPasses \in Nat
  /\ MaxHorizon \in Nat
  /\ MaxFaults \in Nat

Events == "events"
Decisions == "control_decisions"
Ticks == "telemetry_raw"
Tables == {Events, Decisions, Ticks}

VARIABLES
  box,                  \* rows in the SQLite file
  marked,               \* those of them with uploaded = 1
  nextId,               \* AUTOINCREMENT sequence of each table
  written,              \* history: rows ever inserted
  horizon,              \* rows with ts < horizon are past retention_days
  events,               \* events waiting in the channel to the core loop
  pc,                   \* where the uplink goroutine is
  batch,                \* the request being built or awaiting its answer
  attempts,             \* batch ids drawn so far
  failures, blocked,    \* retry ladder of runUplink
  maint,                \* state of the maintenance goroutine
  passes,               \* maintenance passes started (bound)
  net,                  \* requests the network may still deliver
  answer,               \* the 2xx answer to the current request is on its way
  ledger,               \* edge_batches of the cloud database
  stored,               \* the cloud's committed inserts, in commit order
  faults                \* faults spent (bound)

boxVars == <<box, marked, nextId, written>>
upVars == <<pc, batch, attempts, failures, blocked>>
cloudVars == <<ledger, stored>>
maintVars == <<maint, passes>>
vars == <<boxVars, horizon, events, upVars, maintVars, net, answer, cloudVars, faults>>

-------------------------------------------------------------------------------
(* Rows and queries of the black box. *)

Row == [table : Tables, id : Nat \ {0}, ts : Nat]

\* The ts of the next row: rows are totally ordered by the time of writing.
Clock == Cardinality(written)

\* SELECT ... WHERE uploaded = 0 on one table.
PendingOf(t) == {r \in box \ marked : r.table = t}

\* ORDER BY ts_utc LIMIT n.
Oldest(S, n) == {r \in S : Cardinality({q \in S : q.ts < r.ts}) < n}

\* Mutant of MarkIds: every pending row of the table is flagged, also those
\* written after the batch was read.
MarkAllPending(t, ids) == marked \cup {r \in box : r.table = t /\ ids # {}}

\* Mutant of MarkIds: the flag is written with INSERT OR REPLACE, which brings
\* a deleted row back.
MarkResurrects(t, ids) == marked \cup {r \in written : r.table = t /\ r.id \in ids}

\* UPDATE t SET uploaded = 1 WHERE id IN (...): by id, whatever row has it.
MarkIds(t, ids) == marked \cup {r \in box : r.table = t /\ r.id \in ids}

IdsOf(S, t) == {r.id : r \in {q \in S : q.table = t}}

\* Rows the cloud has stored at least once.
Delivered == UNION {stored[i].rows : i \in DOMAIN stored}

\* Copies of a row in the cloud's tables, which have no unique key.
Copies(r) == Cardinality({i \in DOMAIN stored : r \in stored[i].rows})

NoBatch == [id |-> 0, rows |-> {}]
MaintIdle == [phase |-> "idle", order |-> <<>>, cutoff |-> 0, deleted |-> 0]

Init ==
  /\ box = {} /\ marked = {} /\ written = {}
  /\ nextId = [t \in Tables |-> 1]
  /\ horizon = 0
  /\ events = 0
  /\ pc = "idle" /\ batch = NoBatch /\ attempts = 0
  /\ failures = 0 /\ blocked = FALSE
  /\ maint = MaintIdle /\ passes = 0
  /\ net = {} /\ answer = FALSE
  /\ ledger = {} /\ stored = <<>>
  /\ faults = 0

-------------------------------------------------------------------------------
(* The core loop: WriteTick, WriteDecision, WriteEvent. *)

\* Mutant of Insert: without AUTOINCREMENT SQLite reuses the id of a deleted
\* last row.
InsertReusingIds(t) ==
  LET ids == {r.id : r \in {q \in box : q.table = t}}
      row == [table |-> t,
              id |-> CHOOSE n \in {1} \cup {i + 1 : i \in ids} : \A i \in ids : i < n,
              ts |-> Clock]
  IN  /\ box' = box \cup {row}
      /\ written' = written \cup {row}
      /\ UNCHANGED <<marked, nextId>>

\* One INSERT; ids are never reused (AUTOINCREMENT).
Insert(t) ==
  LET row == [table |-> t, id |-> nextId[t], ts |-> Clock]
  IN  /\ box' = box \cup {row}
      /\ written' = written \cup {row}
      /\ nextId' = [nextId EXCEPT ![t] = @ + 1]
      /\ UNCHANGED marked

WriteRow(t) ==
  /\ Cardinality(written) < MaxRows
  /\ Insert(t)
  /\ UNCHANGED <<horizon, events, upVars, maintVars, net, answer, cloudVars, faults>>

\* case ev := <-events: the event is written unless the same one was
\* written within the last five minutes.
DrainEvent ==
  /\ events > 0
  /\ events' = events - 1
  /\ \/ Cardinality(written) < MaxRows + MaxEvents /\ Insert(Events)
     \/ UNCHANGED boxVars
  /\ UNCHANGED <<horizon, upVars, maintVars, net, answer, cloudVars, faults>>

-------------------------------------------------------------------------------
(* The uplink goroutine. *)

Capacity == BatchMaxRecords - Cardinality(batch.rows)

\* The batch timer fires outside a backoff window; the events are read.
ReadEvents ==
  /\ pc = "idle" /\ ~blocked
  /\ LET rows == Oldest(PendingOf(Events), BatchMaxRecords)
     IN  /\ batch' = [NoBatch EXCEPT !.rows = rows]
         /\ pc' = IF Cardinality(rows) < BatchMaxRecords THEN "decisions" ELSE "send"
  /\ UNCHANGED <<boxVars, horizon, events, attempts, failures, blocked, maintVars,
                 net, answer, cloudVars, faults>>

ReadDecisions ==
  /\ pc = "decisions"
  /\ LET rows == Oldest(PendingOf(Decisions), Capacity)
     IN  /\ batch' = [batch EXCEPT !.rows = @ \cup rows]
         /\ pc' = IF Cardinality(rows) < Capacity THEN "ticks" ELSE "send"
  /\ UNCHANGED <<boxVars, horizon, events, attempts, failures, blocked, maintVars,
                 net, answer, cloudVars, faults>>

ReadTicks ==
  /\ pc = "ticks"
  /\ batch' = [batch EXCEPT !.rows = @ \cup Oldest(PendingOf(Ticks), Capacity)]
  /\ pc' = "send"
  /\ UNCHANGED <<boxVars, horizon, events, attempts, failures, blocked, maintVars,
                 net, answer, cloudVars, faults>>

\* Nothing was pending: sendOneBatch returns without a request.
NothingToSend ==
  /\ pc = "send" /\ batch.rows = {}
  /\ pc' = "idle" /\ batch' = NoBatch
  /\ failures' = 0 /\ blocked' = FALSE
  /\ UNCHANGED <<boxVars, horizon, events, attempts, maintVars, net, answer,
                 cloudVars, faults>>

\* POST /api/v1/edge/batch under an id drawn for this attempt alone.
SendBatch ==
  /\ pc = "send" /\ batch.rows # {}
  /\ attempts' = attempts + 1
  /\ batch' = [batch EXCEPT !.id = attempts + 1]
  /\ net' = net \cup {batch'}
  /\ pc' = "wait"
  /\ UNCHANGED <<boxVars, horizon, events, failures, blocked, maintVars, answer,
                 cloudVars, faults>>

\* The 2xx answer of the current request arrives.
ReceiveAck ==
  /\ pc = "wait" /\ answer
  /\ answer' = FALSE
  /\ pc' = "mark_events"
  /\ UNCHANGED <<boxVars, horizon, events, batch, attempts, failures, blocked,
                 maintVars, net, cloudVars, faults>>

MarkStep(from, t, to) ==
  /\ pc = from
  /\ marked' = MarkIds(t, IdsOf(batch.rows, t))
  /\ pc' = to
  /\ UNCHANGED <<box, nextId, written, horizon, events, attempts, maintVars, net,
                 answer, cloudVars, faults>>

MarkEvents ==
  /\ MarkStep("mark_events", Events, "mark_decisions")
  /\ UNCHANGED <<batch, failures, blocked>>

MarkDecisions ==
  /\ MarkStep("mark_decisions", Decisions, "mark_ticks")
  /\ UNCHANGED <<batch, failures, blocked>>

\* The last mark ends sendOneBatch with success.
MarkTicks ==
  /\ MarkStep("mark_ticks", Ticks, "count")
  /\ batch' = NoBatch
  /\ failures' = 0 /\ blocked' = FALSE

\* PendingCount: a large backlog is reported through the core loop; when the
\* query fails nothing is.
CountBacklog ==
  /\ pc = "count"
  /\ \/ pc' = "idle"
     \/ /\ Cardinality(box \ marked) > BacklogAbove
        /\ pc' = "emit"
  /\ UNCHANGED <<boxVars, horizon, events, batch, attempts, failures, blocked,
                 maintVars, net, answer, cloudVars, faults>>

\* emitEvent blocks until the core loop has room for the event.
EmitEvent ==
  /\ pc = "emit" /\ events < EventBuffer
  /\ events' = events + 1
  /\ pc' = "idle"
  /\ UNCHANGED <<boxVars, horizon, batch, attempts, failures, blocked, maintVars,
                 net, answer, cloudVars, faults>>

\* sendOneBatch returns an error: the next attempt waits for the retry
\* ladder, and the OfflineAfter-th failure in a row is reported.
AttemptFails ==
  /\ batch' = NoBatch
  /\ answer' = FALSE
  /\ failures' = failures + 1
  /\ blocked' = TRUE
  /\ pc' = IF failures' = OfflineAfter THEN "emit" ELSE "idle"
  /\ UNCHANGED <<boxVars, horizon, events, attempts, maintVars, net, cloudVars>>

\* A query, the request or a mark fails, at whichever step.  The request may
\* already be committed, or still be on its way.
CallFails ==
  /\ pc \in {"decisions", "ticks", "wait",
             "mark_events", "mark_decisions", "mark_ticks"}
       \cup (IF blocked THEN {} ELSE {"idle"})
  /\ faults < MaxFaults
  /\ faults' = faults + 1
  /\ AttemptFails

\* Mutant of Timeout: a request without an answer counts as delivered.
TimeoutAcknowledged ==
  /\ pc = "wait" /\ batch \notin net /\ ~answer
  /\ pc' = "mark_events"
  /\ UNCHANGED <<boxVars, horizon, events, batch, attempts, failures, blocked,
                 maintVars, net, answer, cloudVars, faults>>

\* The request or its answer was lost: the HTTP client gives up.
Timeout ==
  /\ pc = "wait" /\ batch \notin net /\ ~answer
  /\ UNCHANGED faults
  /\ AttemptFails

\* blockedUntil has passed.
BackoffElapsed ==
  /\ blocked
  /\ blocked' = FALSE
  /\ UNCHANGED <<boxVars, horizon, events, pc, batch, attempts, failures, maintVars,
                 net, answer, cloudVars, faults>>

-------------------------------------------------------------------------------
(* The cloud: edgeBatch is one transaction keyed by batch_id. *)

\* Mutant of Ingest: the duplicate check is dropped.
IngestAlways(req) ==
  /\ ledger' = ledger \cup {req.id}
  /\ stored' = Append(stored, req)

\* INSERT INTO edge_batches ... ON CONFLICT DO NOTHING, then the payload.
Ingest(req) ==
  IF req.id \in ledger
  THEN UNCHANGED cloudVars
  ELSE /\ ledger' = ledger \cup {req.id}
       /\ stored' = Append(stored, req)

\* A request reaches the cloud and commits, or is recognised as a duplicate;
\* both are answered with 200.  The network may keep a copy of a request and
\* deliver it again.
CloudReceives(req) ==
  /\ req \in net
  /\ Ingest(req)
  /\ answer' = (answer \/ (pc = "wait" /\ req = batch))
  /\ \/ net' = net \ {req}
     \/ /\ req.id \notin ledger
        /\ UNCHANGED net
  /\ UNCHANGED <<boxVars, horizon, events, upVars, maintVars, faults>>

\* The current request is lost, or the handler fails and its transaction is
\* rolled back.  Losing an abandoned request is the same as never delivering it.
RequestLost ==
  /\ pc = "wait" /\ batch \in net
  /\ faults < MaxFaults
  /\ faults' = faults + 1
  /\ net' = net \ {batch}
  /\ UNCHANGED <<boxVars, horizon, events, upVars, maintVars, answer, cloudVars>>

AnswerLost ==
  /\ answer
  /\ faults < MaxFaults
  /\ faults' = faults + 1
  /\ answer' = FALSE
  /\ UNCHANGED <<boxVars, horizon, events, upVars, maintVars, net, cloudVars>>

-------------------------------------------------------------------------------
(* Maintenance, restarts and the passage of time. *)

\* Go iterates over the map of tables in a random order.
TableOrders ==
  {o \in [1..3 -> Tables] : \A i, j \in 1..3 : i # j => o[i] # o[j]}

\* The table in hand is finished: the next one, else the given phase.
NextTable(after) ==
  IF Len(maint.order) > 1
  THEN maint' = [maint EXCEPT !.order = Tail(@), !.deleted = 0]
  ELSE maint' = [maint EXCEPT !.order = <<>>, !.deleted = 0, !.phase = after]

StartMaintain ==
  /\ maint.phase = "idle"
  /\ \E o \in TableOrders :
       maint' = [phase |-> "retention", order |-> o, cutoff |-> horizon, deleted |-> 0]
  /\ passes < MaxPasses
  /\ passes' = passes + 1
  /\ UNCHANGED <<boxVars, horizon, events, upVars, net, answer, cloudVars, faults>>

Delete(D) ==
  /\ box' = box \ D
  /\ marked' = marked \ D
  /\ UNCHANGED <<nextId, written>>

\* Mutant of RetentionChunk: the comparison with the cutoff is off by one.
RetentionChunkInclusive ==
  /\ maint.phase = "retention"
  /\ LET old == {r \in box : r.table = Head(maint.order) /\ r.ts <= maint.cutoff}
     IN  \E D \in SUBSET old :
           /\ IF Cardinality(old) < MaintainChunk
              THEN D = old /\ NextTable("disk")
              ELSE Cardinality(D) = MaintainChunk /\ UNCHANGED maint
           /\ Delete(D)
  /\ UNCHANGED <<passes, horizon, events, upVars, net, answer, cloudVars, faults>>

\* One chunk of DELETE ... WHERE ts_utc < cutoff LIMIT MaintainChunk: the
\* uploaded flag is not consulted.
RetentionChunk ==
  /\ maint.phase = "retention"
  /\ LET old == {r \in box : r.table = Head(maint.order) /\ r.ts < maint.cutoff}
     IN  \E D \in SUBSET old :
           /\ IF Cardinality(old) < MaintainChunk
              THEN D = old /\ NextTable("disk")
              ELSE Cardinality(D) = MaintainChunk /\ UNCHANGED maint
           /\ Delete(D)
  /\ UNCHANGED <<passes, horizon, events, upVars, net, answer, cloudVars, faults>>

\* diskUsedPct against disk_critical_pct.
CheckDisk ==
  /\ maint.phase = "disk"
  /\ \/ maint' = MaintIdle
     \/ \E o \in TableOrders : maint' = [maint EXCEPT !.phase = "guard", !.order = o]
  /\ UNCHANGED <<passes, boxVars, horizon, events, upVars, net, answer, cloudVars, faults>>

\* Mutant of GuardChunk: the guard forgets WHERE uploaded = 1.
GuardChunkAnyRow ==
  /\ maint.phase = "guard"
  /\ LET D == Oldest({r \in box : r.table = Head(maint.order)}, MaintainChunk)
         total == maint.deleted + Cardinality(D)
     IN  /\ Delete(D)
         /\ IF Cardinality(D) < MaintainChunk \/ total >= GuardBudget
            THEN NextTable("done")
            ELSE maint' = [maint EXCEPT !.deleted = total]
  /\ UNCHANGED <<passes, horizon, events, upVars, net, answer, cloudVars, faults>>

\* One chunk of the disk guard: uploaded rows only, oldest first, up to
\* GuardBudget rows per table.
GuardChunk ==
  /\ maint.phase = "guard"
  /\ LET D == Oldest({r \in marked : r.table = Head(maint.order)}, MaintainChunk)
         total == maint.deleted + Cardinality(D)
     IN  /\ Delete(D)
         /\ IF Cardinality(D) < MaintainChunk \/ total >= GuardBudget
            THEN NextTable("done")
            ELSE maint' = [maint EXCEPT !.deleted = total]
  /\ UNCHANGED <<passes, horizon, events, upVars, net, answer, cloudVars, faults>>

\* The pass is over, or a DELETE failed and the rest waits for the next hour.
EndMaintain ==
  /\ maint.phase # "idle"
  /\ maint' = MaintIdle
  /\ UNCHANGED <<passes, boxVars, horizon, events, upVars, net, answer, cloudVars, faults>>

\* The process dies and starts again: committed rows and flags survive, the
\* rest is rebuilt by Run.
Restart ==
  /\ faults < MaxFaults
  /\ faults' = faults + 1
  /\ pc' = "idle" /\ batch' = NoBatch
  /\ failures' = 0 /\ blocked' = FALSE
  /\ events' = 0 /\ maint' = MaintIdle /\ answer' = FALSE
  /\ UNCHANGED <<passes, boxVars, horizon, attempts, net, cloudVars>>

\* Time passes: older rows cross the retention horizon.
Age ==
  /\ horizon < Clock /\ horizon < MaxHorizon
  /\ horizon' = horizon + 1
  /\ UNCHANGED <<boxVars, events, upVars, maintVars, net, answer, cloudVars, faults>>

-------------------------------------------------------------------------------

CoreLoop == DrainEvent \/ \E t \in Tables : WriteRow(t)

Uplink ==
  \/ ReadEvents \/ ReadDecisions \/ ReadTicks \/ NothingToSend \/ SendBatch
  \/ ReceiveAck \/ MarkEvents \/ MarkDecisions \/ MarkTicks
  \/ CountBacklog \/ EmitEvent \/ Timeout \/ BackoffElapsed

Network ==
  \/ \E req \in net : CloudReceives(req)
  \/ RequestLost \/ AnswerLost

Maintenance ==
  StartMaintain \/ RetentionChunk \/ CheckDisk \/ GuardChunk \/ EndMaintain

Next == CoreLoop \/ Uplink \/ CallFails \/ Network \/ Maintenance \/ Restart \/ Age

Spec == Init /\ [][Next]_vars

(***************************************************************************)
(* Fairness: the goroutines run (tickers fire, the core loop's select      *)
(* serves the events channel), and a request that is neither lost nor      *)
(* abandoned reaches the cloud.  Nothing is assumed of the maintenance, of *)
(* the writers, of time or of faults.                                      *)
(***************************************************************************)
Fairness ==
  /\ WF_vars(Uplink)
  /\ WF_vars(DrainEvent)
  /\ WF_vars(CloudReceives(batch))

LiveSpec == Spec /\ Fairness

-------------------------------------------------------------------------------
(* Properties. *)

MaintState == [phase : {"idle", "retention", "disk", "guard", "done"},
               order : Seq(Tables), cutoff : Nat, deleted : Nat]
UplinkPcs == {"idle", "decisions", "ticks", "send", "wait", "mark_events",
              "mark_decisions", "mark_ticks", "count", "emit"}
Marking == {"mark_events", "mark_decisions", "mark_ticks"}
Request == [id : Nat, rows : SUBSET Row]

\* Every variable has its type; the boundaries of the queue and of the batch.
TypeOK ==
  /\ box \subseteq Row /\ marked \subseteq box /\ box \subseteq written
  /\ written \subseteq Row /\ IsFiniteSet(written)
  /\ nextId \in [Tables -> Nat \ {0}]
  /\ horizon \in Nat
  /\ events \in 0..EventBuffer
  /\ pc \in UplinkPcs
  /\ batch \in Request
  /\ attempts \in Nat /\ failures \in Nat /\ blocked \in BOOLEAN
  /\ maint \in MaintState
  /\ net \subseteq Request
  /\ answer \in BOOLEAN
  /\ ledger \subseteq Nat
  /\ stored \in Seq(Request)
  /\ passes \in 0..MaxPasses
  /\ faults \in 0..MaxFaults

\* A row flagged uploaded is in the cloud ("uplink marks rows uploaded only
\* after the cloud acknowledged them"): MarkUploaded, called with ids read
\* before the request, never flags a row the request did not carry.
MarkedDelivered == marked \subseteq Delivered

\* A row leaves the black box only once the cloud has it or it is past
\* retention: neither Maintain nor a lost answer, a late request or a restart
\* loses a younger row.
NoUndeliveredLoss ==
  \A r \in written \ box : r \in Delivered \/ r.ts < horizon

\* The ledger and the payload agree: a batch id is in edge_batches exactly
\* when its rows were inserted, once, however often the request arrives.
BatchAppliedOnce ==
  /\ ledger = {stored[i].id : i \in DOMAIN stored}
  /\ \A i, j \in DOMAIN stored : stored[i].id = stored[j].id => i = j

\* "Oldest first" (PendingTicks, FIFO after an offline window): no row reaches
\* the cloud while an older row of the same table still waits in the box.
OldestFirst ==
  \A q \in Delivered, r \in box :
    q.table = r.table /\ r.ts < q.ts => r \in Delivered

(* The strengthening under which the four invariants above are inductive. *)

\* Rows differ in table or id, and both the id and the ts of a row come from
\* counters that have moved on: an id read earlier still names the same row.
RowsUnique ==
  /\ \A r \in written : r.id < nextId[r.table] /\ r.ts < Clock
  /\ \A q, r \in written : q.table = r.table /\ q.id = r.id => q = r

\* Whatever is in flight or stored was written by the device.
RowsKnown ==
  /\ batch.rows \subseteq written
  /\ \A req \in net : req.rows \subseteq written
  /\ Delivered \subseteq written

\* A batch id names one set of rows for ever, wherever copies of it are.
IdsNameRequests ==
  /\ batch.id <= attempts
  /\ \A req \in net : req.id <= attempts
  /\ \A i \in DOMAIN stored : stored[i].id <= attempts
  /\ \A p, q \in net : p.id = q.id => p = q
  /\ \A p \in net, i \in DOMAIN stored : stored[i].id = p.id => stored[i] = p

\* The edge marks rows only while the cloud has them.
AnswerMeansStored ==
  /\ answer => pc = "wait"
  /\ answer \/ pc \in Marking => batch.rows \subseteq Delivered

\* Of each table a request carries a prefix of what the cloud still lacks.
InOrder(B) ==
  \A q \in B, r \in box :
    q.table = r.table /\ r.ts < q.ts => r \in B \/ r \in Delivered

Strengthening ==
  /\ RowsUnique
  /\ RowsKnown
  /\ IdsNameRequests
  /\ AnswerMeansStored
  /\ InOrder(batch.rows) /\ \A req \in net : InOrder(req.rows)
  /\ maint.cutoff <= horizon

\* What the ledger is for according to storage.InsertEdgeBatch ("duplicate
\* delivery after a lost ACK — the caller must then skip the payload"): a
\* row the edge sends again is not inserted again.
StoredOnce == \A r \in written : Copies(r) <= 1

\* Every row written to the box is eventually in the cloud, unless it gets
\* older than the retention first.
EventuallyDelivered ==
  \A n \in 0..(MaxRows + MaxEvents - 1) :
    (\E r \in written : r.ts = n)
      ~> (n < horizon \/ \E r \in Delivered : r.ts = n)

\* The device implements the promise of EdgeDelivery.
Promised == INSTANCE EdgeDelivery WITH
              accepted <- written, held <- box, delivered <- Delivered
Promise == Promised!ASpec

===============================================================================
