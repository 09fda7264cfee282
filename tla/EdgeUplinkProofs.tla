--------------------------- MODULE EdgeUplinkProofs ---------------------------
(***************************************************************************)
(* Proofs about EdgeUplink for every value of its constants: the type      *)
(* invariant, the four safety invariants by one inductive invariant, and   *)
(* the refinement of EdgeDelivery.                                         *)
(***************************************************************************)
EXTENDS EdgeUplink, FiniteSetTheorems, SequenceTheorems, TLAPS

-------------------------------------------------------------------------------
(* Facts about the operators. *)

\* The number of rows written is a natural number, and so is the size of any
\* set of rows of the box.
LEMMA Sizes ==
  ASSUME TypeOK
  PROVE  /\ Clock \in Nat
         /\ \A S \in SUBSET written : IsFiniteSet(S) /\ Cardinality(S) \in Nat
<1>1. IsFiniteSet(written)
  BY DEF TypeOK
<1>2. \A S \in SUBSET written : IsFiniteSet(S) /\ Cardinality(S) \in Nat
  BY <1>1, FS_Subset, FS_CardinalityType
<1>3. QED
  BY <1>1, <1>2, FS_CardinalityType DEF Clock

\* The row Insert adds is a new row with the next ts.
LEMMA InsertType ==
  ASSUME TypeOK, NEW t \in Tables, Insert(t)
  PROVE  /\ box' \subseteq Row /\ marked' \subseteq box' /\ box' \subseteq written'
         /\ written' \subseteq Row /\ IsFiniteSet(written')
         /\ nextId' \in [Tables -> Nat \ {0}]
<1> DEFINE row == [table |-> t, id |-> nextId[t], ts |-> Clock]
<1>1. Clock \in Nat
  BY Sizes
<1>2. row \in Row
  BY <1>1 DEF TypeOK, Row
<1>3. /\ box' = box \cup {row} /\ written' = written \cup {row}
      /\ marked' = marked /\ nextId' = [nextId EXCEPT ![t] = @ + 1]
  BY DEF Insert
<1>4. IsFiniteSet(written')
  BY <1>3, FS_AddElement DEF TypeOK
<1>5. nextId' \in [Tables -> Nat \ {0}]
  BY <1>3 DEF TypeOK
<1>6. QED
  BY <1>2, <1>3, <1>4, <1>5 DEF TypeOK

\* The cloud's inserts are requests, and Append adds one to what is delivered.
LEMMA StoredType ==
  ASSUME TypeOK
  PROVE  /\ stored \in Seq(Request) /\ Len(stored) \in Nat
         /\ DOMAIN stored = 1..Len(stored)
         /\ \A i \in DOMAIN stored : stored[i] \in Request
<1>1. stored \in Seq(Request)
  BY DEF TypeOK
<1>2. Len(stored) \in Nat /\ DOMAIN stored = 1..Len(stored)
  BY <1>1, LenProperties
<1>3. \A i \in DOMAIN stored : stored[i] \in Request
  BY <1>1, <1>2, ElementOfSeq
<1>4. QED
  BY <1>1, <1>2, <1>3

LEMMA AppendStored ==
  ASSUME TypeOK, NEW req \in Request, stored' = Append(stored, req)
  PROVE  /\ DOMAIN stored' = DOMAIN stored \cup {Len(stored) + 1}
         /\ Len(stored) + 1 \notin DOMAIN stored
         /\ stored'[Len(stored) + 1] = req
         /\ \A i \in DOMAIN stored : stored'[i] = stored[i]
         /\ Delivered' = Delivered \cup req.rows
<1>1. /\ stored' \in Seq(Request) /\ Len(stored') = Len(stored) + 1
      /\ \A i \in 1..Len(stored) : stored'[i] = stored[i]
      /\ stored'[Len(stored) + 1] = req
  BY StoredType, AppendProperties
<1>2. DOMAIN stored' = 1..(Len(stored) + 1) /\ DOMAIN stored = 1..Len(stored)
  BY <1>1, StoredType, LenProperties
<1>3. Len(stored) \in Nat
  BY StoredType
<1>4. DOMAIN stored' = DOMAIN stored \cup {Len(stored) + 1}
  BY <1>2, <1>3
<1>5. Delivered' = Delivered \cup req.rows
  BY <1>1, <1>2, <1>4 DEF Delivered
<1>6. QED
  BY <1>1, <1>2, <1>3, <1>4, <1>5

\* A table order is a sequence of tables.
LEMMA OrderType == \A o \in TableOrders : o \in Seq(Tables) /\ o # <<>>
<1> SUFFICES ASSUME NEW o \in TableOrders PROVE o \in Seq(Tables) /\ o # <<>>
  OBVIOUS
<1>1. o \in [1..3 -> Tables]
  BY DEF TableOrders
<1>2. o \in Seq(Tables)
  <2>1. [1..3 -> Tables] \in {[1..n -> Tables] : n \in Nat}
    OBVIOUS
  <2>2. o \in UNION {[1..n -> Tables] : n \in Nat}
    BY <1>1, <2>1, Zenon
  <2>3. QED
    BY <2>2, SeqDef, Zenon
<1>3. Len(o) = 3
  BY <1>1, <1>2, LenProperties
<1>4. QED
  BY <1>2, <1>3, EmptySeq

-------------------------------------------------------------------------------
(* Type correctness. *)

LEMMA TypeInit == Init => TypeOK
<1> SUFFICES ASSUME Init PROVE TypeOK
  OBVIOUS
<1>1. IsFiniteSet(written)
  BY FS_EmptySet DEF Init
<1>2. stored \in Seq(Request)
  BY DEF Init
<1>3. maint \in MaintState
  BY EmptySeq DEF Init, MaintIdle, MaintState
<1>4. batch \in Request
  BY DEF Init, NoBatch, Request
<1>5. 0 \in 0..EventBuffer /\ 0 \in 0..MaxPasses /\ 0 \in 0..MaxFaults
  BY UplinkAssumption
<1>6. nextId \in [Tables -> Nat \ {0}]
  BY DEF Init
<1>7. box \subseteq Row /\ marked \subseteq box /\ box \subseteq written /\ written \subseteq Row
  BY DEF Init
<1>8. net \subseteq Request /\ ledger \subseteq Nat
  BY DEF Init
<1>9. QED
  BY <1>1, <1>2, <1>3, <1>4, <1>5, <1>6, <1>7, <1>8 DEF Init, TypeOK, UplinkPcs

\* Steps of the core loop.
LEMMA TypeCore == TypeOK /\ CoreLoop => TypeOK'
<1> SUFFICES ASSUME TypeOK, CoreLoop PROVE TypeOK'
  OBVIOUS
<1>1. ASSUME NEW t \in Tables, WriteRow(t) PROVE TypeOK'
  <2>1. Insert(t)
    BY <1>1 DEF WriteRow
  <2>2. QED
    BY <1>1, <2>1, InsertType
    DEF WriteRow, TypeOK, upVars, maintVars, cloudVars
<1>2. ASSUME DrainEvent PROVE TypeOK'
  <2>1. events' \in 0..EventBuffer
    BY <1>2, UplinkAssumption DEF DrainEvent, TypeOK
  <2>2. CASE Insert(Events)
    BY <1>2, <2>1, <2>2, InsertType
    DEF DrainEvent, TypeOK, upVars, maintVars, cloudVars, Tables
  <2>3. CASE UNCHANGED boxVars
    BY <1>2, <2>1, <2>3
    DEF DrainEvent, TypeOK, upVars, maintVars, cloudVars, boxVars
  <2>4. QED
    BY <1>2, <2>2, <2>3 DEF DrainEvent
<1>3. QED
  BY <1>1, <1>2 DEF CoreLoop

\* Steps of the uplink goroutine: the rows it handles come from the box.
LEMMA TypeUplink == TypeOK /\ (Uplink \/ CallFails) => TypeOK'
<1> SUFFICES ASSUME TypeOK, Uplink \/ CallFails PROVE TypeOK'
  OBVIOUS
<1> USE DEF boxVars, maintVars, cloudVars, upVars
<1>1. \A t, n : Oldest(PendingOf(t), n) \subseteq Row
  BY DEF TypeOK, Oldest, PendingOf
<1>2. NoBatch \in Request
  BY DEF NoBatch, Request
<1>3. CASE ReadEvents
  <2>1. batch' \in Request
    BY <1>1, <1>2, <1>3 DEF ReadEvents, Request, NoBatch
  <2>2. QED
    BY <1>3, <2>1 DEF ReadEvents, TypeOK, UplinkPcs
<1>4. CASE ReadDecisions
  <2>1. batch' \in Request
    <3>1. batch' = [batch EXCEPT !.rows = @ \cup Oldest(PendingOf(Decisions), Capacity)]
      BY <1>4 DEF ReadDecisions
    <3>2. batch \in Request
      BY DEF TypeOK
    <3> QED
      BY <1>1, <3>1, <3>2 DEF Request
  <2>2. QED
    BY <1>4, <2>1 DEF ReadDecisions, TypeOK, UplinkPcs
<1>5. CASE ReadTicks
  <2>1. batch' \in Request
    <3>1. batch' = [batch EXCEPT !.rows = @ \cup Oldest(PendingOf(Ticks), Capacity)]
      BY <1>5 DEF ReadTicks
    <3>2. batch \in Request
      BY DEF TypeOK
    <3> QED
      BY <1>1, <3>1, <3>2 DEF Request
  <2>2. QED
    BY <1>5, <2>1 DEF ReadTicks, TypeOK, UplinkPcs
<1>6. CASE NothingToSend
  BY <1>2, <1>6 DEF NothingToSend, TypeOK, UplinkPcs
<1>7. CASE SendBatch
  <2>1. batch' \in Request
    <3>1. batch \in Request /\ attempts + 1 \in Nat
      BY DEF TypeOK
    <3>2. batch' = [batch EXCEPT !.id = attempts + 1]
      BY <1>7 DEF SendBatch
    <3> QED
      BY <3>1, <3>2 DEF Request
  <2>2. QED
    BY <1>7, <2>1 DEF SendBatch, TypeOK, UplinkPcs
<1>8. CASE ReceiveAck
  BY <1>8 DEF ReceiveAck, TypeOK, UplinkPcs
<1>9. \A t, ids : MarkIds(t, ids) \subseteq box
  BY DEF MarkIds, TypeOK
<1>10. CASE MarkEvents
  BY <1>9, <1>10 DEF MarkEvents, MarkStep, TypeOK, UplinkPcs
<1>11. CASE MarkDecisions
  BY <1>9, <1>11 DEF MarkDecisions, MarkStep, TypeOK, UplinkPcs
<1>12. CASE MarkTicks
  BY <1>2, <1>9, <1>12 DEF MarkTicks, MarkStep, TypeOK, UplinkPcs
<1>13. CASE CountBacklog
  BY <1>13 DEF CountBacklog, TypeOK, UplinkPcs
<1>14. CASE EmitEvent
  BY <1>14, UplinkAssumption DEF EmitEvent, TypeOK, UplinkPcs
<1> DEFINE TypeAfterFailure == /\ batch' \in Request /\ failures' \in Nat
                              /\ pc' \in UplinkPcs /\ blocked' \in BOOLEAN
                              /\ answer' \in BOOLEAN
<1>20. AttemptFails => TypeAfterFailure
  <2> SUFFICES ASSUME AttemptFails PROVE TypeAfterFailure
    OBVIOUS
  <2>1. pc' \in {"emit", "idle"}
    BY DEF AttemptFails
  <2>2. failures' \in Nat
    BY DEF AttemptFails, TypeOK
  <2>3. QED
    BY <1>2, <2>1, <2>2 DEF AttemptFails, UplinkPcs
<1>15. CASE Timeout
  BY <1>15, <1>20 DEF Timeout, AttemptFails, TypeOK
<1>16. CASE BackoffElapsed
  BY <1>16 DEF BackoffElapsed, TypeOK
<1>17. CASE CallFails
  <2>1. faults' \in 0..MaxFaults
    BY <1>17, UplinkAssumption DEF CallFails, TypeOK
  <2>2. QED
    BY <1>17, <1>20, <2>1 DEF CallFails, AttemptFails, TypeOK
<1>18. QED
  BY <1>3, <1>4, <1>5, <1>6, <1>7, <1>8, <1>10, <1>11, <1>12, <1>13, <1>14,
     <1>15, <1>16, <1>17 DEF Uplink

\* Steps of the network and the cloud.
LEMMA TypeNetwork == TypeOK /\ Network => TypeOK'
<1> SUFFICES ASSUME TypeOK, Network PROVE TypeOK'
  OBVIOUS
<1> USE DEF boxVars, maintVars, cloudVars, upVars
<1>1. ASSUME NEW req \in net, CloudReceives(req) PROVE TypeOK'
  <2>1. req \in Request
    BY DEF TypeOK
  <2>2. ledger' \subseteq Nat /\ stored' \in Seq(Request)
    <3>1. CASE req.id \in ledger
      BY <1>1, <3>1 DEF CloudReceives, Ingest, TypeOK
    <3>2. CASE req.id \notin ledger
      <4>1. ledger' = ledger \cup {req.id} /\ stored' = Append(stored, req)
        BY <1>1, <3>2 DEF CloudReceives, Ingest
      <4>2. stored \in Seq(Request) /\ ledger \subseteq Nat
        BY DEF TypeOK
      <4>3. req.id \in Nat
        BY <2>1 DEF Request
      <4>4. Append(stored, req) \in Seq(Request)
        BY <2>1, <4>2, AppendProperties
      <4>5. QED
        BY <4>1, <4>2, <4>3, <4>4
    <3>3. QED
      BY <3>1, <3>2
  <2>3. net' \subseteq Request
    BY <1>1 DEF CloudReceives, TypeOK
  <2>4. answer' \in BOOLEAN
    BY <1>1 DEF CloudReceives, TypeOK
  <2>5. QED
    BY <1>1, <2>2, <2>3, <2>4 DEF CloudReceives, TypeOK
<1>2. ASSUME RequestLost \/ AnswerLost PROVE TypeOK'
  <2>1. faults' \in 0..MaxFaults
    BY <1>2, UplinkAssumption DEF RequestLost, AnswerLost, TypeOK
  <2>2. QED
    BY <1>2, <2>1 DEF RequestLost, AnswerLost, TypeOK
<1>3. QED
  BY <1>1, <1>2 DEF Network

\* The updates of the maintenance state stay in its type.
LEMMA MaintUpdates ==
  ASSUME NEW m \in MaintState, NEW p \in {"disk", "done"}, NEW o \in Seq(Tables),
         NEW n \in Nat
  PROVE  /\ [m EXCEPT !.order = o, !.deleted = 0] \in MaintState
         /\ [m EXCEPT !.order = o, !.deleted = 0, !.phase = p] \in MaintState
         /\ [m EXCEPT !.deleted = n] \in MaintState
<1>1. [m EXCEPT !.order = o, !.deleted = 0] \in MaintState
  BY DEF MaintState
<1>2. [m EXCEPT !.order = o, !.deleted = 0, !.phase = p] \in MaintState
  BY DEF MaintState
<1>3. [m EXCEPT !.deleted = n] \in MaintState
  BY DEF MaintState
<1>4. QED
  BY <1>1, <1>2, <1>3

\* Steps of the maintenance goroutine.
LEMMA TypeMaintenance == TypeOK /\ Maintenance => TypeOK'
<1> SUFFICES ASSUME TypeOK, Maintenance PROVE TypeOK'
  OBVIOUS
<1> USE DEF maintVars, cloudVars, upVars
<1>1. MaintIdle \in MaintState
  BY EmptySeq DEF MaintIdle, MaintState
<1>2. \A D : Delete(D) => /\ box' \subseteq Row /\ marked' \subseteq box'
                          /\ box' \subseteq written' /\ written' = written
                          /\ nextId' = nextId
  BY DEF Delete, TypeOK
<1>0. ASSUME NEW p \in {"disk", "done"}, NEW o \in Seq(Tables), NEW n \in Nat
      PROVE  /\ [maint EXCEPT !.order = o, !.deleted = 0] \in MaintState
             /\ [maint EXCEPT !.order = o, !.deleted = 0, !.phase = p] \in MaintState
             /\ [maint EXCEPT !.deleted = maint.deleted + n] \in MaintState
  <2>1. maint \in MaintState
    BY DEF TypeOK
  <2>2. maint.deleted + n \in Nat
    BY <2>1 DEF MaintState
  <2>3. QED
    BY <2>1, <2>2, MaintUpdates
<1>3. ASSUME NEW after \in {"disk", "done"}, NextTable(after) PROVE maint' \in MaintState
  <2>1. CASE Len(maint.order) > 1
    <3>1. maint.order \in Seq(Tables) /\ maint.order # <<>>
      BY <2>1, EmptySeq DEF TypeOK, MaintState
    <3>2. Tail(maint.order) \in Seq(Tables)
      BY <3>1, HeadTailProperties
    <3>3. QED
      BY <1>0, <1>3, <2>1, <3>2 DEF NextTable
  <2>2. CASE ~(Len(maint.order) > 1)
    BY <1>0, <1>3, <2>2, EmptySeq DEF NextTable
  <2>3. QED
    BY <2>1, <2>2
<1>4. CASE StartMaintain
  <2>1. maint' \in MaintState
    BY <1>4, OrderType DEF StartMaintain, MaintState, TypeOK
  <2>2. passes' \in 0..MaxPasses
    BY <1>4, UplinkAssumption DEF StartMaintain, TypeOK
  <2>3. QED
    BY <1>4, <2>1, <2>2 DEF StartMaintain, TypeOK, boxVars
<1>5. CASE RetentionChunk
  <2>1. PICK D : /\ Delete(D)
                 /\ NextTable("disk") \/ UNCHANGED maint
    BY <1>5 DEF RetentionChunk
  <2>2. maint' \in MaintState
    BY <1>3, <2>1 DEF TypeOK
  <2>3. QED
    BY <1>2, <1>5, <2>1, <2>2 DEF RetentionChunk, TypeOK
<1>6. CASE CheckDisk
  <2>1. maint' \in MaintState
    BY <1>1, <1>6, OrderType DEF CheckDisk, MaintState, TypeOK
  <2>2. QED
    BY <1>6, <2>1 DEF CheckDisk, TypeOK, boxVars
<1>7. CASE GuardChunk
  <2> DEFINE D == Oldest({r \in marked : r.table = Head(maint.order)}, MaintainChunk)
  <2>1. Cardinality(D) \in Nat
    BY Sizes DEF Oldest, TypeOK
  <2>2. /\ Delete(D)
        /\ \/ NextTable("done")
           \/ maint' = [maint EXCEPT !.deleted = maint.deleted + Cardinality(D)]
    BY <1>7 DEF GuardChunk
  <2>3. CASE NextTable("done")
    BY <1>2, <1>3, <1>7, <2>2, <2>3 DEF GuardChunk, TypeOK
  <2>4. CASE maint' = [maint EXCEPT !.deleted = maint.deleted + Cardinality(D)]
    <3>1. maint' \in MaintState
      BY <1>0, <2>1, <2>4, EmptySeq
    <3>2. QED
      BY <1>2, <1>7, <2>2, <3>1 DEF GuardChunk, TypeOK
  <2>5. QED
    BY <2>2, <2>3, <2>4
<1>8. CASE EndMaintain
  BY <1>1, <1>8 DEF EndMaintain, TypeOK, boxVars
<1>9. QED
  BY <1>4, <1>5, <1>6, <1>7, <1>8 DEF Maintenance

\* A restart and the passage of time.
LEMMA TypeOther == TypeOK /\ (Restart \/ Age \/ UNCHANGED vars) => TypeOK'
<1> SUFFICES ASSUME TypeOK, Restart \/ Age \/ UNCHANGED vars PROVE TypeOK'
  OBVIOUS
<1> USE DEF boxVars, maintVars, cloudVars, upVars
<1>1. CASE Restart
  <2>1. batch' \in Request /\ maint' \in MaintState
    BY <1>1, EmptySeq DEF Restart, NoBatch, Request, MaintIdle, MaintState
  <2>2. faults' \in 0..MaxFaults /\ events' \in 0..EventBuffer
    BY <1>1, UplinkAssumption DEF Restart, TypeOK
  <2>3. QED
    BY <1>1, <2>1, <2>2 DEF Restart, TypeOK, UplinkPcs
<1>2. CASE Age
  BY <1>2 DEF Age, TypeOK
<1>3. CASE UNCHANGED vars
  BY <1>3 DEF vars, TypeOK
<1>4. QED
  BY <1>1, <1>2, <1>3

LEMMA TypeStep == TypeOK /\ [Next]_vars => TypeOK'
BY TypeCore, TypeUplink, TypeNetwork, TypeMaintenance, TypeOther DEF Next

\* Every reachable state of the uplink, whatever the bounds, is well typed; in
\* particular the events channel never holds more than its capacity.
THEOREM UplinkTypeOK == Spec => []TypeOK
<1>1. QED
  BY TypeInit, TypeStep, PTL DEF Spec

-------------------------------------------------------------------------------
(* The inductive invariant. *)

IInv ==
  /\ TypeOK
  /\ MarkedDelivered
  /\ NoUndeliveredLoss
  /\ BatchAppliedOnce
  /\ OldestFirst
  /\ Strengthening

LEMMA InvInit == Init => IInv
<1> SUFFICES ASSUME Init PROVE IInv
  OBVIOUS
<1>1. TypeOK
  BY TypeInit
<1>2. Delivered = {} /\ DOMAIN stored = {}
  BY DEF Init, Delivered
<1>3. MarkedDelivered /\ NoUndeliveredLoss /\ BatchAppliedOnce /\ OldestFirst
  BY <1>2 DEF Init, MarkedDelivered, NoUndeliveredLoss, BatchAppliedOnce, OldestFirst
<1>4. RowsUnique /\ RowsKnown /\ AnswerMeansStored
  BY <1>2 DEF Init, RowsUnique, RowsKnown, AnswerMeansStored, NoBatch, Marking
<1>5. IdsNameRequests
  BY <1>2 DEF Init, IdsNameRequests, NoBatch
<1>6. InOrder(batch.rows) /\ \A req \in net : InOrder(req.rows)
  BY DEF Init, InOrder, NoBatch
<1>7. maint.cutoff <= horizon
  BY DEF Init, MaintIdle
<1>8. QED
  BY <1>1, <1>3, <1>4, <1>5, <1>6, <1>7 DEF IInv, Strengthening

\* Steps that leave the box, the horizon and the cloud alone, and at most
\* forget the batch, a request or an answer.
LEMMA InvQuiet ==
  ASSUME IInv, TypeOK',
         UNCHANGED <<boxVars, horizon, attempts, cloudVars>>,
         net' \subseteq net,
         batch' = batch \/ batch' = NoBatch,
         answer' => answer /\ pc' = "wait",
         answer' \/ pc' \in Marking => batch' = batch /\ (answer \/ pc \in Marking),
         maint'.cutoff <= horizon
  PROVE  IInv'
<1> USE DEF boxVars, cloudVars, IInv, Strengthening
<1>1. Delivered' = Delivered /\ Clock' = Clock
  BY DEF Delivered, Clock
<1>2. \A B : InOrder(B) => InOrder(B)'
  BY <1>1 DEF InOrder
<1>3. InOrder({})
  BY DEF InOrder
<1>4. (MarkedDelivered /\ NoUndeliveredLoss /\ BatchAppliedOnce /\ OldestFirst)'
  BY <1>1 DEF MarkedDelivered, NoUndeliveredLoss, BatchAppliedOnce, OldestFirst
<1>5. RowsUnique' /\ RowsKnown'
  BY <1>1 DEF RowsUnique, RowsKnown, NoBatch
<1>6. IdsNameRequests'
  BY DEF IdsNameRequests, NoBatch, TypeOK
<1>7. AnswerMeansStored'
  BY <1>1 DEF AnswerMeansStored
<1>8. InOrder(batch.rows)' /\ \A req \in net' : InOrder(req.rows)'
  <2>1. InOrder(batch'.rows)
    BY <1>3 DEF NoBatch, InOrder
  <2>2. InOrder(batch.rows)'
    BY <2>1 DEF InOrder, Delivered
  <2>3. QED
    BY <1>2, <2>2
<1>9. QED
  BY <1>4, <1>5, <1>6, <1>7, <1>8

\* A new row is younger than every row written, in flight or stored.
LEMMA InvInsert ==
  ASSUME IInv, TypeOK', NEW t \in Tables, Insert(t),
         UNCHANGED <<horizon, batch, attempts, pc, maint, net, answer, cloudVars>>
  PROVE  IInv'
<1> USE DEF cloudVars, IInv, Strengthening
<1> DEFINE row == [table |-> t, id |-> nextId[t], ts |-> Clock]
<1>1. /\ box' = box \cup {row} /\ written' = written \cup {row}
      /\ marked' = marked /\ nextId' = [nextId EXCEPT ![t] = @ + 1]
  BY DEF Insert
<1>2. Clock \in Nat /\ \A r \in written : r \in Row /\ r.ts \in Nat /\ r.ts < Clock
  BY Sizes DEF RowsUnique, TypeOK, Row
<1>3. row \notin written
  BY <1>2
<1>4. Clock' = Clock + 1
  BY <1>1, <1>3, FS_AddElement DEF Clock, TypeOK
<1>5. Delivered' = Delivered
  BY DEF Delivered
<1>6. (MarkedDelivered /\ NoUndeliveredLoss /\ BatchAppliedOnce)'
  BY <1>1, <1>5 DEF MarkedDelivered, NoUndeliveredLoss, BatchAppliedOnce
<1>7. \A B : B \subseteq written /\ InOrder(B) => InOrder(B)'
  <2> SUFFICES ASSUME NEW B, B \subseteq written, InOrder(B),
                      NEW q \in B, NEW r \in box', q.table = r.table, r.ts < q.ts
               PROVE  r \in B \/ r \in Delivered'
    BY DEF InOrder
  <2>1. r # row
    BY <1>2
  <2>2. r \in box
    BY <1>1, <2>1
  <2>3. QED
    BY <1>5, <2>2 DEF InOrder
<1>8. OldestFirst'
  <2>1. InOrder(Delivered) /\ Delivered \subseteq written
    BY DEF OldestFirst, InOrder, RowsKnown
  <2>2. QED
    BY <1>5, <1>7, <2>1 DEF OldestFirst, InOrder
<1>9. RowsUnique'
  <2>1. \A r \in written : r.id \in Nat /\ r.table \in Tables
    BY DEF TypeOK, Row
  <2>2. \A u \in Tables : nextId[u] \in Nat /\ nextId'[u] \in Nat /\ nextId[u] <= nextId'[u]
    BY <1>1 DEF TypeOK
  <2>3. nextId'[t] = nextId[t] + 1
    BY <1>1 DEF TypeOK
  <2>4. \A r \in written' : r.id < nextId'[r.table]
    BY <1>1, <2>1, <2>2, <2>3 DEF RowsUnique
  <2>5. \A r \in written' : r.ts < Clock'
    BY <1>1, <1>2, <1>4
  <2>6. \A q, r \in written' : q.table = r.table /\ q.id = r.id => q = r
    <3>1. \A r \in written : ~(r.table = row.table /\ r.id = row.id)
      BY <2>1, <2>2 DEF RowsUnique
    <3>2. QED
      BY <1>1, <3>1 DEF RowsUnique
  <2>7. QED
    BY <2>4, <2>5, <2>6 DEF RowsUnique
<1>10. RowsKnown'
  BY <1>1, <1>5 DEF RowsKnown
<1>11. IdsNameRequests' /\ AnswerMeansStored'
  BY <1>5 DEF IdsNameRequests, AnswerMeansStored
<1>12. InOrder(batch.rows)' /\ \A req \in net' : InOrder(req.rows)'
  <2>1. InOrder(batch.rows)'
    BY <1>7 DEF RowsKnown, InOrder
  <2>2. QED
    BY <1>7, <2>1 DEF RowsKnown
<1>13. QED
  BY <1>6, <1>8, <1>9, <1>10, <1>11, <1>12

\* Adding the oldest pending rows of one table keeps a batch in order: an
\* older row of the box that is not chosen is already marked.
LEMMA OldestInOrder ==
  ASSUME IInv, NEW t \in Tables, NEW n \in Int, NEW B, B \subseteq written, InOrder(B)
  PROVE  /\ B \cup Oldest(PendingOf(t), n) \subseteq written
         /\ InOrder(B \cup Oldest(PendingOf(t), n))
<1> DEFINE S == PendingOf(t)
           O == Oldest(S, n)
           Older(r) == {p \in S : p.ts < r.ts}
<1>1. S \subseteq box /\ box \subseteq written
  BY DEF PendingOf, IInv, TypeOK
<1>2. ASSUME NEW q \in O, NEW r \in box, q.table = r.table, r.ts < q.ts
      PROVE  r \in O \/ r \in Delivered
  <2>1. q \in S /\ Cardinality(Older(q)) < n
    BY DEF Oldest
  <2>2. CASE r \in marked
    BY <2>2 DEF IInv, MarkedDelivered
  <2>3. CASE r \notin marked
    <3>1. r \in S
      BY <1>2, <2>1, <2>3 DEF PendingOf
    <3>2. \A p \in S : p.ts \in Nat
      BY <1>1 DEF IInv, TypeOK, Row
    <3>3. Older(r) \subseteq Older(q)
      BY <1>2, <2>1, <3>1, <3>2
    <3>4. Cardinality(Older(r)) <= Cardinality(Older(q))
      <4>1. IsFiniteSet(Older(q))
        BY <1>1, Sizes DEF IInv
      <4>2. QED
        BY <3>3, <4>1, FS_Subset
    <3>5. Cardinality(Older(r)) \in Nat /\ Cardinality(Older(q)) \in Nat
      BY <1>1, Sizes DEF IInv
    <3>6. Cardinality(Older(r)) < n
      BY <2>1, <3>4, <3>5
    <3>7. QED
      BY <3>1, <3>6 DEF Oldest
  <2>4. QED
    BY <2>2, <2>3
<1>3. O \subseteq S
  BY DEF Oldest
<1>4. QED
  BY <1>1, <1>2, <1>3 DEF InOrder

\* Reading pending rows of one table into the batch.
LEMMA InvRead ==
  ASSUME IInv, TypeOK', NEW t \in Tables, NEW n \in Int, NEW B,
         B = {} \/ B = batch.rows,
         batch'.rows = B \cup Oldest(PendingOf(t), n), batch'.id <= attempts,
         ~answer, pc' \notin Marking,
         UNCHANGED <<boxVars, horizon, attempts, maint, net, answer, cloudVars>>
  PROVE  IInv'
<1> USE DEF boxVars, cloudVars
<1>1. B \subseteq written /\ InOrder(B)
  BY DEF InOrder, IInv, Strengthening, RowsKnown
<1>2. batch'.rows \subseteq written /\ InOrder(batch'.rows)
  BY <1>1, OldestInOrder DEF InOrder
<1> USE DEF IInv, Strengthening
<1>3. Delivered' = Delivered /\ Clock' = Clock
  BY DEF Delivered, Clock
<1>4. (MarkedDelivered /\ NoUndeliveredLoss /\ BatchAppliedOnce /\ OldestFirst)'
  BY <1>3 DEF MarkedDelivered, NoUndeliveredLoss, BatchAppliedOnce, OldestFirst
<1>5. RowsUnique' /\ RowsKnown'
  BY <1>2, <1>3 DEF RowsUnique, RowsKnown
<1>6. IdsNameRequests' /\ AnswerMeansStored'
  BY <1>3 DEF IdsNameRequests, AnswerMeansStored
<1>7. InOrder(batch.rows)' /\ \A req \in net' : InOrder(req.rows)'
  BY <1>2, <1>3 DEF InOrder
<1>8. QED
  BY <1>4, <1>5, <1>6, <1>7

\* The batch is sent under an id no request has had.
LEMMA InvSend == IInv /\ TypeOK' /\ SendBatch => IInv'
<1> SUFFICES ASSUME IInv, TypeOK', SendBatch PROVE IInv'
  OBVIOUS
<1> USE DEF boxVars, maintVars, cloudVars, IInv, Strengthening
<1>1. Delivered' = Delivered /\ Clock' = Clock
  BY DEF SendBatch, Delivered, Clock
<1>2. /\ batch'.rows = batch.rows /\ batch'.id = attempts + 1
      /\ net' = net \cup {batch'} /\ attempts' = attempts + 1
  BY DEF SendBatch, TypeOK, Request
<1>3. (MarkedDelivered /\ NoUndeliveredLoss /\ BatchAppliedOnce /\ OldestFirst)'
  BY <1>1 DEF SendBatch, MarkedDelivered, NoUndeliveredLoss, BatchAppliedOnce, OldestFirst
<1>4. RowsUnique' /\ RowsKnown'
  BY <1>1, <1>2 DEF SendBatch, RowsUnique, RowsKnown
<1>5. IdsNameRequests'
  <2>1. attempts \in Nat /\ \A req \in net : req.id \in Nat
    BY DEF TypeOK, Request
  <2>2. stored' = stored /\ \A i \in DOMAIN stored : stored[i].id \in Nat
    BY StoredType DEF SendBatch, Request
  <2>3. QED
    BY <1>2, <2>1, <2>2 DEF IdsNameRequests
<1>6. AnswerMeansStored'
  BY <1>1, <1>2 DEF SendBatch, AnswerMeansStored, Marking
<1>7. InOrder(batch.rows)' /\ \A req \in net' : InOrder(req.rows)'
  BY <1>1, <1>2 DEF SendBatch, InOrder
<1>8. QED
  BY <1>3, <1>4, <1>5, <1>6, <1>7 DEF SendBatch

\* Marking by id flags only rows of the batch, which the cloud has.
LEMMA InvMark ==
  ASSUME IInv, TypeOK', NEW t \in Tables,
         marked' = MarkIds(t, IdsOf(batch.rows, t)), pc \in Marking, ~answer',
         UNCHANGED <<box, nextId, written, horizon, attempts, maint, net, cloudVars>>,
         batch' = batch \/ (batch' = NoBatch /\ pc' \notin Marking)
  PROVE  IInv'
<1> USE DEF cloudVars, IInv, Strengthening
<1>1. Delivered' = Delivered /\ Clock' = Clock
  BY DEF Delivered, Clock
<1>2. batch.rows \subseteq Delivered /\ batch.rows \subseteq written
  BY DEF AnswerMeansStored, RowsKnown
<1>3. MarkedDelivered'
  <2> SUFFICES ASSUME NEW r \in box, r.table = t, r.id \in IdsOf(batch.rows, t)
               PROVE  r \in Delivered
    BY <1>1 DEF MarkedDelivered, MarkIds
  <2>1. PICK b \in batch.rows : b.table = t /\ b.id = r.id
    BY DEF IdsOf
  <2>2. b = r
    BY <1>2, <2>1 DEF RowsUnique, TypeOK
  <2>3. QED
    BY <1>2, <2>2
<1>4. (NoUndeliveredLoss /\ BatchAppliedOnce /\ OldestFirst)'
  BY <1>1 DEF NoUndeliveredLoss, BatchAppliedOnce, OldestFirst
<1>5. RowsUnique' /\ RowsKnown'
  BY <1>1 DEF RowsUnique, RowsKnown, NoBatch
<1>6. IdsNameRequests'
  BY DEF IdsNameRequests, NoBatch, TypeOK
<1>7. AnswerMeansStored'
  BY <1>1, <1>2 DEF AnswerMeansStored, NoBatch
<1>8. InOrder(batch.rows)' /\ \A req \in net' : InOrder(req.rows)'
  BY <1>1 DEF InOrder, NoBatch
<1>9. QED
  BY <1>3, <1>4, <1>5, <1>6, <1>7, <1>8

\* The cloud commits a request, or recognises its id and stores nothing.
LEMMA InvCloud ==
  ASSUME IInv, TypeOK', NEW req \in net, CloudReceives(req)
  PROVE  IInv'
<1> USE DEF boxVars, maintVars, upVars, IInv, Strengthening
<1>1. /\ UNCHANGED <<box, marked, nextId, written, horizon, batch, attempts, pc, maint>>
      /\ net' \subseteq net /\ Clock' = Clock
      /\ answer' = (answer \/ (pc = "wait" /\ req = batch))
  BY DEF CloudReceives, Clock
<1>2. req \in Request
  BY DEF TypeOK
<1>3. /\ ledger' = ledger \cup {req.id}
      /\ Delivered' = Delivered \cup req.rows
      /\ req.rows \subseteq written /\ InOrder(req.rows)
      /\ BatchAppliedOnce'
      /\ IdsNameRequests'
  <2>1. CASE req.id \in ledger
    <3>1. ledger' = ledger /\ stored' = stored /\ Delivered' = Delivered
      BY <2>1 DEF CloudReceives, Ingest, cloudVars, Delivered
    <3>2. PICK i \in DOMAIN stored : stored[i].id = req.id
      BY <2>1 DEF BatchAppliedOnce
    <3>3. req.rows \subseteq Delivered
      BY <3>2 DEF IdsNameRequests, Delivered
    <3>4. QED
      BY <1>1, <2>1, <3>1, <3>3 DEF RowsKnown, BatchAppliedOnce, IdsNameRequests
  <2>2. CASE req.id \notin ledger
    <3>1. ledger' = ledger \cup {req.id} /\ stored' = Append(stored, req)
      BY <2>2 DEF CloudReceives, Ingest
    <3>2. /\ DOMAIN stored' = DOMAIN stored \cup {Len(stored) + 1}
          /\ Len(stored) + 1 \notin DOMAIN stored
          /\ stored'[Len(stored) + 1] = req
          /\ \A i \in DOMAIN stored : stored'[i] = stored[i]
          /\ Delivered' = Delivered \cup req.rows
      BY <1>2, <3>1, AppendStored
    <3>3. \A i \in DOMAIN stored : stored[i].id # req.id
      BY <2>2 DEF BatchAppliedOnce
    <3>4. BatchAppliedOnce'
      BY <3>1, <3>2, <3>3 DEF BatchAppliedOnce
    <3>5. IdsNameRequests'
      BY <1>1, <3>2 DEF IdsNameRequests
    <3>6. QED
      BY <3>1, <3>2, <3>4, <3>5 DEF RowsKnown
  <2>3. QED
    BY <2>1, <2>2
<1>4. (MarkedDelivered /\ NoUndeliveredLoss)'
  BY <1>1, <1>3 DEF MarkedDelivered, NoUndeliveredLoss
<1>5. OldestFirst'
  BY <1>1, <1>3 DEF OldestFirst, InOrder
<1>6. RowsUnique' /\ RowsKnown'
  BY <1>1, <1>3 DEF RowsUnique, RowsKnown
<1>7. AnswerMeansStored'
  BY <1>1, <1>3 DEF AnswerMeansStored
<1>8. InOrder(batch.rows)' /\ \A r \in net' : InOrder(r.rows)'
  BY <1>1, <1>3 DEF InOrder
<1>9. QED
  BY <1>1, <1>3, <1>4, <1>5, <1>6, <1>7, <1>8

\* Rows that are delivered or past the horizon may be deleted, and the horizon
\* may move.
LEMMA InvDelete ==
  ASSUME IInv, TypeOK', NEW S, box' = box \ S, marked' = marked \ S,
         \A r \in S \cap box : r \in Delivered \/ r.ts < horizon,
         horizon <= horizon', maint'.cutoff <= horizon',
         UNCHANGED <<nextId, written, batch, attempts, pc, net, answer, cloudVars>>
  PROVE  IInv'
<1> USE DEF cloudVars, IInv, Strengthening
<1>1. Delivered' = Delivered /\ Clock' = Clock
  BY DEF Delivered, Clock
<1>2. \A r \in written : r.ts \in Nat
  BY DEF TypeOK, Row
<1>3. NoUndeliveredLoss'
  <2> SUFFICES ASSUME NEW r \in written \ box' PROVE r \in Delivered \/ r.ts < horizon'
    BY <1>1 DEF NoUndeliveredLoss
  <2>1. r \in Delivered \/ r.ts < horizon
    BY DEF NoUndeliveredLoss
  <2>2. QED
    BY <1>2, <2>1 DEF TypeOK
<1>4. (MarkedDelivered /\ BatchAppliedOnce /\ OldestFirst)'
  BY <1>1 DEF MarkedDelivered, BatchAppliedOnce, OldestFirst
<1>5. RowsUnique' /\ RowsKnown' /\ IdsNameRequests' /\ AnswerMeansStored'
  BY <1>1 DEF RowsUnique, RowsKnown, IdsNameRequests, AnswerMeansStored
<1>6. InOrder(batch.rows)' /\ \A req \in net' : InOrder(req.rows)'
  BY <1>1 DEF InOrder
<1>7. QED
  BY <1>3, <1>4, <1>5, <1>6

-------------------------------------------------------------------------------
(* Every step preserves the invariant. *)

LEMMA InvCore == IInv /\ TypeOK' /\ CoreLoop => IInv'
<1> SUFFICES ASSUME IInv, TypeOK', CoreLoop PROVE IInv'
  OBVIOUS
<1> USE DEF maintVars, cloudVars, upVars
<1>1. ASSUME NEW t \in Tables, WriteRow(t) PROVE IInv'
  BY <1>1, InvInsert DEF WriteRow
<1>2. CASE DrainEvent
  <2>1. CASE Insert(Events)
    BY <1>2, <2>1, InvInsert DEF DrainEvent, Tables
  <2>2. CASE UNCHANGED boxVars
    <3>1. maint.cutoff <= horizon
      BY DEF IInv, Strengthening
    <3>2. answer => pc = "wait"
      BY DEF IInv, Strengthening, AnswerMeansStored
    <3>3. QED
      BY <1>2, <2>2, <3>1, <3>2, InvQuiet DEF DrainEvent
  <2>3. QED
    BY <1>2, <2>1, <2>2 DEF DrainEvent
<1>3. QED
  BY <1>1, <1>2 DEF CoreLoop

LEMMA InvUplink == IInv /\ TypeOK' /\ (Uplink \/ CallFails) => IInv'
<1> SUFFICES ASSUME IInv, TypeOK', Uplink \/ CallFails PROVE IInv'
  OBVIOUS
<1> USE DEF boxVars, maintVars, cloudVars, upVars, Marking
<1>1. /\ maint.cutoff <= horizon
      /\ answer => pc = "wait"
      /\ batch.id <= attempts
      /\ batch \in Request /\ attempts \in Nat
  BY DEF IInv, Strengthening, AnswerMeansStored, IdsNameRequests, TypeOK
<1>2. Capacity \in Int /\ BatchMaxRecords \in Int
  BY UplinkAssumption, Sizes DEF IInv, Strengthening, RowsKnown, Capacity
<1>3. CASE ReadEvents
  <2>1. /\ batch'.rows = {} \cup Oldest(PendingOf(Events), BatchMaxRecords)
        /\ batch'.id <= attempts /\ pc' \notin Marking
    BY <1>1, <1>3 DEF ReadEvents, NoBatch
  <2>2. QED
    BY <1>1, <1>2, <1>3, <2>1, InvRead DEF ReadEvents, Tables
<1>4. CASE ReadDecisions
  <2>1. /\ batch'.rows = batch.rows \cup Oldest(PendingOf(Decisions), Capacity)
        /\ batch'.id <= attempts /\ pc' \notin Marking
    BY <1>1, <1>4 DEF ReadDecisions, Request
  <2>2. QED
    BY <1>1, <1>2, <1>4, <2>1, InvRead DEF ReadDecisions, Tables
<1>5. CASE ReadTicks
  <2>1. /\ batch'.rows = batch.rows \cup Oldest(PendingOf(Ticks), Capacity)
        /\ batch'.id <= attempts /\ pc' \notin Marking
    BY <1>1, <1>5 DEF ReadTicks, Request
  <2>2. QED
    BY <1>1, <1>2, <1>5, <2>1, InvRead DEF ReadTicks, Tables
<1>6. CASE NothingToSend
  BY <1>1, <1>6, InvQuiet DEF NothingToSend
<1>7. CASE SendBatch
  BY <1>7, InvSend
<1>8. CASE ReceiveAck
  BY <1>1, <1>8, InvQuiet DEF ReceiveAck
<1>9. CASE MarkEvents
  BY <1>1, <1>9, InvMark DEF MarkEvents, MarkStep, Tables
<1>10. CASE MarkDecisions
  BY <1>1, <1>10, InvMark DEF MarkDecisions, MarkStep, Tables
<1>11. CASE MarkTicks
  BY <1>1, <1>11, InvMark DEF MarkTicks, MarkStep, Tables
<1>12. CASE CountBacklog
  BY <1>1, <1>12, InvQuiet DEF CountBacklog
<1>13. CASE EmitEvent
  BY <1>1, <1>13, InvQuiet DEF EmitEvent
<1>14. CASE Timeout
  BY <1>1, <1>14, InvQuiet DEF Timeout, AttemptFails
<1>15. CASE BackoffElapsed
  BY <1>1, <1>15, InvQuiet DEF BackoffElapsed
<1>16. CASE CallFails
  BY <1>1, <1>16, InvQuiet DEF CallFails, AttemptFails
<1>17. QED
  BY <1>3, <1>4, <1>5, <1>6, <1>7, <1>8, <1>9, <1>10, <1>11, <1>12, <1>13, <1>14,
     <1>15, <1>16 DEF Uplink

LEMMA InvMaintenance == IInv /\ TypeOK' /\ Maintenance => IInv'
<1> SUFFICES ASSUME IInv, TypeOK', Maintenance PROVE IInv'
  OBVIOUS
<1> USE DEF boxVars, maintVars, cloudVars, upVars
<1>1. /\ maint.cutoff <= horizon /\ horizon \in Nat
      /\ answer => pc = "wait"
      /\ maint \in MaintState
  BY DEF IInv, Strengthening, AnswerMeansStored, TypeOK
<1>2. MaintIdle.cutoff = 0
  BY DEF MaintIdle
<1>3. \A a : NextTable(a) => maint'.cutoff = maint.cutoff
  BY <1>1 DEF NextTable, MaintState
<1>4. CASE StartMaintain
  <2>1. maint'.cutoff <= horizon
    BY <1>1, <1>4 DEF StartMaintain
  <2>2. QED
    BY <1>1, <1>4, <2>1, InvQuiet DEF StartMaintain
<1>5. CASE RetentionChunk
  <2> DEFINE old == {r \in box : r.table = Head(maint.order) /\ r.ts < maint.cutoff}
  <2>1. PICK D \in SUBSET old : Delete(D) /\ (NextTable("disk") \/ UNCHANGED maint)
    BY <1>5 DEF RetentionChunk
  <2>2. \A r \in D \cap box : r.ts < horizon
    <3>1. \A r \in D : r.ts < maint.cutoff
      BY <2>1
    <3>2. \A r \in box : r.ts \in Nat
      BY DEF IInv, TypeOK, Row
    <3>3. maint.cutoff \in Nat
      BY <1>1 DEF MaintState
    <3>4. QED
      BY <1>1, <3>1, <3>2, <3>3
  <2>3. maint'.cutoff <= horizon'
    BY <1>1, <1>3, <1>5, <2>1 DEF RetentionChunk
  <2>4. QED
    BY <1>1, <1>5, <2>1, <2>2, <2>3, InvDelete DEF RetentionChunk, Delete
<1>6. CASE CheckDisk
  <2>1. CASE maint' = MaintIdle
    BY <1>1, <1>2, <1>6, <2>1, InvQuiet DEF CheckDisk
  <2>2. ASSUME NEW o \in TableOrders, maint' = [maint EXCEPT !.phase = "guard", !.order = o]
        PROVE  IInv'
    <3>1. maint'.cutoff = maint.cutoff
      BY <1>1, <2>2, OrderType DEF MaintState
    <3>2. QED
      BY <1>1, <1>6, <3>1, InvQuiet DEF CheckDisk
  <2>3. QED
    BY <1>6, <2>1, <2>2 DEF CheckDisk
<1>7. CASE GuardChunk
  <2> DEFINE D == Oldest({r \in marked : r.table = Head(maint.order)}, MaintainChunk)
  <2>1. Delete(D) /\ maint'.cutoff <= horizon'
    BY <1>1, <1>3, <1>7 DEF GuardChunk, MaintState
  <2>2. \A r \in D \cap box : r \in Delivered
    BY DEF Oldest, IInv, MarkedDelivered
  <2>3. QED
    BY <1>1, <1>7, <2>1, <2>2, InvDelete DEF GuardChunk, Delete
<1>8. CASE EndMaintain
  BY <1>1, <1>2, <1>8, InvQuiet DEF EndMaintain
<1>9. QED
  BY <1>4, <1>5, <1>6, <1>7, <1>8 DEF Maintenance

LEMMA InvStep == IInv /\ [Next]_vars => IInv'
<1> SUFFICES ASSUME IInv, [Next]_vars PROVE IInv'
  OBVIOUS
<1> USE DEF boxVars, maintVars, cloudVars, upVars
<1>1. TypeOK'
  BY TypeStep DEF IInv
<1>2. /\ maint.cutoff <= horizon /\ horizon \in Nat
      /\ answer => pc = "wait"
  BY DEF IInv, Strengthening, AnswerMeansStored, TypeOK
<1>3. ASSUME NEW req \in net, CloudReceives(req) PROVE IInv'
  BY <1>1, <1>3, InvCloud
<1>4. CASE RequestLost
  BY <1>1, <1>2, <1>4, InvQuiet DEF RequestLost
<1>5. CASE AnswerLost
  BY <1>1, <1>2, <1>5, InvQuiet DEF AnswerLost, Marking
<1>6. CASE Restart
  BY <1>1, <1>2, <1>6, InvQuiet DEF Restart, MaintIdle, Marking
<1>7. CASE Age
  <2>1. maint.cutoff <= horizon' /\ horizon <= horizon'
    BY <1>2, <1>7 DEF Age, IInv, TypeOK, MaintState
  <2>2. PICK S : box' = box \ S /\ marked' = marked \ S /\ S = {}
    BY <1>7 DEF Age
  <2>3. QED
    BY <1>1, <1>7, <2>1, <2>2, InvDelete DEF Age
<1>8. CASE UNCHANGED vars
  BY <1>1, <1>2, <1>8, InvQuiet DEF vars
<1>9. QED
  BY <1>1, <1>3, <1>4, <1>5, <1>6, <1>7, <1>8, InvCore, InvUplink, InvMaintenance
  DEF Next, Network

LEMMA UplinkInductive == Spec => []IInv
<1>1. QED
  BY InvInit, InvStep, PTL DEF Spec

-------------------------------------------------------------------------------
(* What follows from it. *)

\* Whatever goroutines, faults and restarts interleave, a row flagged uploaded
\* (MarkUploaded) is stored by the cloud.
THEOREM UplinkMarkedDelivered == Spec => []MarkedDelivered
<1>1. IInv => MarkedDelivered
  BY DEF IInv
<1>2. QED
  BY <1>1, UplinkInductive, PTL

\* Maintain and a failed or repeated upload never lose a row that is younger
\* than the retention and not yet in the cloud.
THEOREM UplinkNoUndeliveredLoss == Spec => []NoUndeliveredLoss
<1>1. IInv => NoUndeliveredLoss
  BY DEF IInv
<1>2. QED
  BY <1>1, UplinkInductive, PTL

\* A batch id is recorded exactly when its payload is inserted, and only once,
\* however often the network delivers the request (InsertEdgeBatch).
THEOREM UplinkBatchAppliedOnce == Spec => []BatchAppliedOnce
<1>1. IInv => BatchAppliedOnce
  BY DEF IInv
<1>2. QED
  BY <1>1, UplinkInductive, PTL

\* Of each table, the cloud never has a row while an older one still waits in
\* the box, for every batch size and every retry (sendOneBatch).
THEOREM UplinkOldestFirst == Spec => []OldestFirst
<1>1. IInv => OldestFirst
  BY DEF IInv
<1>2. QED
  BY <1>1, UplinkInductive, PTL

-------------------------------------------------------------------------------
(* The device implements EdgeDelivery. *)

LEMMA RefInit == Init => Promised!AInit
BY DEF Init, Promised!AInit, Delivered

\* A step that leaves the rows, the cloud and the horizon alone is a stutter.
LEMMA RefStutter ==
  UNCHANGED <<box, written, horizon, stored>> => UNCHANGED Promised!avars
BY DEF Promised!avars, Delivered

LEMMA RefInsert ==
  ASSUME IInv, NEW t \in Tables, Insert(t), UNCHANGED <<horizon, stored>>
  PROVE  Promised!Accept
<1> DEFINE row == [table |-> t, id |-> nextId[t], ts |-> Clock]
<1>1. box' = box \cup {row} /\ written' = written \cup {row}
  BY DEF Insert
<1>2. row \in Row
  BY Sizes DEF IInv, TypeOK, Row
<1>3. row \notin written
  BY Sizes DEF IInv, Strengthening, RowsUnique
<1>4. Delivered' = Delivered
  BY DEF Delivered
<1>5. QED
  BY <1>1, <1>2, <1>3, <1>4 DEF Promised!Accept

LEMMA RefCloud ==
  ASSUME IInv, NEW req \in net, CloudReceives(req)
  PROVE  Promised!Deliver
<1>1. UNCHANGED <<box, written, horizon>>
  BY DEF CloudReceives, boxVars
<1>2. req \in Request /\ req.rows \subseteq written /\ Delivered \subseteq written
  BY DEF IInv, TypeOK, Strengthening, RowsKnown
<1>3. Delivered \subseteq Delivered' /\ Delivered' \subseteq written
  <2>1. CASE req.id \in ledger
    BY <1>2, <2>1 DEF CloudReceives, Ingest, cloudVars, Delivered
  <2>2. CASE req.id \notin ledger
    <3>1. stored' = Append(stored, req)
      BY <2>2 DEF CloudReceives, Ingest
    <3>2. Delivered' = Delivered \cup req.rows
      BY <1>2, <3>1, AppendStored DEF IInv
    <3>3. QED
      BY <1>2, <3>2
  <2>3. QED
    BY <2>1, <2>2
<1>4. QED
  BY <1>1, <1>3 DEF Promised!Deliver

\* A DELETE is justified by the horizon or, in the disk guard, by the flag.
LEMMA RefMaintenance ==
  ASSUME IInv, Maintenance
  PROVE  Promised!Forget \/ UNCHANGED Promised!avars
<1> USE DEF maintVars, cloudVars, upVars
<1>1. ASSUME NEW D, Delete(D), UNCHANGED <<horizon, stored>>,
             \A r \in D : r \in Delivered \/ r.ts < horizon
      PROVE  Promised!Forget
  <2>1. box' = box \ D /\ written' = written /\ Delivered' = Delivered
    BY <1>1 DEF Delete, Delivered
  <2>2. QED
    BY <1>1, <2>1 DEF Promised!Forget
<1>2. CASE RetentionChunk
  <2> DEFINE old == {r \in box : r.table = Head(maint.order) /\ r.ts < maint.cutoff}
  <2>1. PICK D \in SUBSET old : Delete(D)
    BY <1>2 DEF RetentionChunk
  <2>2. \A r \in D : r \in box /\ r.ts < maint.cutoff
    BY <2>1
  <2>3. \A r \in D : r.ts < horizon
    BY <2>2 DEF IInv, TypeOK, Row, MaintState, Strengthening
  <2>4. QED
    BY <1>1, <1>2, <2>1, <2>3 DEF RetentionChunk
<1>3. CASE GuardChunk
  <2> DEFINE D == Oldest({r \in marked : r.table = Head(maint.order)}, MaintainChunk)
  <2>1. Delete(D)
    BY <1>3 DEF GuardChunk
  <2>2. \A r \in D : r \in Delivered
    BY DEF Oldest, IInv, MarkedDelivered
  <2>3. QED
    BY <1>1, <1>3, <2>1, <2>2 DEF GuardChunk
<1>4. CASE StartMaintain \/ CheckDisk \/ EndMaintain
  BY <1>4, RefStutter DEF StartMaintain, CheckDisk, EndMaintain, boxVars
<1>5. QED
  BY <1>2, <1>3, <1>4 DEF Maintenance

LEMMA RefStep == IInv /\ [Next]_vars => [Promised!ANext]_(Promised!avars)
<1> SUFFICES ASSUME IInv, [Next]_vars
             PROVE  Promised!ANext \/ UNCHANGED Promised!avars
  OBVIOUS
<1> USE DEF boxVars, maintVars, cloudVars, upVars
<1>1. CASE CoreLoop
  <2>1. ASSUME NEW t \in Tables, WriteRow(t) PROVE Promised!Accept
    BY <2>1, RefInsert DEF WriteRow
  <2>2. ASSUME DrainEvent PROVE Promised!Accept \/ UNCHANGED Promised!avars
    BY <2>2, RefInsert, RefStutter DEF DrainEvent, Tables
  <2>3. QED
    BY <1>1, <2>1, <2>2 DEF CoreLoop, Promised!ANext
<1>2. CASE Uplink \/ CallFails
  <2>1. UNCHANGED <<box, written, horizon, stored>>
    BY <1>2 DEF Uplink, ReadEvents, ReadDecisions, ReadTicks, NothingToSend, SendBatch,
       ReceiveAck, MarkEvents, MarkDecisions, MarkTicks, MarkStep, CountBacklog,
       EmitEvent, Timeout, AttemptFails, BackoffElapsed, CallFails
  <2>2. QED
    BY <2>1, RefStutter
<1>3. CASE Network
  <2>1. ASSUME NEW req \in net, CloudReceives(req) PROVE Promised!Deliver
    BY <2>1, RefCloud
  <2>2. CASE RequestLost \/ AnswerLost
    BY <2>2, RefStutter DEF RequestLost, AnswerLost
  <2>3. QED
    BY <1>3, <2>1, <2>2 DEF Network, Promised!ANext
<1>4. CASE Maintenance
  BY <1>4, RefMaintenance DEF Promised!ANext
<1>5. CASE Restart \/ UNCHANGED vars
  BY <1>5, RefStutter DEF Restart, vars
<1>6. CASE Age
  <2>1. Delivered' = Delivered /\ UNCHANGED <<box, written>>
    BY <1>6 DEF Age, Delivered
  <2>2. horizon' \in Nat /\ horizon' > horizon
    BY <1>6 DEF Age, IInv, TypeOK
  <2>3. QED
    BY <2>1, <2>2 DEF Promised!ANext, Promised!Expire
<1>7. QED
  BY <1>1, <1>2, <1>3, <1>4, <1>5, <1>6 DEF Next

\* Every behaviour of the device, its cloud and the network keeps the promise
\* of EdgeDelivery: rows are only forgotten once delivered or expired, and
\* the cloud only ever holds rows the device accepted.
THEOREM UplinkImplementsDelivery == Spec => Promise
<1>1. Spec => []IInv
  BY UplinkInductive
<1>2. QED
  BY <1>1, RefInit, RefStep, PTL DEF Spec, Promise, Promised!ASpec

===============================================================================
