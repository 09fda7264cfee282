-------------------------- MODULE AlertWatchdogProofs --------------------------
(***************************************************************************)
(* Theorems of AlertWatchdog for every set of devices and recipient lists, *)
(* every threshold and every length of a pass, and of CounterAlerts for    *)
(* every set of counters.                                                  *)
(*                                                                         *)
(* What the saved rows say of the mails is not inductive: between the      *)
(* evaluation and the transaction the truth is in next, events and unsent. *)
(* PassInv says how these relate to the row they were computed from,       *)
(* OnceInv and ReachInv carry the counted and the failed mails over a      *)
(* pass.  For the mails about counters the truth is in the episodes of     *)
(* the pass: CountersInv below relates them to the marked columns.         *)
(***************************************************************************)
EXTENDS AlertWatchdog, CounterAlerts, TLAPS

Announced(row) == row.state = "down" /\ row.announced

\* A reminder is due.
Due(row) == RepeatInterval > 0 /\ row.age >= RepeatInterval

\* The list of the device has been mailed in this pass, or its mail refused.
Mailed(d) == events[d] # "none" /\ ListOf[d] \notin unsent

\* What Evaluate concluded, against the row it started from.
PassInv(d) ==
  /\ pc # "send" => events[d] = "none"
  /\ pc = "send" /\ events[d] = "none" =>
       next[d] = rec[d] \/ (next[d].state = "ok" /\ ~next[d].announced)
  /\ events[d] = "down" => next[d].state = "down" /\ ~Announced(rec[d])
  /\ events[d] = "reminder" => Announced(next[d]) /\ Announced(rec[d]) /\ Due(rec[d])
  /\ events[d] = "recovered" => next[d].state = "ok" /\ NotifyRecovery
  /\ events[d] # "none" /\ ListOf[d] \in unsent => next[d].announced

\* A mail about an outage is known to its row, or to the pass that sent it,
\* or excused.
OnceInv(d) ==
  /\ downMails[d] > 1 => excused[d]
  /\ downMails[d] > 0 /\ ~excused[d] =>
       \/ Announced(rec[d])
       \/ events[d] = "down" /\ Mailed(d) /\ next[d].announced

\* Without recovery mails a notification time belongs to the outage at hand.
\* A failed mail leaves, in the row and in what will replace it, something
\* that makes the next pass send it again.
ReachInv(d) ==
  /\ rec[d].announced => rec[d].state = "down" /\ told[d]
  /\ owed[d] # "none" => ~rec[d].announced \/ Due(rec[d])
  /\ owed[d] # "recovered"
  /\ Mailed(d) /\ next[d].announced => told[d]
  /\ Mailed(d) /\ owed[d] # "none" => ~next[d].announced \/ Due(next[d])

AlertInv == \A d \in Devices : PassInv(d) /\ OnceInv(d)

-------------------------------------------------------------------------------
(* Types. *)

LEMMA CapsAreNat == SilenceCap \in Nat /\ AgeCap \in Nat /\ MaxPass <= AgeCap
BY WatchdogAssumption DEF WatchdogAssumption, SilenceCap, AgeCap

LEMMA AlertTypeInit == Init => TypeOK
BY WatchdogAssumption, CapsAreNat DEF WatchdogAssumption, Init, TypeOK, AlertRow, NoRow, Kinds

\* A row that ages stays a row; only an announced one ages.
LEMMA OlderRows ==
  ASSUME NEW rows \in [Devices -> AlertRow]
  PROVE /\ Older(rows) \in [Devices -> AlertRow]
        /\ \A d \in Devices :
             /\ Older(rows)[d].state = rows[d].state
             /\ Older(rows)[d].announced = rows[d].announced
             /\ Due(rows[d]) => Due(Older(rows)[d])
BY WatchdogAssumption, CapsAreNat DEF WatchdogAssumption, Older, AtMost, AlertRow, AgeCap, Due

LEMMA NextRowType ==
  ASSUME NEW row \in AlertRow, NEW isDown \in BOOLEAN, NEW since \in 0..MaxPass
  PROVE NextRow(row, isDown, since) \in AlertRow /\ EventOf(row, isDown, since) \in Kinds
BY WatchdogAssumption, CapsAreNat DEF WatchdogAssumption, NextRow, EventOf, AlertRow, Kinds

\* The rollback touches the batch's notification marks and nothing else.
LEMMA RevertedRows ==
  ASSUME TypeOK, NEW l \in Lists
  PROVE /\ RevertNotifications(l) \in [Devices -> AlertRow]
        /\ \A d \in Devices :
             /\ RevertNotifications(l)[d].state = next[d].state
             /\ ~InBatch(d, l) => RevertNotifications(l)[d] = next[d]
             /\ InBatch(d, l) =>
                  /\ RevertNotifications(l)[d].announced = rec[d].announced
                  /\ RevertNotifications(l)[d].age = rec[d].age
<1>1. ASSUME NEW a \in AlertRow, NEW b \in AlertRow
      PROVE  LET r == [a EXCEPT !.announced = b.announced, !.age = b.age]
             IN  /\ r \in AlertRow /\ r.state = a.state
                 /\ r.announced = b.announced /\ r.age = b.age
  BY <1>1 DEF AlertRow
<1>2. \A d \in Devices : next[d] \in AlertRow /\ rec[d] \in AlertRow
  BY DEF TypeOK
<1> DEFINE r(d) == [next[d] EXCEPT !.announced = rec[d].announced, !.age = rec[d].age]
<1>3. \A d \in Devices : /\ r(d) \in AlertRow /\ r(d).state = next[d].state
                         /\ r(d).announced = rec[d].announced /\ r(d).age = rec[d].age
  BY <1>1, <1>2
<1>4. RevertNotifications(l) = [d \in Devices |-> IF InBatch(d, l) THEN r(d) ELSE next[d]]
  BY DEF RevertNotifications
<1> HIDE DEF r
<1> QED
  BY <1>2, <1>3, <1>4

\* A mail adds to what its readers know and count, and only about its batch.
LEMMA DeliveredTypes ==
  ASSUME TypeOK, NEW l \in Lists, Delivered(l)
  PROVE told' \in [Devices -> BOOLEAN] /\ downMails' \in [Devices -> 0..2]
<1>1. told' \in [Devices -> BOOLEAN]
  BY Zenon DEF TypeOK, Delivered
<1>2. downMails' \in [Devices -> 0..2]
  BY DEF TypeOK, Delivered, AtMost
<1> QED
  BY <1>1, <1>2

LEMMA AlertTypeStep == TypeOK /\ [Next]_vars => TypeOK'
<1> SUFFICES ASSUME TypeOK, [Next]_vars PROVE TypeOK'
  OBVIOUS
<1> USE WatchdogAssumption, CapsAreNat DEF WatchdogAssumption, TypeOK
<1>1. CASE \E d \in Devices : Sample(d)
  BY <1>1 DEF Sample, passVars, mailVars
<1>2. CASE \E d \in Devices : ToggleMute(d)
  BY <1>2 DEF ToggleMute, passVars, mailVars
<1>3. CASE ToggleSteady
  BY <1>3 DEF ToggleSteady, passVars, mailVars
<1>4. CASE Tick
  <2>1. rec' \in [Devices -> AlertRow] /\ next' \in [Devices -> AlertRow]
    BY <1>4, OlderRows DEF Tick
  <2>2. silence' \in [Devices -> 0..SilenceCap] /\ elapsed' \in 0..MaxPass
    BY <1>4 DEF Tick, AtMost
  <2> QED
    BY <1>4, <2>1, <2>2 DEF Tick, mailVars
<1>5. CASE StartPass
  BY <1>5 DEF StartPass, worldVars, mailVars
<1>6. CASE \E d \in Devices : Probe(d)
  BY <1>6 DEF Probe, worldVars, mailVars
<1>7. CASE Evaluate
  <2>1. next' \in [Devices -> AlertRow] /\ events' \in [Devices -> Kinds]
    BY <1>7, NextRowType DEF Evaluate, Kinds
  <2>2. unsent' \subseteq Lists
    BY <1>7 DEF Evaluate
  <2> QED
    BY <1>7, <2>1, <2>2 DEF Evaluate, worldVars, mailVars
<1>8. CASE \E l \in Lists : SendOK(l)
  BY <1>8, DeliveredTypes DEF SendOK, worldVars, Kinds
<1>9. CASE \E l \in Lists : SendFails(l)
  <2> PICK l \in Lists : SendFails(l)
    BY <1>9
  <2>1. next' \in [Devices -> AlertRow]
    BY RevertedRows DEF SendFails
  <2>2. told' \in [Devices -> BOOLEAN] /\ downMails' \in [Devices -> 0..2]
    BY DeliveredTypes DEF SendFails
  <2>3. excused' \in [Devices -> BOOLEAN]
    BY Zenon DEF SendFails
  <2> QED
    BY <2>1, <2>2, <2>3 DEF SendFails, worldVars
<1>10. CASE Save
  BY <1>10 DEF Save, EndPass, worldVars, AlertRow, NoRow, Kinds
<1>11. CASE Abandon
  BY <1>11 DEF Abandon, EndPass, worldVars, AlertRow, NoRow, Kinds
<1>12. CASE UNCHANGED vars
  BY <1>12 DEF vars, worldVars, passVars, mailVars
<1> QED
  BY <1>1, <1>2, <1>3, <1>4, <1>5, <1>6, <1>7, <1>8, <1>9, <1>10, <1>11, <1>12
     DEF Next, World, Pass
-------------------------------------------------------------------------------
(* One pass, and what it counts. *)

LEMMA AlertInit == Init => AlertInv
<1> SUFFICES ASSUME Init, NEW d \in Devices PROVE PassInv(d) /\ OnceInv(d)
  BY DEF AlertInv
<1>1. events[d] = "none" /\ downMails[d] = 0 /\ pc = "idle"
  BY DEF Init
<1> QED
  BY <1>1 DEF PassInv, OnceInv

\* Every list with an event is still to be mailed when the mails begin.
LEMMA AllUnsent == Evaluate => \A d \in Devices : events'[d] # "none" => ListOf[d] \in unsent'
BY DEF Evaluate

LEMMA PassStep ==
  ASSUME TypeOK, [Next]_vars, NEW d \in Devices, PassInv(d)
  PROVE PassInv(d)'
<1> USE DEF PassInv, Announced
<1>1. CASE \/ \E e \in Devices : Sample(e) \/ ToggleMute(e) \/ Probe(e)
           \/ ToggleSteady \/ UNCHANGED vars
  BY <1>1 DEF Sample, ToggleMute, Probe, ToggleSteady, vars, worldVars, passVars, mailVars
<1>2. CASE Tick
  <2>1. rec[d] = next[d] => rec'[d] = next'[d]
    BY <1>2 DEF Tick, Older
  <2>2. /\ rec'[d].state = rec[d].state /\ rec'[d].announced = rec[d].announced
        /\ next'[d].state = next[d].state /\ next'[d].announced = next[d].announced
        /\ Due(rec[d]) => Due(rec'[d])
    BY <1>2, OlderRows DEF Tick, TypeOK
  <2> QED
    BY <1>2, <2>1, <2>2 DEF Tick, mailVars
<1>3. CASE StartPass
  BY <1>3 DEF StartPass, worldVars, mailVars
<1>4. CASE Evaluate
  BY <1>4, AllUnsent, WatchdogAssumption
     DEF Evaluate, EventOf, NextRow, TypeOK, AlertRow, worldVars, mailVars, Due, WatchdogAssumption
<1>5. CASE \E l \in Lists : SendOK(l)
  BY <1>5 DEF SendOK, worldVars
<1>6. CASE \E l \in Lists : SendFails(l)
  BY <1>6, RevertedRows DEF SendFails, InBatch, worldVars
<1>7. CASE Save
  BY <1>7 DEF Save, EndPass, worldVars
<1>8. CASE Abandon
  BY <1>8 DEF Abandon, EndPass, worldVars
<1> QED
  BY <1>1, <1>2, <1>3, <1>4, <1>5, <1>6, <1>7, <1>8 DEF Next, World, Pass

\* A delivery counts the batch's first mails, once each.
LEMMA DeliveredCounts ==
  ASSUME TypeOK, NEW l \in Lists, Delivered(l), NEW d \in Devices
  PROVE /\ InBatch(d, l) /\ events[d] = "down" =>
             downMails'[d] > 0 /\ (downMails[d] = 0 => downMails'[d] = 1)
        /\ ~(InBatch(d, l) /\ events[d] = "down") => downMails'[d] = downMails[d]
        /\ InBatch(d, l) /\ events[d] # "recovered" => told'[d]
        /\ told[d] => told'[d]
<1>1. downMails[d] \in 0..2
  BY DEF TypeOK
<1>2. downMails'[d] = IF InBatch(d, l) /\ events[d] = "down"
                      THEN AtMost(downMails[d] + 1, 2) ELSE downMails[d]
  BY DEF Delivered
<1>3. told'[d] = IF InBatch(d, l) /\ events[d] # "recovered" THEN TRUE ELSE told[d]
  BY DEF Delivered
<1> QED
  BY <1>1, <1>2, <1>3 DEF AtMost

LEMMA OnceStep ==
  ASSUME TypeOK, [Next]_vars, NEW d \in Devices, PassInv(d), OnceInv(d)
  PROVE OnceInv(d)'
<1> USE DEF OnceInv, Announced, Mailed
<1>1. CASE \/ \E e \in Devices : Sample(e) \/ ToggleMute(e) \/ Probe(e)
           \/ ToggleSteady \/ UNCHANGED vars
  BY <1>1 DEF Sample, ToggleMute, Probe, ToggleSteady, vars, worldVars, passVars, mailVars
<1>2. CASE Tick
  BY <1>2, OlderRows DEF Tick, TypeOK, mailVars
<1>3. CASE StartPass \/ Evaluate
  BY <1>3 DEF StartPass, Evaluate, PassInv, worldVars, mailVars
<1>4. ASSUME NEW l \in Lists, SendOK(l) PROVE OnceInv(d)'
  <2>1. downMails[d] \in 0..2
    BY DEF TypeOK
  <2>2. CASE InBatch(d, l) /\ events[d] = "down"
    BY <1>4, <2>1, <2>2, DeliveredCounts DEF SendOK, InBatch, PassInv, worldVars
  <2>3. CASE ~(InBatch(d, l) /\ events[d] = "down")
    BY <1>4, <2>3, DeliveredCounts DEF SendOK, worldVars
  <2> QED
    BY <2>2, <2>3
<1>5. ASSUME NEW l \in Lists, SendFails(l) PROVE OnceInv(d)'
  <2>1. CASE InBatch(d, l)
    BY <1>5, <2>1 DEF SendFails, InBatch, PassInv, TypeOK, worldVars
  <2>2. CASE ~InBatch(d, l)
    <3>1. next'[d] = next[d] /\ (Mailed(d) => Mailed(d)')
      BY <1>5, RevertedRows, <2>2 DEF SendFails
    <3>2. downMails'[d] = downMails[d]
      BY <1>5, DeliveredCounts, <2>2 DEF SendFails
    <3> QED
      BY <1>5, <3>1, <3>2 DEF SendFails, worldVars
  <2> QED
    BY <2>1, <2>2
<1>6. CASE Save
  <2>1. CASE next[d].state = "down"
    <3>1. downMails'[d] = downMails[d] /\ (excused[d] => excused'[d]) /\ rec' = next
      BY <1>6, <2>1 DEF Save
    <3>2. Announced(rec[d]) \/ (events[d] = "down" /\ next[d].announced) => Announced(next[d])
      BY <1>6, <2>1 DEF PassInv, Save, TypeOK, Kinds
    <3> QED
      BY <3>1, <3>2
  <2>2. CASE next[d].state # "down"
    BY <1>6, <2>2 DEF Save
  <2> QED
    BY <2>1, <2>2
<1>7. CASE Abandon
  BY <1>7 DEF Abandon, EndPass, worldVars
<1> QED
  BY <1>1, <1>2, <1>3, <1>4, <1>5, <1>6, <1>7 DEF Next, World, Pass

-------------------------------------------------------------------------------
(* The failed mails, where recoveries are not mailed. *)

LEMMA ReachStep ==
  ASSUME ~NotifyRecovery, TypeOK, [Next]_vars, NEW d \in Devices, PassInv(d), ReachInv(d)
  PROVE ReachInv(d)'
<1> USE DEF ReachInv, Mailed
<1>1. CASE \/ \E e \in Devices : Sample(e) \/ ToggleMute(e) \/ Probe(e)
           \/ ToggleSteady \/ StartPass \/ UNCHANGED vars
  BY <1>1 DEF Sample, ToggleMute, Probe, ToggleSteady, StartPass, Due,
              vars, worldVars, passVars, mailVars
<1>2. CASE Tick
  <2>1. /\ rec'[d].state = rec[d].state /\ rec'[d].announced = rec[d].announced
        /\ next'[d].state = next[d].state /\ next'[d].announced = next[d].announced
        /\ Due(rec[d]) => Due(rec'[d])
        /\ Due(next[d]) => Due(next'[d])
    BY <1>2, OlderRows DEF Tick, TypeOK
  <2> QED
    BY <1>2, <2>1 DEF Tick, mailVars
<1>3. CASE Evaluate
  BY <1>3, AllUnsent DEF Evaluate, worldVars, mailVars
<1>4. ASSUME NEW l \in Lists, SendOK(l) PROVE ReachInv(d)'
  <2>1. CASE InBatch(d, l)
    BY <1>4, <2>1, DeliveredCounts DEF SendOK, InBatch, PassInv, worldVars
  <2>2. CASE ~InBatch(d, l)
    BY <1>4, <2>2, DeliveredCounts DEF SendOK, InBatch, worldVars
  <2> QED
    BY <2>1, <2>2
<1>5. ASSUME NEW l \in Lists, SendFails(l) PROVE ReachInv(d)'
  <2>1. told[d] => told'[d]
    BY <1>5, DeliveredCounts DEF SendFails
  <2>2. CASE InBatch(d, l)
    <3>1. owed'[d] = events[d] /\ rec' = rec /\ events' = events
      BY <1>5, <2>2 DEF SendFails, worldVars
    <3>2. next'[d].announced = rec[d].announced /\ next'[d].age = rec[d].age
      BY <1>5, <2>2, RevertedRows DEF SendFails
    <3>3. events[d] \in {"down", "reminder"}
      BY <1>5, <2>2 DEF PassInv, InBatch, TypeOK, Kinds
    <3> QED
      BY <2>1, <3>1, <3>2, <3>3 DEF PassInv, Announced, Due
  <2>3. CASE ~InBatch(d, l)
    <3>1. owed'[d] = owed[d] /\ rec' = rec /\ next'[d] = next[d] /\ (Mailed(d)' => Mailed(d))
      BY <1>5, <2>3, RevertedRows DEF SendFails, InBatch, worldVars
    <3> QED
      BY <2>1, <3>1 DEF Due
  <2> QED
    BY <2>2, <2>3
<1>6. CASE Save
  <2>1. rec' = next /\ owed' = owed /\ events'[d] = "none"
    BY <1>6 DEF Save, EndPass
  <2>2. told'[d] = (told[d] /\ next[d].state = "down")
    BY <1>6 DEF Save
  <2>3. events[d] \in {"none", "down", "reminder"}
    BY DEF PassInv, TypeOK, Kinds
  <2>4. events[d] # "none" => Mailed(d) /\ next[d].state = "down"
    BY <1>6, <2>3 DEF Save, PassInv, Announced
  <2>5. events[d] = "none" => next[d] = rec[d] \/ ~next[d].announced
    BY <1>6 DEF Save, PassInv
  <2> QED
    BY <2>1, <2>2, <2>3, <2>4, <2>5 DEF Due
<1>7. CASE Abandon
  BY <1>7 DEF Abandon, EndPass, Due, worldVars
<1> QED
  BY <1>1, <1>2, <1>3, <1>4, <1>5, <1>6, <1>7 DEF Next, World, Pass

-------------------------------------------------------------------------------

\* Every reachable state is well typed, for every threshold and pass length.
THEOREM AlertTypeCorrect == Spec => []TypeOK
BY AlertTypeInit, AlertTypeStep, PTL DEF Spec

LEMMA AlertInvariant == Spec => []AlertInv
<1>1. TypeOK /\ AlertInv /\ [Next]_vars => AlertInv'
  BY PassStep, OnceStep DEF AlertInv
<1> QED
  BY AlertInit, <1>1, AlertTypeCorrect, PTL DEF Spec

\* Whatever arrives, fails or is abandoned, an outage gets a second "connection
\* lost" mail only after one that arrived without being recorded; recovery
\* mails make no difference to this.
THEOREM AlertAnnouncedOnce == Spec => []AnnouncedOnce
<1>1. AlertInv => AnnouncedOnce
  BY DEF AlertInv, OnceInv, AnnouncedOnce
<1> QED
  BY AlertInvariant, <1>1, PTL

\* Where recoveries are not mailed, the rows and the mails agree: an outage
\* on record as announced was announced, a failed mail will be sent again,
\* and none is sent twice unless excused.
THEOREM AlertRecordsMatchMails == ~NotifyRecovery => (Spec => []RecordsMatchMails)
<1> SUFFICES ASSUME ~NotifyRecovery PROVE Spec => []RecordsMatchMails
  OBVIOUS
<1> DEFINE Inv == \A d \in Devices : ReachInv(d)
<1>1. Init => Inv
  <2> SUFFICES ASSUME Init, NEW d \in Devices PROVE ReachInv(d)
    OBVIOUS
  <2>1. ~rec[d].announced /\ owed[d] = "none" /\ events[d] = "none"
    BY DEF Init, NoRow
  <2> QED
    BY <2>1 DEF ReachInv, Mailed
<1>2. TypeOK /\ AlertInv /\ Inv /\ [Next]_vars => Inv'
  BY ReachStep DEF AlertInv
<1>3. TypeOK /\ AlertInv /\ Inv => RecordsMatchMails
  <2> SUFFICES ASSUME TypeOK, AlertInv, Inv PROVE RecordsMatchMails
    OBVIOUS
  <2>1. AnnouncedReached /\ AnnouncedOnce
    BY DEF AnnouncedReached, AnnouncedOnce, AlertInv, OnceInv, ReachInv
  <2>2. FailedMailRetried
    <3> SUFFICES ASSUME NEW d \in Devices, owed[d] # "none"
                 PROVE EventOf(rec[d], owed[d] # "recovered", 0) # "none"
      BY DEF FailedMailRetried
    <3>1. rec[d].age \in Nat /\ RepeatInterval \in Nat
      BY WatchdogAssumption, CapsAreNat DEF WatchdogAssumption, TypeOK, AlertRow
    <3>2. owed[d] # "recovered" /\ (~rec[d].announced \/ Due(rec[d]))
      BY DEF ReachInv
    <3> QED
      BY <3>1, <3>2 DEF EventOf, Due
  <2> QED
    BY <2>1, <2>2 DEF RecordsMatchMails
<1> QED
  BY <1>1, <1>2, <1>3, AlertTypeCorrect, AlertInvariant, PTL DEF Spec

-------------------------------------------------------------------------------
(* The mails about counters.  A pass works on the rows it read: OnTable says *)
(* that nobody else marks them meanwhile, so that what was announced before  *)
(* is seen when the quiet period is looked up.                               *)

Unlost(r) == <<r.c, r.s>> \notin unmarked

OnTable(e) == \E f \in table : Same(e, f) /\ f.open = e.open /\ f.close = e.close

IsEpisode(f) ==
  /\ DOMAIN f = {"c", "s", "e", "open", "close"}
  /\ f.open # Nil => f.open \in Int

EpisodesInv ==
  /\ wallNow \in Nat
  /\ \A f \in table : IsEpisode(f)
  /\ \A f, g \in table : Same(f, g) => f = g

Picked == check.left \cup check.batch

\* A fault mail of the pass keeps its distance from those of earlier passes.
Spaced(b, m) ==
  b.e = Nil /\ m.c = b.c /\ ~m.closed /\ m.at < check.now /\ Unlost(m)
    => check.now - m.at >= QuietFor

PassesInv ==
  check.at = "deciding" =>
    /\ DOMAIN check = {"at", "now", "left", "batch"}
    /\ check.now \in Nat /\ check.now <= wallNow
    /\ \A e \in Picked : /\ OnTable(e)
                         /\ e.e = Nil => e.open = Nil
                         /\ e.open # Nil => e.close = Nil
    /\ \A e, f \in Picked : Same(e, f) => e = f
    /\ check.left \cap check.batch = {}
    /\ \A m \in mailed : m.at <= check.now
    /\ \A b \in check.batch, m \in mailed : Spaced(b, m)

\* What was mailed and what was kept quiet is marked.
MailsInv ==
  /\ \A m \in mailed : m.at \in Nat /\ m.at <= wallNow
  /\ \A m \in mailed : Unlost(m) =>
       \E f \in table : Same(m, f) /\ f.open # Nil /\ (~m.closed => f.open = m.at)
  /\ \A q \in silenced : Unlost(q) =>
       \E f \in table : Same(q, f) /\ f.open # Nil /\ f.close # Nil

CountersInv == EpisodesInv /\ PassesInv /\ MailsInv /\ MailsSpacedInOrder

\* What a change of the table leaves of the marks.
MarksKept ==
  \A f \in table : f.open # Nil =>
    \E g \in table' : Same(f, g) /\ g.open = f.open /\ (f.close # Nil => g.close # Nil)

Mail(e, at) == [c |-> e.c, s |-> e.s, at |-> at, closed |-> e.e # Nil]

LEMMA MailFields ==
  ASSUME NEW e, NEW at
  PROVE /\ Mail(e, at).c = e.c /\ Mail(e, at).s = e.s /\ Mail(e, at).at = at
        /\ Mail(e, at).closed <=> e.e # Nil
<1> DEFINE closed == e.e # Nil
<1>1. \A x : LET m == [c |-> e.c, s |-> e.s, at |-> at, closed |-> x]
             IN m.c = e.c /\ m.s = e.s /\ m.at = at /\ m.closed = x
  OBVIOUS
<1>2. Mail(e, at) = [c |-> e.c, s |-> e.s, at |-> at, closed |-> closed]
  BY Zenon DEF Mail
<1> HIDE DEF closed
<1>3. /\ Mail(e, at).c = e.c /\ Mail(e, at).s = e.s /\ Mail(e, at).at = at
      /\ Mail(e, at).closed = closed
  BY <1>1, <1>2, Zenon
<1> QED
  BY <1>3, Zenon DEF closed

LEMMA EpisodeOpensTable ==
  ASSUME EpisodesInv, NEW c \in Counters, NEW s \in 0..MaxClock, EpisodeOpens(c, s)
  PROVE EpisodesInv' /\ MarksKept /\ \A x : OnTable(x) => OnTable(x)'
<1> DEFINE n == [c |-> c, s |-> s, e |-> Nil, open |-> Nil, close |-> Nil]
<1>1. table' = table \cup {n} /\ wallNow' = wallNow
  BY DEF EpisodeOpens
<1>2. \A f \in table : ~Same(f, n)
  BY DEF EpisodeOpens, Same
<1>3. IsEpisode(n) /\ n.open = Nil
  BY DEF IsEpisode
<1> HIDE DEF n
<1>4. EpisodesInv'
  BY <1>1, <1>2, <1>3 DEF EpisodesInv, Same
<1> QED
  BY <1>1, <1>4 DEF MarksKept, OnTable, Same

LEMMA EpisodeClosesTable ==
  ASSUME EpisodesInv, NEW e \in table, EpisodeCloses(e)
  PROVE EpisodesInv' /\ MarksKept /\ \A x : OnTable(x) => OnTable(x)'
<1> DEFINE n == [e EXCEPT !.e = wallNow]
<1>1. table' = (table \ {e}) \cup {n} /\ wallNow' = wallNow
  BY DEF EpisodeCloses
<1>2. IsEpisode(n) /\ Same(e, n) /\ n.open = e.open /\ n.close = e.close
  BY DEF EpisodesInv, IsEpisode, Same
<1> HIDE DEF n
<1>3. EpisodesInv'
  BY <1>1, <1>2 DEF EpisodesInv, Same
<1> QED
  BY <1>1, <1>2, <1>3 DEF MarksKept, OnTable, Same

\* The two marks of a quiet opening, or the first of them.
LEMMA MarkedTable ==
  ASSUME EpisodesInv, NEW e, OnTable(e), e.open = Nil, NEW closing \in BOOLEAN, NEW now \in Nat,
         table' = Marked(e, TRUE, closing, now), wallNow' = wallNow
  PROVE /\ EpisodesInv' /\ MarksKept
        /\ \A x : OnTable(x) /\ ~Same(x, e) => OnTable(x)'
        /\ \E g \in table' : Same(e, g) /\ g.open = now /\ (closing => g.close # Nil)
<1> DEFINE two(f) == [f EXCEPT !.open = now, !.close = IF closing THEN now ELSE @]
<1>1. now # Nil /\ now \in Int
  BY CounterAlertsAssumption DEF CounterAlertsAssumption
<1>2. ASSUME NEW f \in table
      PROVE /\ IsEpisode(two(f)) /\ Same(f, two(f)) /\ two(f).open = now
            /\ closing => two(f).close = now
  <2>1. DOMAIN f = {"c", "s", "e", "open", "close"}
    BY DEF EpisodesInv, IsEpisode
  <2>2. \A v : LET g == [f EXCEPT !.open = now, !.close = v]
               IN /\ DOMAIN g = {"c", "s", "e", "open", "close"} /\ g.open = now /\ g.close = v
                  /\ g.c = f.c /\ g.s = f.s
    BY <2>1
  <2>3. two(f) = [f EXCEPT !.open = now, !.close = IF closing THEN now ELSE f.close]
    OBVIOUS
  <2> HIDE DEF two
  <2> QED
    BY <1>1, <2>2, <2>3 DEF IsEpisode, Same
<1>3. table' = {IF ~Same(f, e) THEN f ELSE two(f) : f \in table}
  BY DEF Marked
<1> HIDE DEF two
<1>4. \A f \in table : ~Same(f, e) => f \in table'
  BY <1>3
<1>5. \A f \in table : Same(f, e) => two(f) \in table'
  BY <1>3
<1>6. \A g \in table' : \E f \in table : g = IF ~Same(f, e) THEN f ELSE two(f)
  BY <1>3
<1>7. PICK r \in table : Same(e, r) /\ r.open = Nil
  BY DEF OnTable
<1>8. EpisodesInv'
  <2>1. ASSUME NEW g \in table' PROVE IsEpisode(g)
    <3>1. PICK f \in table : g = IF ~Same(f, e) THEN f ELSE two(f)
      BY <1>6
    <3>2. IsEpisode(f) /\ IsEpisode(two(f))
      BY <1>2 DEF EpisodesInv
    <3> QED
      BY <3>1, <3>2
  <2>2. ASSUME NEW g \in table', NEW h \in table', Same(g, h) PROVE g = h
    <3>1. PICK f \in table : g = IF ~Same(f, e) THEN f ELSE two(f)
      BY <1>6
    <3>2. PICK k \in table : h = IF ~Same(k, e) THEN k ELSE two(k)
      BY <1>6
    <3>3. Same(f, g) /\ Same(k, h)
      BY <1>2, <3>1, <3>2 DEF Same
    <3>4. f = k
      BY <2>2, <3>3 DEF EpisodesInv, Same
    <3> QED
      BY <3>1, <3>2, <3>4
  <2> QED
    BY <2>1, <2>2 DEF EpisodesInv
<1>9. \A f \in table : f.open # Nil => f \in table'
  <2>1. \A f \in table : Same(f, e) => f = r
    BY <1>7 DEF EpisodesInv, Same
  <2> QED
    BY <1>4, <1>7, <2>1
<1>10. MarksKept
  BY <1>9 DEF MarksKept, Same
<1>11. \A x : OnTable(x) /\ ~Same(x, e) => OnTable(x)'
  BY <1>4 DEF OnTable, Same
<1>12. two(r) \in table' /\ Same(e, two(r)) /\ two(r).open = now /\ (closing => two(r).close # Nil)
  BY <1>1, <1>2, <1>5, <1>7 DEF Same
<1> QED
  BY <1>8, <1>10, <1>11, <1>12

\* The marks of a mailed list.
LEMMA MailedTable ==
  ASSUME EpisodesInv, PassesInv, NEW l, MailList(l)
  PROVE /\ EpisodesInv' /\ MarksKept
        /\ \A x : OnTable(x) /\ (\A e \in BatchOf(l) : ~Same(e, x)) => OnTable(x)'
        /\ \A e \in BatchOf(l) : \E g \in table' :
             Same(e, g) /\ g.open # Nil /\ (e.open = Nil => g.open = check.now)
<1> DEFINE B == BatchOf(l)
           now == check.now
           chosen(f) == CHOOSE x \in B : Same(x, f)
           two(f) == [f EXCEPT !.open = IF chosen(f).open = Nil THEN now ELSE @,
                               !.close = IF chosen(f).e # Nil THEN now ELSE @]
           hit(f) == \E e \in B : Same(e, f)
<1>0. check.at = "deciding"
  BY Zenon DEF MailList
<1>1. now # Nil /\ now \in Int
  BY <1>0, CounterAlertsAssumption DEF CounterAlertsAssumption, PassesInv
<1>2. ASSUME NEW f \in table
      PROVE /\ DOMAIN two(f) = {"c", "s", "e", "open", "close"} /\ Same(f, two(f))
            /\ two(f).open = IF chosen(f).open = Nil THEN now ELSE f.open
            /\ two(f).close = IF chosen(f).e # Nil THEN now ELSE f.close
  <2>1. DOMAIN f = {"c", "s", "e", "open", "close"}
    BY DEF EpisodesInv, IsEpisode
  <2>2. \A u, v : LET g == [f EXCEPT !.open = u, !.close = v]
                  IN /\ DOMAIN g = {"c", "s", "e", "open", "close"} /\ g.open = u /\ g.close = v
                     /\ g.c = f.c /\ g.s = f.s
    BY <2>1
  <2>3. two(f) = [f EXCEPT !.open = IF chosen(f).open = Nil THEN now ELSE f.open,
                           !.close = IF chosen(f).e # Nil THEN now ELSE f.close]
    OBVIOUS
  <2> HIDE DEF two, chosen
  <2> QED
    BY <2>2, <2>3 DEF Same
<1>3. table' = {IF hit(f) THEN two(f) ELSE f : f \in table} /\ wallNow' = wallNow
  BY DEF MailList
<1>4. \A f \in table, e \in B : Same(e, f) => chosen(f) = e
  <2>1. \A x, y \in B : Same(x, y) => x = y
    BY DEF PassesInv, MailList, Picked, BatchOf
  <2> SUFFICES ASSUME NEW f \in table, NEW e \in B, Same(e, f) PROVE chosen(f) = e
    OBVIOUS
  <2>2. chosen(f) \in B /\ Same(chosen(f), f)
    OBVIOUS
  <2> QED
    BY <2>1, <2>2 DEF Same
<1>5. \A e \in B : OnTable(e) /\ (e.open # Nil => e.close = Nil)
  BY DEF PassesInv, MailList, Picked, BatchOf
<1> HIDE DEF two, chosen
<1>6. \A f \in table : hit(f) => two(f) \in table'
  BY <1>3
<1>7. \A f \in table : ~hit(f) => f \in table'
  BY <1>3
<1>8. \A g \in table' : \E f \in table : g = IF hit(f) THEN two(f) ELSE f
  BY <1>3
\* a mailed row still has the marks it was read with
<1>9. ASSUME NEW f \in table, NEW e \in B, Same(e, f)
      PROVE chosen(f) = e /\ f.open = e.open /\ f.close = e.close
  <2>1. PICK r \in table : Same(e, r) /\ r.open = e.open /\ r.close = e.close
    BY <1>5 DEF OnTable
  <2>2. r = f
    BY <1>9, <2>1 DEF EpisodesInv, Same
  <2> QED
    BY <1>4, <1>9, <2>1, <2>2
<1>10. EpisodesInv'
  <2>1. ASSUME NEW g \in table' PROVE IsEpisode(g)
    <3>1. PICK f \in table : g = IF hit(f) THEN two(f) ELSE f
      BY <1>8
    <3>2. IsEpisode(f)
      BY DEF EpisodesInv
    <3>3. IsEpisode(two(f))
      BY <1>1, <1>2, <3>2 DEF IsEpisode
    <3> QED
      BY <3>1, <3>2, <3>3
  <2>2. ASSUME NEW g \in table', NEW h \in table', Same(g, h) PROVE g = h
    <3>1. PICK f \in table : g = IF hit(f) THEN two(f) ELSE f
      BY <1>8
    <3>2. PICK k \in table : h = IF hit(k) THEN two(k) ELSE k
      BY <1>8
    <3> HIDE DEF hit
    <3>3. Same(f, g) /\ Same(k, h)
      BY <1>2, <3>1, <3>2 DEF Same
    <3>4. f = k
      BY <2>2, <3>3 DEF EpisodesInv, Same
    <3> QED
      BY <3>1, <3>2, <3>4
  <2> QED
    BY <1>3, <2>1, <2>2 DEF EpisodesInv
<1>11. MarksKept
  <2> SUFFICES ASSUME NEW f \in table, f.open # Nil
               PROVE \E g \in table' : Same(f, g) /\ g.open = f.open /\ (f.close # Nil => g.close # Nil)
    BY DEF MarksKept
  <2>1. CASE ~hit(f)
    BY <1>7, <2>1 DEF Same
  <2>2. CASE hit(f)
    <3>1. PICK e \in B : Same(e, f)
      BY <2>2
    <3>2. Same(f, two(f)) /\ two(f).open = f.open /\ (f.close # Nil => two(f).close # Nil)
      BY <1>1, <1>2, <1>9, <3>1
    <3> QED
      BY <1>6, <2>2, <3>2
  <2> QED
    BY <2>1, <2>2
<1>12. ASSUME NEW x, OnTable(x), \A e \in B : ~Same(e, x) PROVE OnTable(x)'
  <2>1. PICK f \in table : Same(x, f) /\ f.open = x.open /\ f.close = x.close
    BY <1>12 DEF OnTable
  <2>2. ~hit(f)
    BY <1>12, <2>1 DEF Same
  <2> QED
    BY <1>7, <2>1, <2>2 DEF OnTable
<1>13. ASSUME NEW e \in B
       PROVE \E g \in table' :
               Same(e, g) /\ g.open # Nil /\ (e.open = Nil => g.open = now)
  <2>1. PICK f \in table : Same(e, f) /\ f.open = e.open
    BY <1>5 DEF OnTable
  <2>2. chosen(f) = e /\ hit(f)
    BY <1>9, <2>1
  <2>3. Same(e, two(f)) /\ two(f).open # Nil /\ (e.open = Nil => two(f).open = now)
    BY <1>1, <1>2, <2>1, <2>2 DEF Same
  <2> QED
    BY <1>6, <2>2, <2>3
<1> QED
  BY <1>10, <1>11, <1>12, <1>13

LEMMA CountersInitially == CounterAlertsInit => CountersInv
<1> SUFFICES ASSUME CounterAlertsInit PROVE CountersInv
  OBVIOUS
<1>1. check.at # "deciding"
  BY DEF CounterAlertsInit, NoCheck
<1>2. EpisodesInv /\ MailsInv
  BY DEF CounterAlertsInit, EpisodesInv, MailsInv
<1>3. MailsSpacedInOrder
  BY DEF CounterAlertsInit, MailsSpacedInOrder, FaultMailsSpaced, RecoveryOnlyOfMailed, Faulty
<1> QED
  BY <1>1, <1>2, <1>3 DEF CountersInv, PassesInv

\* Old mails stay marked while the table keeps its marks.
LEMMA OldMailsMarked ==
  ASSUME EpisodesInv, EpisodesInv', MailsInv, MarksKept, wallNow <= wallNow',
         unmarked \subseteq unmarked'
  PROVE /\ \A m \in mailed : m.at \in Nat /\ m.at <= wallNow'
        /\ \A m \in mailed : Unlost(m)' =>
             \E f \in table' : Same(m, f) /\ f.open # Nil /\ (~m.closed => f.open = m.at)
        /\ \A q \in silenced : Unlost(q)' =>
             \E f \in table' : Same(q, f) /\ f.open # Nil /\ f.close # Nil
<1>1. \A m : Unlost(m)' => Unlost(m)
  BY DEF Unlost
<1>2. ASSUME NEW m \in mailed PROVE m.at \in Nat /\ m.at <= wallNow'
  BY DEF MailsInv, EpisodesInv
<1>3. ASSUME NEW m \in mailed, Unlost(m)'
      PROVE \E f \in table' : Same(m, f) /\ f.open # Nil /\ (~m.closed => f.open = m.at)
  <2>1. PICK f \in table : Same(m, f) /\ f.open # Nil /\ (~m.closed => f.open = m.at)
    BY <1>1, <1>3, Zenon DEF MailsInv
  <2>2. PICK g \in table' : Same(f, g) /\ g.open = f.open
    BY <2>1, Zenon DEF MarksKept
  <2> QED
    BY <2>1, <2>2, Zenon DEF Same
<1>4. ASSUME NEW q \in silenced, Unlost(q)'
      PROVE \E f \in table' : Same(q, f) /\ f.open # Nil /\ f.close # Nil
  <2>1. PICK f \in table : Same(q, f) /\ f.open # Nil /\ f.close # Nil
    BY <1>1, <1>4, Zenon DEF MailsInv
  <2>2. PICK g \in table' : Same(f, g) /\ g.open = f.open /\ g.close # Nil
    BY <2>1, Zenon DEF MarksKept
  <2> QED
    BY <2>1, <2>2, Zenon DEF Same
<1> QED
  BY <1>2, <1>3, <1>4

\* The stitcher and the clock: no pass moves.
LEMMA StitcherKeeps ==
  ASSUME CountersInv, EpisodesInv', MarksKept, \A x : OnTable(x) => OnTable(x)',
         wallNow <= wallNow', UNCHANGED <<check, mailed, silenced, unmarked>>
  PROVE CountersInv'
<1>1. MailsInv'
  <2>1. /\ mailed' = mailed /\ silenced' = silenced
        /\ \A m : Unlost(m)' <=> Unlost(m)
    BY DEF Unlost
  <2> QED
    BY <2>1, OldMailsMarked, Zenon DEF MailsInv, CountersInv
<1>2. PassesInv'
  <2> SUFFICES ASSUME check.at = "deciding" PROVE PassesInv'
    BY DEF PassesInv
  <2>1. check.now <= wallNow'
    BY DEF CountersInv, PassesInv, EpisodesInv
  <2>2. Picked' = Picked /\ \A b, m : Spaced(b, m)' <=> Spaced(b, m)
    BY Zenon DEF Picked, Spaced, Unlost
  <2> QED
    BY <2>1, <2>2, Zenon DEF CountersInv, PassesInv
<1>3. MailsSpacedInOrder'
  BY Zenon DEF CountersInv, MailsSpacedInOrder, FaultMailsSpaced, RecoveryOnlyOfMailed, Faulty
<1> QED
  BY <1>1, <1>2, <1>3 DEF CountersInv

LEMMA PassBegins ==
  ASSUME CountersInv, CheckBegins
  PROVE CountersInv'
<1>1. /\ UNCHANGED <<wallNow, table, faults, mailed, silenced, unmarked>>
      /\ check' = [at |-> "deciding", now |-> wallNow, left |-> ToNotify(wallNow), batch |-> {}]
  BY DEF CheckBegins
<1>2. /\ DOMAIN check' = {"at", "now", "left", "batch"} /\ check'.now = wallNow
      /\ check'.left = ToNotify(wallNow) /\ check'.batch = {}
  BY <1>1
<1>3. EpisodesInv' /\ MailsInv' /\ MailsSpacedInOrder'
  BY <1>1, Zenon DEF CountersInv, EpisodesInv, MailsInv, Unlost, MailsSpacedInOrder, FaultMailsSpaced,
     RecoveryOnlyOfMailed, Faulty, IsEpisode
<1>4. \A e \in ToNotify(wallNow) :
        /\ e \in table /\ OnTable(e)' /\ (e.e = Nil => e.open = Nil) /\ (e.open # Nil => e.close = Nil)
  BY <1>1 DEF ToNotify, OnTable, Same
<1>5. \A e, f \in ToNotify(wallNow) : Same(e, f) => e = f
  BY <1>4 DEF CountersInv, EpisodesInv
<1>6. \A m \in mailed' : m.at <= wallNow
  BY <1>1 DEF CountersInv, MailsInv
<1>7. PassesInv'
  BY <1>1, <1>2, <1>4, <1>5, <1>6 DEF PassesInv, Picked, CountersInv, EpisodesInv
<1> QED
  BY <1>3, <1>7 DEF CountersInv

LEMMA NoPass == check' = NoCheck => PassesInv'
BY DEF NoCheck, PassesInv

\* Mails of the batch: those of earlier passes are far enough, and none was
\* kept quiet.
LEMMA MailsAdded ==
  ASSUME CountersInv, check.at = "deciding", NEW B \in SUBSET check.batch,
         mailed' = mailed \cup {Mail(e, check.now) : e \in B},
         silenced' = silenced, unmarked \subseteq unmarked'
  PROVE MailsSpacedInOrder'
<1>1. \A m : Unlost(m)' => Unlost(m)
  BY DEF Unlost
<1>2. check.now \in Nat /\ \A m \in mailed : m.at \in Nat /\ m.at <= check.now
  BY DEF CountersInv, PassesInv, MailsInv
<1>3. ASSUME NEW c \in Counters, NEW m \in mailed', NEW n \in mailed', m.c = c, n.c = c,
             ~m.closed, ~n.closed, m.at < n.at, Unlost(m)'
      PROVE n.at - m.at >= QuietFor
  <2>1. m \in mailed
    <3>1. ASSUME NEW e \in B, m = Mail(e, check.now) PROVE FALSE
      <4>1. m.at = check.now
        BY <3>1, MailFields
      <4>2. n.at <= check.now /\ n.at \in Nat
        BY <1>2, MailFields
      <4> QED
        BY <1>2, <1>3, <4>1, <4>2
    <3> QED
      BY <3>1
  <2>2. CASE n \in mailed
    BY <1>1, <1>3, <2>1, <2>2, Zenon
       DEF CountersInv, MailsSpacedInOrder, FaultMailsSpaced, Faulty, Unlost
  <2>3. ASSUME NEW e \in B, n = Mail(e, check.now) PROVE n.at - m.at >= QuietFor
    <3>1. n.at = check.now /\ e.c = c /\ e.e = Nil
      BY <1>3, <2>3, MailFields
    <3>2. Spaced(e, m)
      BY <2>1 DEF CountersInv, PassesInv
    <3> QED
      BY <1>1, <1>3, <3>1, <3>2 DEF Spaced
  <2> QED
    BY <2>2, <2>3
<1>4. FaultMailsSpaced'
  BY <1>3, Zenon DEF FaultMailsSpaced, Faulty, Unlost
<1>5. ASSUME NEW m \in mailed', m.closed, Unlost(m)', NEW q \in silenced, q.c = m.c, q.s = m.s
      PROVE FALSE
  <2>1. CASE m \in mailed
    BY <1>1, <1>5, <2>1, Zenon
       DEF CountersInv, MailsSpacedInOrder, RecoveryOnlyOfMailed, Unlost
  <2>2. ASSUME NEW e \in B, m = Mail(e, check.now) PROVE FALSE
    <3>1. e.c = q.c /\ e.s = q.s
      BY <1>5, <2>2, MailFields
    <3>2. Unlost(q)
      BY <1>1, <1>5 DEF Unlost
    <3>3. PICK f \in table : Same(q, f) /\ f.open # Nil /\ f.close # Nil
      BY <3>2, Zenon DEF CountersInv, MailsInv
    <3>4. OnTable(e) /\ (e.open # Nil => e.close = Nil)
      BY DEF CountersInv, PassesInv, Picked
    <3>5. PICK r \in table : Same(e, r) /\ r.open = e.open /\ r.close = e.close
      BY <3>4 DEF OnTable
    <3>6. r = f
      BY <3>1, <3>3, <3>5 DEF Same, CountersInv, EpisodesInv
    <3> QED
      BY <3>3, <3>4, <3>5, <3>6
  <2> QED
    BY <2>1, <2>2
<1>6. RecoveryOnlyOfMailed'
  BY <1>5, Zenon DEF RecoveryOnlyOfMailed, Unlost
<1> QED
  BY <1>4, <1>6 DEF MailsSpacedInOrder

LEMMA MailListKeeps ==
  ASSUME CountersInv, NEW l, MailList(l)
  PROVE CountersInv'
<1> DEFINE B == BatchOf(l)
<1>1. /\ check.at = "deciding" /\ check.left = {}
      /\ mailed' = mailed \cup {Mail(e, check.now) : e \in B}
      /\ check' = [check EXCEPT !.batch = @ \ B]
      /\ UNCHANGED <<wallNow, faults, silenced, unmarked>>
  BY Zenon DEF MailList, Mail
<1>2. /\ DOMAIN check' = {"at", "now", "left", "batch"} /\ check'.now = check.now
      /\ check'.left = check.left /\ check'.batch = check.batch \ B
  BY <1>1 DEF CountersInv, PassesInv
<1>3. /\ EpisodesInv' /\ MarksKept
      /\ \A x : OnTable(x) /\ (\A e \in B : ~Same(e, x)) => OnTable(x)'
      /\ \A e \in B : \E g \in table' :
           Same(e, g) /\ g.open # Nil /\ (e.open = Nil => g.open = check.now)
  BY MailedTable DEF CountersInv
<1>4. B \subseteq check.batch /\ B \subseteq Picked /\ Picked' = Picked \ B
  BY <1>1, <1>2 DEF BatchOf, Picked
<1> HIDE DEF B
<1>5. check.now \in Nat /\ check.now <= wallNow' /\ wallNow \in Nat
  BY <1>1 DEF CountersInv, PassesInv, EpisodesInv
<1>6. MailsSpacedInOrder'
  BY <1>1, <1>4, MailsAdded
<1>7. MailsInv'
  <2>1. /\ \A m \in mailed : m.at \in Nat /\ m.at <= wallNow'
        /\ \A m \in mailed : Unlost(m)' =>
             \E f \in table' : Same(m, f) /\ f.open # Nil /\ (~m.closed => f.open = m.at)
        /\ \A q \in silenced : Unlost(q)' =>
             \E f \in table' : Same(q, f) /\ f.open # Nil /\ f.close # Nil
    <3>1. wallNow <= wallNow' /\ unmarked \subseteq unmarked'
      BY <1>1, <1>5
    <3> QED
      BY <1>3, <3>1, OldMailsMarked DEF CountersInv
  <2>2. ASSUME NEW e \in B, NEW m, m = Mail(e, check.now)
        PROVE /\ m.at \in Nat /\ m.at <= wallNow'
              /\ \E f \in table' : Same(m, f) /\ f.open # Nil /\ (~m.closed => f.open = m.at)
    <3>1. m.c = e.c /\ m.s = e.s /\ m.at = check.now /\ (m.closed <=> e.e # Nil)
      BY <2>2, MailFields
    <3>2. e.e = Nil => e.open = Nil
      BY <1>1, <1>4 DEF CountersInv, PassesInv
    <3>3. PICK g \in table' : Same(e, g) /\ g.open # Nil /\ (e.open = Nil => g.open = check.now)
      BY <1>3
    <3> QED
      BY <1>5, <3>1, <3>2, <3>3 DEF Same
  <2> QED
    BY <1>1, <2>1, <2>2 DEF MailsInv
<1>8. PassesInv'
  <2>1. \A e \in Picked' : /\ OnTable(e)' /\ (e.e = Nil => e.open = Nil)
                           /\ (e.open # Nil => e.close = Nil)
    <3>1. \A e \in Picked', f \in B : ~Same(f, e)
      BY <1>1, <1>4 DEF CountersInv, PassesInv
    <3> QED
      BY <1>1, <1>3, <1>4, <3>1 DEF CountersInv, PassesInv
  <2>2. \A e, f \in Picked' : Same(e, f) => e = f
    BY <1>1, <1>4 DEF CountersInv, PassesInv
  <2>3. check'.left \cap check'.batch = {}
    BY <1>1, <1>2
  <2>4. ASSUME NEW m \in mailed' PROVE m.at <= check.now /\ \A b \in check'.batch : Spaced(b, m)'
    <3>1. CASE m \in mailed
      <4>1. Unlost(m)' <=> Unlost(m)
        BY <1>1 DEF Unlost
      <4>2. m.at <= check.now /\ \A b \in check'.batch : Spaced(b, m)
        BY <1>1, <1>2, <3>1, Zenon DEF CountersInv, PassesInv
      <4> QED
        BY <1>2, <4>1, <4>2, Zenon DEF Spaced
    <3>2. ASSUME NEW e \in B, m = Mail(e, check.now)
          PROVE m.at <= check.now /\ \A b \in check'.batch : Spaced(b, m)'
      <4>1. m.at = check.now
        BY <3>2, MailFields
      <4> QED
        BY <1>2, <1>5, <4>1 DEF Spaced
    <3> QED
      BY <1>1, <3>1, <3>2
  <2> QED
    BY <1>2, <1>5, <2>1, <2>2, <2>3, <2>4 DEF PassesInv
<1> QED
  BY <1>3, <1>6, <1>7, <1>8 DEF CountersInv

\* A list that is not mailed stays for the next pass.
LEMMA MailFailsKeeps ==
  ASSUME CountersInv, NEW l, MailFails(l)
  PROVE CountersInv'
<1>1. /\ check.at = "deciding"
      /\ check' = [check EXCEPT !.batch = @ \ BatchOf(l)]
      /\ UNCHANGED <<wallNow, table, mailed, silenced, unmarked>>
  BY Zenon DEF MailFails
<1>2. /\ DOMAIN check' = {"at", "now", "left", "batch"} /\ check'.now = check.now
      /\ check'.left = check.left /\ check'.batch = check.batch \ BatchOf(l)
  BY <1>1 DEF CountersInv, PassesInv
<1>3. EpisodesInv' /\ MailsInv' /\ MailsSpacedInOrder'
  BY <1>1, Zenon DEF CountersInv, EpisodesInv, MailsInv, Unlost, MailsSpacedInOrder, FaultMailsSpaced,
     RecoveryOnlyOfMailed, Faulty, IsEpisode
<1>4. Picked' \subseteq Picked /\ check'.batch \subseteq check.batch
  BY <1>2 DEF Picked
<1>5. \A e : OnTable(e)' <=> OnTable(e)
  BY <1>1 DEF OnTable
<1>6. \A b, m : Spaced(b, m)' <=> Spaced(b, m)
  BY <1>1, <1>2, Zenon DEF Spaced, Unlost
<1>7. check.now \in Nat /\ check.now <= wallNow /\ (check'.left \cap check'.batch = {})
  BY <1>1, <1>2 DEF CountersInv, PassesInv
<1>8. /\ \A e \in Picked : OnTable(e) /\ (e.e = Nil => e.open = Nil) /\ (e.open # Nil => e.close = Nil)
      /\ \A e, f \in Picked : Same(e, f) => e = f
      /\ \A m \in mailed : m.at <= check.now
      /\ \A b \in check.batch, m \in mailed : Spaced(b, m)
  BY <1>1, Zenon DEF CountersInv, PassesInv
<1>9. PassesInv'
  BY <1>1, <1>2, <1>4, <1>5, <1>6, <1>7, <1>8, Zenon DEF PassesInv
<1> QED
  BY <1>3, <1>9 DEF CountersInv

\* Mails without marks.
LEMMA MarksFailKeeps ==
  ASSUME CountersInv, NEW l, MarksFail(l)
  PROVE CountersInv'
<1> DEFINE B == BatchOf(l)
<1>1. /\ check.at = "deciding" /\ check' = NoCheck
      /\ mailed' = mailed \cup {Mail(e, check.now) : e \in B}
      /\ unmarked' = unmarked \cup {<<e.c, e.s>> : e \in B}
      /\ UNCHANGED <<wallNow, table, silenced>>
  BY Zenon DEF MarksFail, Mail
<1>2. B \in SUBSET check.batch
  BY DEF BatchOf
<1> HIDE DEF B
<1>3. EpisodesInv'
  BY <1>1, Zenon DEF CountersInv, EpisodesInv, IsEpisode
<1>4. MailsSpacedInOrder'
  BY <1>1, <1>2, MailsAdded
<1>5. MailsInv'
  <2>1. MarksKept
    BY <1>1 DEF MarksKept, Same
  <2>2. wallNow <= wallNow' /\ unmarked \subseteq unmarked'
    BY <1>1 DEF CountersInv, EpisodesInv
  <2>3. /\ \A m \in mailed : m.at \in Nat /\ m.at <= wallNow'
        /\ \A m \in mailed : Unlost(m)' =>
             \E f \in table' : Same(m, f) /\ f.open # Nil /\ (~m.closed => f.open = m.at)
        /\ \A q \in silenced : Unlost(q)' =>
             \E f \in table' : Same(q, f) /\ f.open # Nil /\ f.close # Nil
    BY <1>3, <2>1, <2>2, OldMailsMarked DEF CountersInv
  <2>4. ASSUME NEW e \in B, NEW m, m = Mail(e, check.now)
        PROVE m.at \in Nat /\ m.at <= wallNow' /\ ~Unlost(m)'
    <3>1. m.c = e.c /\ m.s = e.s /\ m.at = check.now
      BY <2>4, MailFields
    <3>2. check.now \in Nat /\ check.now <= wallNow'
      BY <1>1 DEF CountersInv, PassesInv
    <3> QED
      BY <1>1, <3>1, <3>2 DEF Unlost
  <2> QED
    BY <1>1, <2>3, <2>4 DEF MailsInv
<1> QED
  BY <1>1, <1>3, <1>4, <1>5, NoPass DEF CountersInv

LEMMA PassEnds ==
  ASSUME CountersInv, CheckEnds
  PROVE CountersInv'
<1>1. check' = NoCheck /\ UNCHANGED <<wallNow, table, mailed, silenced, unmarked>>
  BY DEF CheckEnds
<1>2. EpisodesInv' /\ MailsInv' /\ MailsSpacedInOrder'
  BY <1>1, Zenon DEF CountersInv, EpisodesInv, MailsInv, Unlost, MailsSpacedInOrder, FaultMailsSpaced,
     RecoveryOnlyOfMailed, Faulty, IsEpisode
<1> QED
  BY <1>1, <1>2, NoPass DEF CountersInv

\* An opening kept quiet, its first mark stored: nothing was mailed of it.
LEMMA QuietAdded ==
  ASSUME CountersInv, check.at = "deciding", NEW e \in check.left, e.open = Nil, NEW brief,
         silenced' = silenced \cup
           {[c |-> e.c, s |-> e.s, at |-> check.now, brief |-> brief]},
         mailed' = mailed, unmarked \subseteq unmarked'
  PROVE MailsSpacedInOrder'
<1> DEFINE n == [c |-> e.c, s |-> e.s, at |-> check.now, brief |-> brief]
<1>1. n.c = e.c /\ n.s = e.s
  OBVIOUS
<1> HIDE DEF n
<1>2. silenced' = silenced \cup {n}
  BY Zenon DEF n
<1>3. \A m : Unlost(m)' => Unlost(m)
  BY DEF Unlost
<1>4. FaultMailsSpaced'
  BY <1>3, Zenon DEF CountersInv, MailsSpacedInOrder, FaultMailsSpaced, Faulty, Unlost
<1>5. ASSUME NEW m \in mailed, Unlost(m), e.c = m.c, e.s = m.s PROVE FALSE
  <2>1. PICK f \in table : Same(m, f) /\ f.open # Nil
    BY <1>5, Zenon DEF CountersInv, MailsInv
  <2>2. OnTable(e)
    BY DEF CountersInv, PassesInv, Picked
  <2>3. PICK r \in table : Same(e, r) /\ r.open = e.open
    BY <2>2 DEF OnTable
  <2>4. r = f
    BY <1>5, <2>1, <2>3 DEF Same, CountersInv, EpisodesInv
  <2> QED
    BY <2>1, <2>3, <2>4
<1>6. ASSUME NEW m \in mailed, m.closed, Unlost(m)', NEW q \in silenced', q.c = m.c, q.s = m.s
      PROVE FALSE
  <2>1. CASE q = n
    BY <1>1, <1>3, <1>5, <1>6, <2>1
  <2>2. CASE q \in silenced
    BY <1>3, <1>6, <2>2, Zenon
       DEF CountersInv, MailsSpacedInOrder, RecoveryOnlyOfMailed, Unlost
  <2> QED
    BY <1>2, <1>6, <2>1, <2>2
<1>7. RecoveryOnlyOfMailed'
  BY <1>6, Zenon DEF RecoveryOnlyOfMailed, Unlost
<1> QED
  BY <1>4, <1>7 DEF MailsSpacedInOrder

\* What was mailed stays marked, and so does what is kept quiet now if both
\* marks were stored.
LEMMA QuietMarked ==
  ASSUME CountersInv, EpisodesInv', MarksKept, NEW e, NEW brief, UNCHANGED <<wallNow, mailed>>,
         silenced' = silenced \cup
           {[c |-> e.c, s |-> e.s, at |-> check.now, brief |-> brief]},
         unmarked \subseteq unmarked',
         \/ <<e.c, e.s>> \in unmarked'
         \/ \E g \in table' : Same(e, g) /\ g.open # Nil /\ g.close # Nil
  PROVE MailsInv'
<1> DEFINE n == [c |-> e.c, s |-> e.s, at |-> check.now, brief |-> brief]
<1>1. n.c = e.c /\ n.s = e.s
  OBVIOUS
<1> HIDE DEF n
<1>2. silenced' = silenced \cup {n}
  BY Zenon DEF n
<1>3. wallNow <= wallNow'
  BY DEF CountersInv, EpisodesInv
<1>4. /\ \A m \in mailed : m.at \in Nat /\ m.at <= wallNow'
      /\ \A m \in mailed : Unlost(m)' =>
           \E f \in table' : Same(m, f) /\ f.open # Nil /\ (~m.closed => f.open = m.at)
      /\ \A q \in silenced : Unlost(q)' =>
           \E f \in table' : Same(q, f) /\ f.open # Nil /\ f.close # Nil
  BY <1>3, OldMailsMarked DEF CountersInv
<1>5. ASSUME NEW q, q = n, Unlost(q)'
      PROVE \E f \in table' : Same(q, f) /\ f.open # Nil /\ f.close # Nil
  <2>1. <<q.c, q.s>> \notin unmarked'
    BY <1>5 DEF Unlost
  <2>2. PICK g \in table' : Same(e, g) /\ g.open # Nil /\ g.close # Nil
    BY <1>1, <1>5, <2>1
  <2> QED
    BY <1>1, <1>5, <2>2 DEF Same
<1> QED
  BY <1>2, <1>4, <1>5 DEF MailsInv

\* A decision takes its episode off the pass, or into the batch.
LEMMA DecidedPass ==
  ASSUME CountersInv, check.at = "deciding", NEW e \in check.left, NEW batch,
         check' = [check EXCEPT !.left = @ \ {e}, !.batch = batch],
         batch = check.batch \/ batch = check.batch \cup {e},
         UNCHANGED <<wallNow, mailed, unmarked>>,
         \A x : OnTable(x) /\ ~Same(x, e) => OnTable(x)',
         batch # check.batch => OnTable(e)' /\ \A m \in mailed : Spaced(e, m)
  PROVE PassesInv'
<1>1. DOMAIN check = {"at", "now", "left", "batch"}
  BY DEF CountersInv, PassesInv
<1>2. /\ DOMAIN check' = {"at", "now", "left", "batch"} /\ check'.now = check.now
      /\ check'.left = check.left \ {e} /\ check'.batch = batch
  BY <1>1
<1>3. Picked' = (check.left \ {e}) \cup batch /\ Picked' \subseteq Picked
  BY <1>2 DEF Picked
<1>4. /\ \A x \in Picked : OnTable(x) /\ (x.e = Nil => x.open = Nil) /\ (x.open # Nil => x.close = Nil)
      /\ \A x, f \in Picked : Same(x, f) => x = f
      /\ check.left \cap check.batch = {}
      /\ \A m \in mailed : m.at <= check.now
      /\ \A b \in check.batch, m \in mailed : Spaced(b, m)
  BY Zenon DEF CountersInv, PassesInv
<1>5. e \in Picked
  BY DEF Picked
<1>6. ASSUME NEW x \in Picked' PROVE OnTable(x)'
  <2>1. CASE x = e
    <3>1. e \notin check.batch
      BY <1>4
    <3>2. batch # check.batch
      BY <1>3, <1>6, <2>1, <3>1
    <3> QED
      BY <2>1, <3>2
  <2>2. CASE x # e
    <3>1. ~Same(x, e) /\ OnTable(x)
      BY <1>3, <1>4, <1>5, <1>6, <2>2
    <3> QED
      BY <3>1
  <2> QED
    BY <2>1, <2>2
<1>7. check'.left \cap check'.batch = {}
  BY <1>2, <1>4
<1>8. ASSUME NEW b \in check'.batch, NEW m \in mailed PROVE Spaced(b, m)'
  <2>1. Spaced(b, m)
    BY <1>2, <1>4, <1>8
  <2> QED
    BY <1>2, <2>1, Zenon DEF Spaced, Unlost
<1>9. check.now \in Nat /\ check.now <= wallNow
  BY DEF CountersInv, PassesInv
<1> QED
  BY <1>2, <1>3, <1>4, <1>6, <1>7, <1>8, <1>9, Zenon DEF PassesInv

\* What goes into the batch passed the quiet period of its counter.
LEMMA NotQuiet ==
  ASSUME CountersInv, check.at = "deciding", NEW e \in check.left,
         e.open = Nil => ~Quiet(e, check.now), NEW m \in mailed
  PROVE Spaced(e, m)
<1> SUFFICES ASSUME e.e = Nil, m.c = e.c, ~m.closed, m.at < check.now, Unlost(m)
             PROVE check.now - m.at >= QuietFor
  BY DEF Spaced
<1>1. e.open = Nil
  BY DEF CountersInv, PassesInv, Picked
<1>2. PICK f \in table : Same(m, f) /\ f.open # Nil /\ f.open = m.at
  BY Zenon DEF CountersInv, MailsInv
<1>3. f.c = e.c
  BY <1>2 DEF Same
<1>4. ~(check.now - f.open < QuietFor)
  BY <1>1, <1>2, <1>3 DEF Quiet
<1>5. check.now \in Nat /\ m.at \in Nat /\ QuietFor \in Nat
  BY CounterAlertsAssumption DEF CounterAlertsAssumption, CountersInv, PassesInv, MailsInv
<1> QED
  BY <1>2, <1>4, <1>5

LEMMA DecideOneKeeps ==
  ASSUME CountersInv, NEW e \in check.left, DecideOne(e)
  PROVE CountersInv'
<1> DEFINE opening == e.open = Nil
           young == opening /\ e.e = Nil /\ check.now - e.s < MinAge
           quiet == opening /\ ~young /\ Quiet(e, check.now)
           brief == Brief(e)
           batch == IF young \/ quiet THEN check.batch ELSE check.batch \cup {e}
<1>1. /\ check.at = "deciding" /\ UNCHANGED <<wallNow, faults, mailed, unmarked>>
      /\ check' = [check EXCEPT !.left = @ \ {e}, !.batch = batch]
      /\ table' = IF quiet THEN Marked(e, TRUE, TRUE, check.now) ELSE table
      /\ silenced' = IF quiet
                     THEN silenced \cup {[c |-> e.c, s |-> e.s, at |-> check.now, brief |-> brief]}
                     ELSE silenced
  BY DEF DecideOne
<1>2. check.now \in Nat /\ check.now # Nil /\ OnTable(e)
  BY <1>1, CounterAlertsAssumption DEF CounterAlertsAssumption, CountersInv, PassesInv, Picked
<1>3. ~(young \/ quiet) => (opening => ~Quiet(e, check.now))
  OBVIOUS
<1>4. quiet => e.open = Nil
  OBVIOUS
<1> HIDE DEF brief, quiet, young
<1>5. CASE quiet
  <2>1. /\ table' = Marked(e, TRUE, TRUE, check.now)
        /\ silenced' = silenced \cup {[c |-> e.c, s |-> e.s, at |-> check.now, brief |-> brief]}
        /\ check' = [check EXCEPT !.left = @ \ {e}, !.batch = check.batch]
    BY <1>1, <1>5
  <2>2. /\ EpisodesInv' /\ MarksKept
        /\ \A x : OnTable(x) /\ ~Same(x, e) => OnTable(x)'
        /\ \E g \in table' : Same(e, g) /\ g.open = check.now /\ g.close # Nil
    <3>1. /\ EpisodesInv /\ OnTable(e) /\ e.open = Nil /\ check.now \in Nat
          /\ table' = Marked(e, TRUE, TRUE, check.now) /\ wallNow' = wallNow
      BY <1>1, <1>2, <1>4, <1>5, <2>1 DEF CountersInv
    <3>2. /\ EpisodesInv' /\ MarksKept
          /\ \A x : OnTable(x) /\ ~Same(x, e) => OnTable(x)'
          /\ \E g \in table' : Same(e, g) /\ g.open = check.now /\ (TRUE => g.close # Nil)
      BY <3>1, MarkedTable
    <3> QED
      BY <3>2
  <2>3. MailsInv'
    BY <1>1, <1>2, <2>1, <2>2, QuietMarked
  <2>4. MailsSpacedInOrder'
    BY <1>1, <1>4, <1>5, <2>1, QuietAdded
  <2>5. PassesInv'
    BY <1>1, <2>1, <2>2, DecidedPass
  <2> QED
    BY <2>2, <2>3, <2>4, <2>5 DEF CountersInv
<1>6. CASE ~quiet
  <2>1. UNCHANGED <<table, silenced>>
    BY <1>1, <1>6
  <2>2. EpisodesInv' /\ MailsInv' /\ MailsSpacedInOrder'
    BY <1>1, <2>1, Zenon DEF CountersInv, EpisodesInv, MailsInv, Unlost, MailsSpacedInOrder,
       FaultMailsSpaced, RecoveryOnlyOfMailed, Faulty, IsEpisode
  <2>3. \A x : OnTable(x) => OnTable(x)'
    BY <2>1 DEF OnTable
  <2>4. batch # check.batch => \A m \in mailed : Spaced(e, m)
    BY <1>1, <1>3, NotQuiet
  <2>5. PassesInv'
    BY <1>1, <1>2, <2>3, <2>4, DecidedPass
  <2> QED
    BY <2>2, <2>5 DEF CountersInv
<1> QED
  BY <1>5, <1>6

LEMMA DecideFailsKeeps ==
  ASSUME CountersInv, NEW e \in check.left, DecideFails(e)
  PROVE CountersInv'
<1> DEFINE brief == Brief(e)
<1>1. /\ check.at = "deciding" /\ e.open = Nil /\ table' = Marked(e, TRUE, FALSE, check.now)
      /\ silenced' = silenced \cup {[c |-> e.c, s |-> e.s, at |-> check.now, brief |-> brief]}
      /\ unmarked' = unmarked \cup {<<e.c, e.s>>} /\ check' = NoCheck
      /\ UNCHANGED <<wallNow, mailed>>
  BY DEF DecideFails
<1> HIDE DEF brief
<1>2. check.now \in Nat /\ OnTable(e)
  BY <1>1 DEF CountersInv, PassesInv, Picked
<1>3. EpisodesInv' /\ MarksKept
  BY <1>1, <1>2, MarkedTable DEF CountersInv
<1>4. unmarked \subseteq unmarked' /\ <<e.c, e.s>> \in unmarked'
  BY <1>1
<1>5. MailsInv'
  BY <1>1, <1>3, <1>4, QuietMarked
<1>6. MailsSpacedInOrder'
  BY <1>1, <1>4, QuietAdded
<1> QED
  BY <1>1, <1>3, <1>5, <1>6, NoPass DEF CountersInv

\* Fault mails of one counter from different passes are a quiet period apart,
\* and no recovery is mailed of an opening that was kept quiet, for every
\* number of counters, lists and episodes and whatever fails, but for the
\* episodes whose own marks failed (main.go checkCounters).
THEOREM CountersMailsSpacedInOrder == CounterAlertsSpec => []MailsSpacedInOrder
<1>1. ASSUME CountersInv, [CounterAlertsNext]_counterAlertVars PROVE CountersInv'
  <2>1. CASE TimePasses
    <3>1. /\ wallNow' = wallNow + 1 /\ UNCHANGED <<table, check, mailed, silenced, unmarked>>
      BY <2>1 DEF TimePasses
    <3>2. EpisodesInv' /\ MarksKept /\ wallNow <= wallNow' /\ \A x : OnTable(x) => OnTable(x)'
      BY <1>1, <3>1 DEF CountersInv, EpisodesInv, MarksKept, OnTable, Same, IsEpisode
    <3> QED
      BY <1>1, <3>1, <3>2, StitcherKeeps
  <2>2. ASSUME NEW c \in Counters, NEW s \in 0..MaxClock, EpisodeOpens(c, s) PROVE CountersInv'
    <3>1. UNCHANGED <<wallNow, check, mailed, silenced, unmarked>> /\ wallNow <= wallNow'
      BY <1>1, <2>2 DEF EpisodeOpens, CountersInv, EpisodesInv
    <3> QED
      BY <1>1, <2>2, <3>1, StitcherKeeps, EpisodeOpensTable DEF CountersInv
  <2>3. ASSUME NEW e \in table, EpisodeCloses(e) PROVE CountersInv'
    <3>1. UNCHANGED <<wallNow, check, mailed, silenced, unmarked>> /\ wallNow <= wallNow'
      BY <1>1, <2>3 DEF EpisodeCloses, CountersInv, EpisodesInv
    <3> QED
      BY <1>1, <2>3, <3>1, StitcherKeeps, EpisodeClosesTable DEF CountersInv
  <2>4. CASE CheckBegins \/ CheckEnds
    BY <1>1, <2>4, PassBegins, PassEnds
  <2>5. ASSUME NEW e \in check.left, DecideOne(e) \/ DecideFails(e) PROVE CountersInv'
    BY <1>1, <2>5, DecideOneKeeps, DecideFailsKeeps
  <2>6. ASSUME NEW l, MailList(l) \/ MailFails(l) \/ MarksFail(l) PROVE CountersInv'
    BY <1>1, <2>6, MailListKeeps, MailFailsKeeps, MarksFailKeeps
  <2>7. CASE UNCHANGED counterAlertVars
    <3>1. UNCHANGED <<wallNow, table, check, mailed, silenced, unmarked>>
      BY <2>7 DEF counterAlertVars
    <3>2. EpisodesInv' /\ MarksKept /\ wallNow <= wallNow' /\ \A x : OnTable(x) => OnTable(x)'
      BY <1>1, <3>1 DEF CountersInv, EpisodesInv, MarksKept, OnTable, Same, IsEpisode
    <3> QED
      BY <1>1, <3>1, <3>2, StitcherKeeps
  <2> QED
    BY <1>1, <2>1, <2>2, <2>3, <2>4, <2>5, <2>6, <2>7, Zenon DEF CounterAlertsNext
<1>2. CountersInv => MailsSpacedInOrder
  BY DEF CountersInv
<1> QED
  BY <1>1, <1>2, CountersInitially, PTL DEF CounterAlertsSpec

=============================================================================
