----------------------------- MODULE AlertWatchdog -----------------------------
(***************************************************************************)
(* The alert watchdog (cmd/alert-watchdog/main.go: runOnce, check;         *)
(* internal/alerts/evaluate.go; internal/storage/alerts.go): a daemon that *)
(* compares the age of each device's newest sample with a threshold, mails *)
(* what changed and saves its conclusions in device_alert_state.           *)
(*                                                                         *)
(* A check is a sequence of steps: freshness queries, evaluation, one mail *)
(* per recipient list, one transaction.  Samples arrive, settings change   *)
(* and time passes between them, and the pass may be abandoned at each.    *)
(*                                                                         *)
(* Times are kept as ages, capped where greater ones are told apart by no  *)
(* condition of the code, so that time can pass for ever in a finite       *)
(* model.  The check's own "now" lies elapsed units in the past.           *)
(***************************************************************************)
EXTENDS Naturals

CONSTANTS
  Devices,              \* monitored Modbus endpoints
  Lists,                \* distinct recipient lists
  ListOf,               \* the list each device's organization is mailed on
  StaleAfter,           \* silence that counts as a lost connection
  RepeatInterval,       \* between reminders; 0 disables them
  NotifyRecovery,       \* whether recoveries are mailed
  MaxPass               \* bound: how long one pass can take

ASSUME WatchdogAssumption ==
  /\ ListOf \in [Devices -> Lists]
  /\ StaleAfter \in Nat
  /\ RepeatInterval \in Nat
  /\ NotifyRecovery \in BOOLEAN
  /\ MaxPass \in Nat

VARIABLES
  silence,              \* age of each device's newest stored sample
  muted,                \* devices whose organization is switched off or unreachable
  steady,               \* the relay, the database and the process work
  rec,                  \* device_alert_state
  pc,                   \* where the pass is
  elapsed,              \* time since the pass read the clock
  toProbe,              \* devices the pass has yet to query
  down,                 \* verdict of the freshness query per target
  targets,              \* devices this pass watches
  next, events,         \* Result of Evaluate
  unsent,               \* recipient lists still to be mailed
  told,                 \* history: a mail about the recorded outage arrived
  downMails,            \* history: "connection lost" mails in that outage (0, 1, more)
  excused,              \* history: a mail of that outage arrived unrecorded
  owed                  \* history: the last mail about the device, if it failed

worldVars == <<silence, muted, steady>>
passVars == <<elapsed, toProbe, down, targets, next, events, unsent>>
mailVars == <<told, downMails, excused, owed>>
vars == <<worldVars, rec, pc, passVars, mailVars>>

SilenceCap == StaleAfter + MaxPass + 1
AgeCap == RepeatInterval + MaxPass

AtMost(n, cap) == IF n <= cap THEN n ELSE cap

\* A row of device_alert_state; announced says last_notified_at is set, age
\* how long ago it is.
NoRow == [state |-> "none", announced |-> FALSE, age |-> 0]
Kinds == {"none", "down", "reminder", "recovered"}

Init ==
  /\ silence \in [Devices -> 0..SilenceCap]
  /\ muted \in SUBSET Devices
  /\ steady = TRUE
  /\ rec = [d \in Devices |-> NoRow]
  /\ pc = "idle" /\ elapsed = 0
  /\ toProbe = {} /\ targets = {} /\ unsent = {}
  /\ down = [d \in Devices |-> FALSE]
  /\ next = [d \in Devices |-> NoRow]
  /\ events = [d \in Devices |-> "none"]
  /\ told = [d \in Devices |-> FALSE]
  /\ downMails = [d \in Devices |-> 0]
  /\ excused = [d \in Devices |-> FALSE]
  /\ owed = [d \in Devices |-> "none"]

-------------------------------------------------------------------------------
(* Evaluate and RevertNotifications. *)

\* Mutant of EventOf: a failed first mail is not sent again.
EventOfNoRetry(row, isDown, since) ==
  IF isDown
  THEN IF row.state # "down" THEN "down"
       ELSE IF row.announced /\ RepeatInterval > 0
                /\ row.age >= RepeatInterval + since THEN "reminder"
       ELSE "none"
  ELSE IF row.state = "down" /\ NotifyRecovery THEN "recovered" ELSE "none"

\* What Evaluate announces for a device, given its row and the verdict.
EventOf(row, isDown, since) ==
  IF isDown
  THEN IF row.state # "down" \/ ~row.announced THEN "down"
       ELSE IF RepeatInterval > 0 /\ row.age >= RepeatInterval + since THEN "reminder"
       ELSE "none"
  ELSE IF row.state = "down" /\ NotifyRecovery THEN "recovered" ELSE "none"

\* The state Evaluate returns, assuming its mail is delivered.
NextRow(row, isDown, since) ==
  IF EventOf(row, isDown, since) # "none"
  THEN [state |-> IF isDown THEN "down" ELSE "ok", announced |-> TRUE, age |-> since]
  ELSE IF isDown THEN row
  ELSE [state |-> "ok", announced |-> FALSE, age |-> 0]

InBatch(d, l) == events[d] # "none" /\ ListOf[d] = l

\* Mutant of RevertNotifications: every event of the pass is rolled back,
\* whichever list it was mailed on.
RevertAllNotifications(l) ==
  [d \in Devices |->
     IF events[d] # "none"
     THEN [next[d] EXCEPT !.announced = rec[d].announced, !.age = rec[d].age]
     ELSE next[d]]

\* last_notified_at of the batch's devices goes back to what the row says;
\* the new state stays.
RevertNotifications(l) ==
  [d \in Devices |->
     IF InBatch(d, l)
     THEN [next[d] EXCEPT !.announced = rec[d].announced, !.age = rec[d].age]
     ELSE next[d]]

-------------------------------------------------------------------------------
(* The world: samples, settings, faults, time. *)

\* A sample is stored; the edge device uploads old ones too.
Sample(d) ==
  /\ \E a \in 0..silence[d] : silence' = [silence EXCEPT ![d] = a]
  /\ UNCHANGED <<muted, steady, rec, pc, passVars, mailVars>>

\* The notifications page changes an organization's delivery.
ToggleMute(d) ==
  /\ muted' = IF d \in muted THEN muted \ {d} ELSE muted \cup {d}
  /\ UNCHANGED <<silence, steady, rec, pc, passVars, mailVars>>

ToggleSteady ==
  /\ steady' = ~steady
  /\ UNCHANGED <<silence, muted, rec, pc, passVars, mailVars>>

Older(rows) ==
  [d \in Devices |->
     IF rows[d].announced THEN [rows[d] EXCEPT !.age = AtMost(@ + 1, AgeCap)] ELSE rows[d]]

Tick ==
  /\ pc = "idle" \/ elapsed < MaxPass
  /\ silence' = [d \in Devices |-> AtMost(silence[d] + 1, SilenceCap)]
  /\ rec' = Older(rec)
  /\ next' = Older(next)
  /\ elapsed' = IF pc = "idle" THEN 0 ELSE elapsed + 1
  /\ UNCHANGED <<muted, steady, pc, toProbe, down, targets, events, unsent, mailVars>>

-------------------------------------------------------------------------------
(* One pass of runOnce. *)

\* The ticker fires: settings are read, then the clock.
StartPass ==
  /\ pc = "idle" /\ Devices \ muted # {}
  /\ pc' = "probe" /\ elapsed' = 0
  /\ targets' = Devices \ muted /\ toProbe' = Devices \ muted
  /\ UNCHANGED <<worldVars, rec, down, next, events, unsent, mailVars>>

\* LatestSampleAt of one device against the pass's clock.  The lookback is
\* longer than StaleAfter, so a device without samples in it is down too.
Probe(d) ==
  /\ pc = "probe" /\ d \in toProbe
  /\ down' = [down EXCEPT ![d] = silence[d] > StaleAfter + elapsed]
  /\ toProbe' = toProbe \ {d}
  /\ UNCHANGED <<worldVars, rec, pc, elapsed, targets, next, events, unsent, mailVars>>

\* LoadDeviceAlertStates and Evaluate; GroupByRecipients.
Evaluate ==
  /\ pc = "probe" /\ toProbe = {}
  /\ next' = [d \in Devices |->
                IF d \in targets THEN NextRow(rec[d], down[d], elapsed) ELSE rec[d]]
  /\ events' = [d \in Devices |->
                IF d \in targets THEN EventOf(rec[d], down[d], elapsed) ELSE "none"]
  /\ unsent' = {ListOf[d] : d \in {e \in Devices : events'[e] # "none"}}
  /\ pc' = "send"
  /\ UNCHANGED <<worldVars, rec, elapsed, toProbe, down, targets, mailVars>>

\* The batch reaches its readers.
Delivered(l) ==
  /\ told' = [d \in Devices |->
                IF InBatch(d, l) /\ events[d] # "recovered" THEN TRUE ELSE told[d]]
  /\ downMails' = [d \in Devices |->
                IF InBatch(d, l) /\ events[d] = "down"
                THEN AtMost(downMails[d] + 1, 2) ELSE downMails[d]]

SendOK(l) ==
  /\ pc = "send" /\ l \in unsent
  /\ unsent' = unsent \ {l}
  /\ Delivered(l)
  /\ owed' = [d \in Devices |-> IF InBatch(d, l) THEN "none" ELSE owed[d]]
  /\ UNCHANGED <<worldVars, rec, pc, elapsed, toProbe, down, targets, next, events, excused>>

\* Mutant of SendFails: the notification is recorded all the same.
SendFailsKept(l) ==
  /\ pc = "send" /\ l \in unsent /\ ~steady
  /\ unsent' = unsent \ {l}
  /\ \/ UNCHANGED <<told, downMails, excused>>
     \/ /\ Delivered(l)
        /\ excused' = [d \in Devices |-> excused[d] \/ InBatch(d, l)]
  /\ owed' = [d \in Devices |-> IF InBatch(d, l) THEN events[d] ELSE owed[d]]
  /\ UNCHANGED <<worldVars, rec, pc, elapsed, toProbe, down, targets, next, events>>

\* Send returns an error.  The mail may have been accepted all the same: an
\* error of QUIT is one of Send.
SendFails(l) ==
  /\ pc = "send" /\ l \in unsent /\ ~steady
  /\ unsent' = unsent \ {l}
  /\ next' = RevertNotifications(l)
  /\ \/ UNCHANGED <<told, downMails, excused>>
     \/ /\ Delivered(l)
        /\ excused' = [d \in Devices |-> excused[d] \/ InBatch(d, l)]
  /\ owed' = [d \in Devices |-> IF InBatch(d, l) THEN events[d] ELSE owed[d]]
  /\ UNCHANGED <<worldVars, rec, pc, elapsed, toProbe, down, targets, events>>

EndPass ==
  /\ pc' = "idle" /\ elapsed' = 0
  /\ toProbe' = {} /\ targets' = {} /\ unsent' = {}
  /\ down' = [d \in Devices |-> FALSE]
  /\ next' = [d \in Devices |-> NoRow]
  /\ events' = [d \in Devices |-> "none"]
  /\ UNCHANGED worldVars

\* UpsertDeviceAlertStates: one transaction for all targets.
Save ==
  /\ pc = "send" /\ unsent = {}
  /\ rec' = next
  /\ told' = [d \in Devices |-> told[d] /\ next[d].state = "down"]
  /\ downMails' = [d \in Devices |-> IF next[d].state = "down" THEN downMails[d] ELSE 0]
  /\ excused' = [d \in Devices |-> excused[d] /\ next[d].state = "down"]
  /\ UNCHANGED owed
  /\ EndPass

\* A query or the transaction fails, the mail settings are unusable, or the
\* process stops: nothing is saved, whatever was mailed.
Abandon ==
  /\ pc # "idle" /\ ~steady
  /\ excused' = [d \in Devices |->
                   excused[d] \/ (events[d] # "none" /\ ListOf[d] \notin unsent)]
  /\ UNCHANGED <<rec, told, downMails, owed>>
  /\ EndPass

-------------------------------------------------------------------------------

World ==
  \/ \E d \in Devices : Sample(d) \/ ToggleMute(d)
  \/ ToggleSteady \/ Tick

Pass ==
  \/ StartPass \/ Evaluate \/ Save \/ Abandon
  \/ \E d \in Devices : Probe(d)
  \/ \E l \in Lists : SendOK(l) \/ SendFails(l)

Next == World \/ Pass

Spec == Init /\ [][Next]_vars

\* The daemon loop keeps running and time passes.
Fairness == WF_vars(Pass) /\ WF_vars(Tick)

LiveSpec == Spec /\ Fairness

-------------------------------------------------------------------------------
(* Properties. *)

AlertRow == [state : {"none", "ok", "down"}, announced : BOOLEAN, age : 0..AgeCap]

\* Every variable has its type.
TypeOK ==
  /\ silence \in [Devices -> 0..SilenceCap]
  /\ muted \subseteq Devices /\ steady \in BOOLEAN
  /\ rec \in [Devices -> AlertRow] /\ next \in [Devices -> AlertRow]
  /\ pc \in {"idle", "probe", "send"} /\ elapsed \in 0..MaxPass
  /\ targets \subseteq Devices /\ toProbe \subseteq targets
  /\ down \in [Devices -> BOOLEAN] /\ events \in [Devices -> Kinds]
  /\ unsent \subseteq Lists
  /\ told \in [Devices -> BOOLEAN] /\ excused \in [Devices -> BOOLEAN]
  /\ downMails \in [Devices -> 0..2] /\ owed \in [Devices -> Kinds]

\* An outage recorded as notified was notified: last_notified_at is nil until
\* the first successful email about the current state, and
\* RevertNotifications keeps it so after a failed one.
AnnouncedReached ==
  \A d \in Devices : rec[d].state = "down" /\ rec[d].announced => told[d]

\* "The next check retries": while the last mail about a device has failed,
\* the saved row is one from which the same verdict announces it again.
FailedMailRetried ==
  \A d \in Devices :
    owed[d] # "none" => EventOf(rec[d], owed[d] # "recovered", 0) # "none"

\* One outage, one "connection lost" mail: a second one follows only a mail
\* that arrived without being recorded (a failed QUIT, an abandoned pass).
AnnouncedOnce ==
  \A d \in Devices : downMails[d] > 1 => excused[d]

\* What the rows record as announced and what arrived agree, so an outage is
\* announced once and a failed mail is tried again (evaluate.go, main.go).
RecordsMatchMails == AnnouncedReached /\ FailedMailRetried /\ AnnouncedOnce

\* What storage.DeviceAlertState says of keeping the state in the database:
\* a redeploy "does not re-announce an outage operators already know about".
NeverReannounced == \A d \in Devices : downMails[d] <= 1

Silent(d) == silence[d] > StaleAfter + MaxPass

\* A device that stays silent while its organization can be mailed and
\* nothing fails is eventually reported, whatever failed before.
OutageReported ==
  \A d \in Devices :
    <>[](Silent(d) /\ d \notin muted /\ steady) => <>[]told[d]

===============================================================================
