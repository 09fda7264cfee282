----------------------------- MODULE CounterAlerts -----------------------------
(***************************************************************************)
(* The counter part of the alert watchdog (cmd/alert-watchdog/main.go      *)
(* checkCounters; internal/storage/counters.go): dropouts that the         *)
(* stitcher recorded are mailed when they open and when they close, unless *)
(* they are brief or follow an announcement of the same counter too soon.  *)
(*                                                                         *)
(* A pass reads the episodes once, decides on them one by one, mails one   *)
(* list after another and then marks what it mailed; the stitcher writes   *)
(* between those steps, and mails and queries may fail.                    *)
(***************************************************************************)
EXTENDS Integers, FiniteSets, Optional

CONSTANTS
  Counters,             \* metric keys of the organizations
  ListFor,              \* the recipient list of each counter's organization
  AlertWindow, MinAge, QuietFor,   \* counterAlertWindow, counterAlertMinAge, counterAlertQuiet
  MaxClock, MaxEpisodes, MaxFaults \* bounds

ASSUME CounterAlertsAssumption ==
  /\ AlertWindow \in Nat /\ MinAge \in Nat /\ QuietFor \in Nat
  /\ DOMAIN ListFor = Counters /\ MaxClock \in Nat
  /\ Nil \notin Int

VARIABLES
  wallNow,              \* the wall clock
  table,                \* counter_episodes: [c, s, e, open, close], e, open and close may be Nil
  check,                \* locals of checkCounters
  faults,               \* faults so far
  mailed,               \* history: mails delivered, [c, s, at, closed]
  silenced,             \* history: openings kept quiet, [c, s, at]
  unmarked              \* history: episodes mailed or kept quiet, whose marks failed

counterAlertVars == <<wallNow, table, check, faults, mailed, silenced, unmarked>>

NoCheck == [at |-> "idle"]

CounterAlertsInit ==
  /\ wallNow = 0 /\ table = {} /\ check = NoCheck /\ faults = 0
  /\ mailed = {} /\ silenced = {} /\ unmarked = {}

Same(a, b) == a.c = b.c /\ a.s = b.s

-------------------------------------------------------------------------------
(* The stitcher; a rebuild may find an episode long after its start. *)

TimePasses ==
  /\ wallNow < MaxClock /\ wallNow' = wallNow + 1
  /\ UNCHANGED <<table, check, faults, mailed, silenced, unmarked>>

EpisodeOpens(c, s) ==
  /\ s <= wallNow /\ Cardinality({e \in table : e.c = c}) < MaxEpisodes
  /\ \A e \in table : ~Same(e, [c |-> c, s |-> s])
  /\ table' = table \cup {[c |-> c, s |-> s, e |-> Nil, open |-> Nil, close |-> Nil]}
  /\ UNCHANGED <<wallNow, check, faults, mailed, silenced, unmarked>>

\* upsertCounterEpisodes keeps the notification marks.
EpisodeCloses(e) ==
  /\ e.e = Nil /\ e.s < wallNow
  /\ table' = (table \ {e}) \cup {[e EXCEPT !.e = wallNow]}
  /\ UNCHANGED <<wallNow, check, faults, mailed, silenced, unmarked>>

-------------------------------------------------------------------------------
(* checkCounters *)

\* CounterEpisodesToNotify
ToNotify(at) ==
  {e \in table : \/ e.open = Nil /\ e.s >= at - AlertWindow
                 \/ e.open # Nil /\ e.e # Nil /\ e.close = Nil}

CheckBegins ==
  /\ check.at = "idle" /\ ToNotify(wallNow) # {}
  /\ check' = [at |-> "deciding", now |-> wallNow, left |-> ToNotify(wallNow), batch |-> {}]
  /\ UNCHANGED <<wallNow, table, faults, mailed, silenced, unmarked>>

\* ORDER BY organization, start
Ahead(e) == \A f \in check.left : e.s <= f.s

Brief(e) == e.e # Nil /\ e.e - e.s < MinAge

\* Mutant of Quiet: the quiet period is not looked at.
QuietNever(e, at) == Brief(e)

\* An opening that is not worth a mail; LastCounterOpenNotification is the
\* newest opening mark of the counter.
Quiet(e, at) ==
  \/ Brief(e)
  \/ \E f \in table : f.c = e.c /\ f.open # Nil /\ at - f.open < QuietFor

\* Mutant of Marked: a quiet opening that is still open keeps no closing mark.
MarkedIfEnded(e, opening, closing, at) ==
  {IF Same(f, e) THEN [f EXCEPT !.open = IF opening THEN at ELSE @,
                                !.close = IF closing /\ e.e # Nil THEN at ELSE @] ELSE f : f \in table}

\* markCounterEpisode: both marks, or only the first when the second query fails.
Marked(e, opening, closing, at) ==
  {IF ~Same(f, e) THEN f
   ELSE [f EXCEPT !.open = IF opening THEN at ELSE @, !.close = IF closing THEN at ELSE @]
     : f \in table}

DecideOne(e) ==
  /\ check.at = "deciding" /\ e \in check.left /\ Ahead(e)
  /\ LET opening == e.open = Nil
         young == opening /\ e.e = Nil /\ check.now - e.s < MinAge
         quiet == opening /\ ~young /\ Quiet(e, check.now)
     IN /\ check' = [check EXCEPT !.left = @ \ {e},
                                  !.batch = IF young \/ quiet THEN @ ELSE @ \cup {e}]
        /\ table' = IF quiet THEN Marked(e, TRUE, TRUE, check.now) ELSE table
        /\ silenced' =
             IF quiet
             THEN silenced \cup {[c |-> e.c, s |-> e.s, at |-> check.now, brief |-> Brief(e)]}
             ELSE silenced
  /\ UNCHANGED <<wallNow, faults, mailed, unmarked>>

\* Between the two marks of a quiet opening the database fails.
DecideFails(e) ==
  /\ check.at = "deciding" /\ e \in check.left /\ Ahead(e) /\ faults < MaxFaults
  /\ e.open = Nil /\ ~(e.e = Nil /\ check.now - e.s < MinAge) /\ Quiet(e, check.now)
  /\ table' = Marked(e, TRUE, FALSE, check.now)
  /\ silenced' = silenced \cup {[c |-> e.c, s |-> e.s, at |-> check.now, brief |-> Brief(e)]}
  /\ unmarked' = unmarked \cup {<<e.c, e.s>>}
  /\ check' = NoCheck /\ faults' = faults + 1
  /\ UNCHANGED <<wallNow, mailed>>

BatchOf(l) == {e \in check.batch : ListFor[e.c] = l}

\* Send to one list, then the marks of its episodes, as they were read.
MailList(l) ==
  /\ check.at = "deciding" /\ check.left = {} /\ BatchOf(l) # {}
  /\ mailed' = mailed \cup
       {[c |-> e.c, s |-> e.s, at |-> check.now, closed |-> e.e # Nil] : e \in BatchOf(l)}
  /\ table' = {IF \E e \in BatchOf(l) : Same(e, f)
                 THEN LET e == CHOOSE x \in BatchOf(l) : Same(x, f)
                      IN [f EXCEPT !.open = IF e.open = Nil THEN check.now ELSE @,
                                   !.close = IF e.e # Nil THEN check.now ELSE @]
                 ELSE f : f \in table}
  /\ check' = [check EXCEPT !.batch = @ \ BatchOf(l)]
  /\ UNCHANGED <<wallNow, faults, silenced, unmarked>>

\* The mail is refused: its episodes stay unmarked, the other lists go on.
MailFails(l) ==
  /\ check.at = "deciding" /\ check.left = {} /\ BatchOf(l) # {} /\ faults < MaxFaults
  /\ check' = [check EXCEPT !.batch = @ \ BatchOf(l)]
  /\ faults' = faults + 1
  /\ UNCHANGED <<wallNow, table, mailed, silenced, unmarked>>

\* The mail is sent and the marks are not: the pass ends with an error.
MarksFail(l) ==
  /\ check.at = "deciding" /\ check.left = {} /\ BatchOf(l) # {} /\ faults < MaxFaults
  /\ mailed' = mailed \cup
       {[c |-> e.c, s |-> e.s, at |-> check.now, closed |-> e.e # Nil] : e \in BatchOf(l)}
  /\ unmarked' = unmarked \cup {<<e.c, e.s>> : e \in BatchOf(l)}
  /\ check' = NoCheck /\ faults' = faults + 1
  /\ UNCHANGED <<wallNow, table, silenced>>

CheckEnds ==
  /\ check.at = "deciding" /\ check.left = {} /\ check.batch = {}
  /\ check' = NoCheck
  /\ UNCHANGED <<wallNow, table, faults, mailed, silenced, unmarked>>

CounterAlertsNext ==
  \/ TimePasses
  \/ \E c \in Counters, s \in 0..MaxClock : EpisodeOpens(c, s)
  \/ \E e \in table : EpisodeCloses(e)
  \/ CheckBegins \/ CheckEnds
  \/ check.at = "deciding" /\ \E e \in check.left : DecideOne(e) \/ DecideFails(e)
  \/ \E c \in Counters : MailList(ListFor[c]) \/ MailFails(ListFor[c]) \/ MarksFail(ListFor[c])

CounterAlertsSpec == CounterAlertsInit /\ [][CounterAlertsNext]_counterAlertVars

-------------------------------------------------------------------------------
(* Properties *)

Faulty(c) == {m \in mailed : m.c = c /\ ~m.closed}

\* "How often one flapping counter may be announced": fault mails of one
\* counter from different passes are counterAlertQuiet apart, unless marks
\* failed; two episodes of one pass share a mail (main.go checkCounters).
FaultMailsSpaced ==
  \A c \in Counters : \A m, n \in Faulty(c) :
    m.at < n.at /\ <<m.c, m.s>> \notin unmarked => n.at - m.at >= QuietFor

\* A recovery is mailed after its fault was: an opening kept quiet is not
\* followed by a recovery, unless only one of its marks was stored
\* (main.go markCounterEpisode).
RecoveryOnlyOfMailed ==
  \A m \in mailed : m.closed /\ <<m.c, m.s>> \notin unmarked =>
    ~ \E q \in silenced : q.c = m.c /\ q.s = m.s

\* Mails about a counter come in order and are spaced, whichever marks failed.
MailsSpacedInOrder == FaultMailsSpaced /\ RecoveryOnlyOfMailed

\* What storage.LastCounterOpenNotification promises of the quiet period: it
\* starts when an opening of this counter was announced.
QuietFollowsMail ==
  \A q \in silenced : q.brief \/ \E m \in mailed : m.c = q.c /\ q.at - m.at < QuietFor
===============================================================================
