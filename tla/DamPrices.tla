------------------------------ MODULE DamPrices ------------------------------
(***************************************************************************)
(* The collector of the day-ahead market's prices (cmd/dam-collector,      *)
(* internal/dam, internal/oree, storage/dam.go): once a day it asks for    *)
(* tomorrow's sheet until there is one or the day is over, and after that, *)
(* as after a start, it goes over the last days and fetches what is not    *)
(* whole.  A sheet has the hours 1 .. SheetHours; the zone, the volumes    *)
(* and the values of the prices are left out.                              *)
(***************************************************************************)
EXTENDS Integers, FiniteSets

CONSTANTS
  SheetHours,      \* 24
  DamDay,          \* ticks of a day
  DamRunAt,        \* the tick of the day of the daily run
  DamRetry,        \* ticks between two tries of the daily run; 30 minutes
  DamBackoff,      \* ticks between two attempts of one download
  DamAttempts,     \* attempts of one download
  BackfillDays,    \* without any there is no backfill
  LastDamTick,     \* the clock stops here
  MaxDamFaults     \* downloads that fail on the way, restarts, refreshes by hand

ASSUME DamAssumption ==
  /\ {SheetHours, DamDay, DamRetry, DamBackoff, DamAttempts} \subseteq Nat \ {0}
  /\ BackfillDays \in Nat \ {0} /\ DamRunAt \in 0 .. DamDay - 1
  /\ DamRetry <= DamDay /\ {LastDamTick, MaxDamFaults} \subseteq Nat

DamDays == 0 .. LastDamTick \div DamDay + 1

VARIABLES
  damNow,
  sheets,       \* delivery day -> what the operator of the market serves for it
  wholeSince,   \* delivery day -> tick since when the sheet is whole
  damRows,      \* market_dam_prices: delivery day -> hours stored
  dpc,          \* "off" | "fetch" | "backoff" | "wait" | "backfill" | "sleep"
  damRun,       \* the fetch: its target day and the tries left, of the backfill its last day
  wake,         \* tick a timer fires
  owed,         \* days that were whole when the backfill began and did not fail in it
  attended,     \* days whose daily run began on time, and whose collector slept again
                \* before it stopped
  partial,      \* days whose daily run took a sheet that was not whole
  damFaultAt,   \* tick of the last failure on the way
  damFaults

damVars == <<damNow, sheets, wholeSince, damRows, dpc, damRun, wake, owed, attended,
             partial, damFaultAt, damFaults>>

AllHours == 1 .. SheetHours
SheetHoursOf(stage) == IF stage = "whole" THEN AllHours ELSE IF stage = "part" THEN {1} ELSE {}
DamToday == damNow \div DamDay
targetDate == DamToday + 1

\* The run time strictly after now.
nextRunAt ==
  LET candidate == DamToday * DamDay + DamRunAt
  IN  IF candidate > damNow THEN candidate ELSE candidate + DamDay

needsFetch(d) == Cardinality(damRows[d]) < SheetHours
Idle == [kind |-> "none", target |-> 0, tries |-> 0, until |-> 0]

-----------------------------------------------------------------------------
(* The world *)

\* The market's operator uploads a sheet, at first perhaps with some rows only; until
\* then there is no file, a page in its place, or one without rows.
PublishSheet(d) ==
  /\ d \in {DamToday, targetDate}
  /\ sheets[d] # "whole"
  /\ \E s \in {"part", "whole"} \ {sheets[d]} :
       /\ sheets' = [sheets EXCEPT ![d] = s]
       /\ wholeSince' = [wholeSince EXCEPT ![d] = IF s = "whole" THEN damNow ELSE @]
  /\ UNCHANGED <<damNow, damRows, dpc, damRun, wake, owed, attended, partial, damFaultAt,
                 damFaults>>

DamTick ==
  /\ damNow < LastDamTick
  /\ \/ dpc = "off"
     \/ dpc \in {"sleep", "wait", "backoff"} /\ damNow < wake
  /\ damNow' = damNow + 1
  /\ UNCHANGED <<sheets, wholeSince, damRows, dpc, damRun, wake, owed, attended, partial,
                 damFaultAt, damFaults>>

-----------------------------------------------------------------------------
(* The collector *)

BeginFetch(kind, tries) ==
  /\ dpc' = "fetch"
  /\ damRun' = [kind |-> kind, target |-> targetDate, tries |-> tries, until |-> 0]
  /\ UNCHANGED <<wake, owed>>

\* backfillRecent goes from the oldest day to today.
BeginBackfill ==
  /\ dpc' = "backfill"
  /\ damRun' = [kind |-> "backfill", target |-> DamToday - BackfillDays, tries |-> 1,
              until |-> DamToday]
  /\ owed' = {d \in DamDays : d \in DamToday - BackfillDays .. DamToday /\ sheets[d] = "whole"}
  /\ UNCHANGED wake

\* Catch-up on startup: one download of tomorrow's sheet, if it is not stored whole.
StartDam ==
  /\ dpc = "off"
  /\ IF needsFetch(targetDate) THEN BeginFetch("catchup", DamAttempts) ELSE BeginBackfill
  /\ UNCHANGED <<damNow, sheets, wholeSince, damRows, attended, partial, damFaultAt, damFaults>>

\* What follows a download that failed for good, or gave rows.
FetchEnds(ok) ==
  IF damRun.kind = "catchup" \/ ok THEN BeginBackfill
  ELSE dpc' = "wait" /\ wake' = damNow + DamRetry /\ UNCHANGED <<damRun, owed>>

\* The sheet has rows: they are upserted in one transaction.
FetchStores ==
  LET d == damRun.target IN
  /\ dpc = "fetch" /\ SheetHoursOf(sheets[d]) # {}
  /\ damRows' = [damRows EXCEPT ![d] = @ \union SheetHoursOf(sheets[d])]
  /\ partial' = IF sheets[d] = "part" THEN partial \union {d} ELSE partial
  /\ FetchEnds(TRUE)
  /\ UNCHANGED <<damNow, sheets, wholeSince, attended, damFaultAt, damFaults>>

\* A 4xx, or a sheet that cannot be parsed: no further attempt.
FetchRefused ==
  /\ dpc = "fetch" /\ SheetHoursOf(sheets[damRun.target]) = {}
  /\ FetchEnds(FALSE)
  /\ UNCHANGED <<damNow, sheets, wholeSince, damRows, attended, partial, damFaultAt, damFaults>>

\* A network error, a 5xx, a page where the file should be: the next attempt after
\* the backoff, while there is one.
DownloadFails ==
  /\ dpc = "fetch"
  /\ IF sheets[damRun.target] = "absent" THEN UNCHANGED <<damFaultAt, damFaults>>
     ELSE damFaults < MaxDamFaults /\ damFaultAt' = damNow /\ damFaults' = damFaults + 1
  /\ IF damRun.tries > 1
     THEN /\ dpc' = "backoff" /\ wake' = damNow + DamBackoff
          /\ damRun' = [damRun EXCEPT !.tries = @ - 1] /\ UNCHANGED owed
     ELSE FetchEnds(FALSE)
  /\ UNCHANGED <<damNow, sheets, wholeSince, damRows, attended, partial>>

BackoffEnds ==
  /\ dpc = "backoff" /\ damNow >= wake /\ dpc' = "fetch"
  /\ UNCHANGED <<damNow, sheets, wholeSince, damRows, damRun, wake, owed, attended, partial,
                 damFaultAt, damFaults>>

\* The daily run asks again, unless the delivery day has rolled over.
RetryOnce == BeginBackfill
Retry ==
  IF targetDate # damRun.target THEN BeginBackfill ELSE BeginFetch("daily", DamAttempts)
WaitEnds ==
  /\ dpc = "wait" /\ damNow >= wake
  /\ Retry
  /\ UNCHANGED <<damNow, sheets, wholeSince, damRows, attended, partial, damFaultAt, damFaults>>

\* One day of the backfill: a single attempt if it is not stored whole.
SkipsOnceStored(d) == damRows[d] # {}
SkipsDay(d) == ~needsFetch(d)
NextBackfillDay ==
  IF damRun.target < damRun.until
  THEN damRun' = [damRun EXCEPT !.target = @ + 1] /\ UNCHANGED <<dpc, wake>>
  ELSE damRun' = Idle /\ dpc' = "sleep" /\ wake' = nextRunAt
BackfillDay ==
  LET d == damRun.target IN
  /\ dpc = "backfill"
  /\ \/ /\ (d \in DamDays => SkipsDay(d))
        /\ UNCHANGED <<damRows, owed, damFaultAt, damFaults>>
     \/ /\ d \in DamDays /\ ~SkipsDay(d)
        /\ damRows' = [damRows EXCEPT ![d] = @ \union SheetHoursOf(sheets[d])]
        /\ UNCHANGED <<owed, damFaultAt, damFaults>>
     \/ /\ d \in DamDays /\ ~SkipsDay(d) /\ damFaults < MaxDamFaults
        /\ damFaults' = damFaults + 1 /\ damFaultAt' = damNow
        /\ owed' = owed \ {d} /\ UNCHANGED damRows
  /\ NextBackfillDay
  /\ UNCHANGED <<damNow, sheets, wholeSince, attended, partial>>

DailyRun ==
  /\ dpc = "sleep" /\ damNow >= wake
  /\ BeginFetch("daily", DamAttempts)
  /\ attended' = attended \union {targetDate}
  /\ UNCHANGED <<damNow, sheets, wholeSince, damRows, partial, damFaultAt, damFaults>>

StopDam ==
  /\ dpc # "off" /\ dpc' = "off" /\ damRun' = Idle /\ owed' = {}
  /\ attended' = IF dpc = "sleep" THEN attended ELSE {}
  /\ damFaults < MaxDamFaults /\ damFaults' = damFaults + 1
  /\ UNCHANGED <<damNow, sheets, wholeSince, damRows, wake, partial, damFaultAt>>

\* POST /dam-prices/refresh, and each day of refresh-range: one attempt.
RefreshDay(d) ==
  /\ SheetHoursOf(sheets[d]) # {} /\ damFaults < MaxDamFaults
  /\ damRows' = [damRows EXCEPT ![d] = @ \union SheetHoursOf(sheets[d])]
  /\ damFaults' = damFaults + 1
  /\ UNCHANGED <<damNow, sheets, wholeSince, dpc, damRun, wake, owed, attended, partial,
                 damFaultAt>>

DamInit ==
  /\ damNow = 0
  /\ sheets = [d \in DamDays |-> "absent"] /\ wholeSince = [d \in DamDays |-> LastDamTick + 1]
  /\ damRows = [d \in DamDays |-> {}]
  /\ dpc = "off" /\ damRun = Idle /\ wake = 0 /\ owed = {} /\ attended = {} /\ partial = {}
  /\ damFaultAt = -1 /\ damFaults = 0

DamNext ==
  \/ \E d \in DamDays : PublishSheet(d) \/ RefreshDay(d)
  \/ DamTick \/ StartDam \/ FetchStores \/ FetchRefused \/ DownloadFails \/ BackoffEnds
  \/ WaitEnds \/ BackfillDay \/ DailyRun \/ StopDam

DamSpec == DamInit /\ [][DamNext]_damVars

-----------------------------------------------------------------------------
(* Properties *)

\* "Self-heal recent past days the scheduler may have missed": when the collector
\* goes to sleep, every recent day whose sheet was whole is stored whole
\* (backfillRecent; days with a failed download are left for the next time).
RecentDaysHealed == dpc = "sleep" => \A d \in owed : ~needsFetch(d)

\* "Keeps retrying the scheduled tomorrow-fetch until it succeeds or the delivery
\* date rolls over": a sheet uploaded whole before its day began is stored when the
\* day has, if the collector saw the run time before and no failure since; a run
\* that took part of a sheet does not come back for the rest.
HorizonByMidnight ==
  \A d \in attended \ partial :
    dpc = "sleep" /\ damNow >= d * DamDay /\ wholeSince[d] < d * DamDay
      /\ damFaultAt < wholeSince[d] => ~needsFetch(d)

PricesInTime == RecentDaysHealed /\ HorizonByMidnight
=============================================================================
