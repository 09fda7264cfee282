----------------------------- MODULE EconomicsDays -----------------------------
(***************************************************************************)
(* The table of computed days (internal/economics/service.go, storage/     *)
(* economics.go, cmd/economics-recompute, the economics handlers).  Four   *)
(* goroutines compute and store the same days: the refresh of today, the   *)
(* nightly finalisation, the healing of days whose counters were           *)
(* corrected, and requests that find no servable row.                      *)
(*                                                                         *)
(* A computation reads flows, then prices, then the clock, and stores      *)
(* hours and summary by two statements.  What a day is computed from is a  *)
(* level: some telemetry, all of it, all of it corrected.                  *)
(***************************************************************************)
EXTENDS Integers, FiniteSets, Optional

CONSTANTS
  LastDay,              \* bound on the calendar
  LateDays,             \* days whose prices are published late
  AskedDays,            \* days requests ask for
  Workers,              \* the goroutines, of "today", "nightly", "heal", "request"
  FinalizeDays,         \* economics.finalize_days
  LookaheadDays,        \* healLookaheadDays
  MaxJobs,              \* bound on computations under way at once
  MaxTroubles           \* bound on corrections, missed nights, failed days and restarts

ASSUME EconomicsAssumption ==
  /\ LastDay \in Nat /\ FinalizeDays \in Nat \ {0} /\ LookaheadDays \in Nat
  /\ Workers \subseteq {"today", "nightly", "heal", "request"} /\ LateDays \subseteq 0..LastDay
  /\ Nil \notin [level : 0..3, priced : BOOLEAN, final : BOOLEAN]

Days == 0..LastDay

VARIABLES
  today,
  level,                \* 0 no telemetry, 1 some, 2 all of the day, 3 all of it, corrected
  priced,               \* days whose market prices are stored
  hourly,               \* economics_hourly: the level its rows are of, Nil
  daily,                \* economics_daily: [level, priced, final], Nil
  job,                  \* what each goroutine computes: [at, day, left, begun, ...], Nil
  queue,                \* healer.pending, in days
  finalized,            \* whether tonight's run was made
  troubles,             \* [corrections, misses]
  shortchanged          \* history: a final answer lacked prices that were stored

econVars == <<today, level, priced, hourly, daily, job, queue, finalized, troubles, shortchanged>>

EconInit ==
  /\ today = 0
  /\ level = [d \in Days |-> IF d = 0 THEN 1 ELSE 0] /\ priced = Days \ LateDays
  /\ hourly = [d \in Days |-> Nil] /\ daily = [d \in Days |-> Nil]
  /\ job = [w \in Workers |-> Nil]
  /\ queue = {} /\ finalized = TRUE
  /\ troubles = [corrections |-> 0, misses |-> 0]
  /\ shortchanged = FALSE

-------------------------------------------------------------------------------
(* Telemetry, prices, corrections, the calendar. *)

PricesPublished(d) ==
  /\ d \notin priced /\ priced' = priced \union {d}
  /\ UNCHANGED <<today, level, hourly, daily, job, queue, finalized, troubles, shortchanged>>

\* stitchAll, then enqueue, in the daemon; the spans die with it.
Corrected(d) ==
  /\ d < today /\ level[d] = 2 /\ troubles.corrections + troubles.misses < MaxTroubles
  /\ level' = [level EXCEPT ![d] = 3]
  /\ queue' = queue \union {d}
  /\ troubles' = [troubles EXCEPT !.corrections = @ + 1]
  /\ UNCHANGED <<today, priced, hourly, daily, job, finalized, shortchanged>>

\* No computation outlives a whole day, and a night without its run is a miss.
Midnight ==
  /\ today < LastDay
  /\ \A w \in Workers : job[w] # Nil => job[w].begun = today
  /\ "nightly" \in Workers => job["nightly"] = Nil
  /\ finalized \/ troubles.corrections + troubles.misses < MaxTroubles
  /\ troubles' = IF finalized THEN troubles ELSE [troubles EXCEPT !.misses = @ + 1]
  /\ today' = today + 1 /\ finalized' = FALSE
  /\ level' = [level EXCEPT ![today] = 2, ![today + 1] = 1]
  /\ UNCHANGED <<priced, hourly, daily, job, queue, shortchanged>>

-------------------------------------------------------------------------------
(* Who computes which days. *)

\* The range of a goroutine: RecomputeRange goes through it day by day.
Begin(w, days, owed) ==
  /\ w \in Workers /\ job[w] = Nil /\ days # {}
  /\ Cardinality({v \in Workers : job[v] # Nil}) < MaxJobs
  /\ job' = [job EXCEPT ![w] = [at |-> "flows", left |-> days, begun |-> today,
                                owed |-> owed,
                                level |-> 0, priced |-> FALSE, final |-> FALSE]]

RefreshToday ==
  /\ Begin("today", {today}, FALSE)
  /\ UNCHANGED <<today, level, priced, hourly, daily, queue, finalized, troubles, shortchanged>>

\* Mutant of FinalizeWindow: finalize_days counts today.
FinalizeWindowToday == {d \in Days : today - FinalizeDays < d /\ d < today}

\* Yesterday and the finalize_days - 1 days before it.
FinalizeWindow == {d \in Days : today - FinalizeDays <= d /\ d < today}

FinalizeRecent ==
  /\ ~finalized /\ Begin("nightly", FinalizeWindow, FALSE)
  /\ UNCHANGED <<today, level, priced, hourly, daily, queue, finalized, troubles, shortchanged>>

\* take, dayRanges: the changed days and those that look back on them.
Heal ==
  /\ queue # {}
  /\ Begin("heal", {d \in Days : d < today /\ \E q \in queue : q <= d /\ d <= q + LookaheadDays},
           FALSE)
  /\ queue' = {}
  /\ UNCHANGED <<today, level, priced, hourly, daily, finalized, troubles, shortchanged>>

\* Mutant of Servable: a final row is served whether or not it has its prices.
ServableFinal(row) == row # Nil

\* The rows GetDay answers with as they are.
Servable(row) == row # Nil /\ (row.final => row.priced)

\* An answer about a final day owes its reader the prices stored by then.
Answer(row, owed) == shortchanged' = (shortchanged \/ (row.final /\ owed /\ ~row.priced))

GetDay(d) ==
  /\ "request" \in Workers /\ d <= today /\ job["request"] = Nil
  /\ IF Servable(daily[d])
       THEN /\ Answer(daily[d], d \in priced) /\ UNCHANGED job
       ELSE /\ Begin("request", {d}, d \in priced) /\ UNCHANGED shortchanged
  /\ UNCHANGED <<today, level, priced, hourly, daily, queue, finalized, troubles>>

-------------------------------------------------------------------------------
(* ComputeDay *)

DayOf(w) == CHOOSE d \in job[w].left : \A e \in job[w].left : d <= e
At(w, at) == job[w] # Nil /\ job[w].at = at

ReadFlows(w) ==
  /\ At(w, "flows")
  /\ job' = [job EXCEPT ![w].at = "prices", ![w].level = level[DayOf(w)]]
  /\ UNCHANGED <<today, level, priced, hourly, daily, queue, finalized, troubles, shortchanged>>

\* Prices, then isFinal from the clock.
ReadPrices(w) ==
  /\ At(w, "prices")
  /\ job' = [job EXCEPT ![w].at = "hours", ![w].priced = DayOf(w) \in priced,
                        ![w].final = DayOf(w) < today]
  /\ UNCHANGED <<today, level, priced, hourly, daily, queue, finalized, troubles, shortchanged>>

RowOf(w) == [level |-> job[w].level, priced |-> job[w].priced, final |-> job[w].final]

SaveHourly(w) ==
  /\ At(w, "hours")
  /\ hourly' = [hourly EXCEPT ![DayOf(w)] = job[w].level]
  /\ job' = [job EXCEPT ![w].at = "summary"]
  /\ UNCHANGED <<today, level, priced, daily, queue, finalized, troubles, shortchanged>>

LastOf(w) == job[w].left = {DayOf(w)}

\* The next day of the range, or the end of the run.
AdvanceJob(w) ==
  LET rest == [job[w] EXCEPT !.at = "flows", !.left = @ \ {DayOf(w)}]
  IN job' = [job EXCEPT ![w] = IF LastOf(w) THEN Nil ELSE rest]

SaveDaily(w) ==
  /\ At(w, "summary")
  /\ daily' = [daily EXCEPT ![DayOf(w)] = RowOf(w)]
  /\ AdvanceJob(w)
  /\ finalized' = (finalized \/ (w = "nightly" /\ LastOf(w)))
  /\ IF w = "request" THEN Answer(RowOf(w), job[w].owed) ELSE UNCHANGED shortchanged
  /\ UNCHANGED <<today, level, priced, hourly, queue, troubles>>

\* A query fails: the range goes on without the day; a request answers 500.
DayFails(w) ==
  /\ job[w] # Nil /\ troubles.corrections + troubles.misses < MaxTroubles
  /\ AdvanceJob(w)
  /\ finalized' = (finalized \/ (w = "nightly" /\ LastOf(w)))
  /\ troubles' = [troubles EXCEPT !.misses = @ + 1]
  /\ UNCHANGED <<today, level, priced, hourly, daily, queue, shortchanged>>

\* The daemon restarts: it stitches, finalises and refreshes at once.
Restart ==
  /\ troubles.corrections + troubles.misses < MaxTroubles
  /\ job' = [w \in Workers |-> IF w = "request" THEN job[w] ELSE Nil]
  /\ queue' = {} /\ finalized' = FALSE
  /\ troubles' = [troubles EXCEPT !.misses = @ + 1]
  /\ UNCHANGED <<today, level, priced, hourly, daily, shortchanged>>

EconNext ==
  \/ Midnight \/ RefreshToday \/ FinalizeRecent \/ Heal \/ Restart
  \/ \E d \in Days : PricesPublished(d) \/ Corrected(d)
  \/ \E d \in AskedDays : GetDay(d)
  \/ \E w \in Workers :
       ReadFlows(w) \/ ReadPrices(w) \/ SaveHourly(w) \/ SaveDaily(w) \/ DayFails(w)

EconSpec == EconInit /\ [][EconNext]_econVars

-------------------------------------------------------------------------------
(* Properties *)

\* A refresh that reads before midnight and looks at the clock after it stores
\* a part of the day as final, and whoever stores last wins; yet once a day has
\* left the window of the nightly runs and nobody computes it, hours and
\* summary are of the whole day, if no night and no day of a run was missed
\* (service.go ComputeDay, main.go finalizeRecent).
LeavesWindowWhole ==
  troubles.misses = 0 => \A d \in Days :
    d + FinalizeDays < today /\ (\A w \in Workers : job[w] # Nil => d \notin job[w].left) =>
      /\ daily[d] # Nil /\ daily[d].level >= 2 /\ daily[d].final
      /\ hourly[d] >= 2

\* A final day is never answered without prices that were stored when the
\* request came: rows finalised before a late publication heal on read
\* (service.go GetDay).
FinalAnswersArePriced == ~shortchanged

\* Past days settle: whole once the window has passed, priced once answered.
PastDaysSettle == LeavesWindowWhole /\ FinalAnswersArePriced
===============================================================================
