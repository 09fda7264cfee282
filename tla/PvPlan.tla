------------------------------- MODULE PvPlan --------------------------------
(***************************************************************************)
(* The in-house plan of a station's sun (src/internal/pvplan/planner.go,   *)
(* storage/pvplan.go, api/pvplan.go): one forecast run at a time, the      *)
(* passport it is computed from, the two plans kept per day, the rebuild   *)
(* of past days and the plan that control acts on.  A plan is told by the  *)
(* passport and the moment of the weather it was computed from.            *)
(***************************************************************************)
EXTENDS Integers, FiniteSets, FiniteSetsExt

CONSTANTS
  NoPlan,         \* no row, no forecast
  PvTicks,        \* ticks of a day
  RunTicks,       \* runHours: the ticks of a day the forecast is refreshed at
  LastPvTick,     \* bound: the clock stops here
  MaxPassports,   \* bound: saved passports
  MaxRebuilds,    \* bound: rebuilds asked for
  MaxPvFaults     \* bound: failed runs and restarts

ASSUME PvAssumption ==
  /\ PvTicks \in Nat \ {0} /\ RunTicks \subseteq 0 .. PvTicks - 1
  /\ {LastPvTick, MaxPassports, MaxRebuilds, MaxPvFaults} \subseteq Nat

PvDayOf(t) == t \div PvTicks
PvDays == 0 .. PvDayOf(LastPvTick) + 1

VARIABLES
  pvClock,
  passport,     \* the version of the stored passport
  runRequests,  \* forecasts asked for whose goroutine has not claimed yet
  rerun,        \* a request found a run going
  pvRun,        \* the run in flight: its step, passport, weather and days
  rebuild,      \* the history job: its step, weather, days and rebuilds so far
  latest,       \* day -> plan, for control
  dayAhead,     \* day -> plan, for plan against actual
  pvFaults

pvVars == <<pvClock, passport, runRequests, rerun, pvRun, rebuild, latest, dayAhead, pvFaults>>

IdleRun == [at |-> "idle", passport |-> 0, weather |-> 0, today |-> 0, has |-> FALSE]
IdleJob == [at |-> "idle", passport |-> 0, days |-> {}]

PvInit ==
  /\ pvClock = 0 /\ passport = 1 /\ runRequests = 1 /\ rerun = FALSE
  /\ pvRun = IdleRun /\ rebuild = [job |-> IdleJob, count |-> 0] /\ pvFaults = 0
  /\ latest = [d \in PvDays |-> NoPlan] /\ dayAhead = [d \in PvDays |-> NoPlan]

-----------------------------------------------------------------------------
(* Asking for a run *)

\* SaveStation replaces the passport and asks for a run in the background.
SaveStation ==
  /\ passport < MaxPassports /\ passport' = passport + 1
  /\ runRequests' = runRequests + 1
  /\ UNCHANGED <<pvClock, rerun, pvRun, rebuild, latest, dayAhead, pvFaults>>

\* Planner.Run at a run hour.
ScheduledRun ==
  /\ pvClock % PvTicks \in RunTicks /\ runRequests = 0
  /\ runRequests' = 1
  /\ UNCHANGED <<pvClock, passport, rerun, pvRun, rebuild, latest, dayAhead, pvFaults>>

\* Mutant of Claimed: a request that finds a run going is dropped.
ClaimedDropped(busy) == FALSE

\* claim: who finds a run going asks it to go again.
Claimed(busy) == rerun \/ busy

Claim ==
  /\ runRequests > 0 /\ runRequests' = runRequests - 1
  /\ rerun' = Claimed(pvRun.at # "idle")
  /\ pvRun' = IF pvRun.at = "idle" THEN [IdleRun EXCEPT !.at = "load"] ELSE pvRun
  /\ UNCHANGED <<pvClock, passport, rebuild, latest, dayAhead, pvFaults>>

-----------------------------------------------------------------------------
(* A run *)

\* forecastOnce reads the passport,
LoadPassport ==
  /\ pvRun.at = "load"
  /\ pvRun' = [pvRun EXCEPT !.at = "weather", !.passport = passport]
  /\ UNCHANGED <<pvClock, passport, runRequests, rerun, rebuild, latest, dayAhead, pvFaults>>

\* asks for the weather plane by plane,
FetchWeather ==
  /\ pvRun.at = "weather"
  /\ pvRun' = [pvRun EXCEPT !.at = "days", !.weather = pvClock]
  /\ UNCHANGED <<pvClock, passport, runRequests, rerun, rebuild, latest, dayAhead, pvFaults>>

\* reads the clock and whether today has a day-ahead plan,
SortDays ==
  /\ pvRun.at = "days"
  /\ pvRun' = [pvRun EXCEPT !.at = "latest", !.today = PvDayOf(pvClock),
                            !.has = dayAhead[PvDayOf(pvClock)] # NoPlan]
  /\ UNCHANGED <<pvClock, passport, runRequests, rerun, rebuild, latest, dayAhead, pvFaults>>

\* The complete days of the answer: the weather reaches to the day after
\* its tomorrow.
DaysOfWeather == PvDayOf(pvRun.weather) .. PvDayOf(pvRun.weather) + 2
Planned(days, plans) ==
  [d \in PvDays |-> IF d \in days \cap DaysOfWeather
                    THEN [passport |-> pvRun.passport, weather |-> pvRun.weather, archived |-> FALSE]
                    ELSE plans[d]]

\* stores the plan for control,
SaveLatest ==
  /\ pvRun.at = "latest"
  /\ pvRun' = [pvRun EXCEPT !.at = "dayAhead"]
  /\ latest' = Planned({pvRun.today, pvRun.today + 1}, latest)
  /\ UNCHANGED <<pvClock, passport, runRequests, rerun, rebuild, dayAhead, pvFaults>>

\* Mutant of DayAheadDays: today's plan is written by every run.
DayAheadDaysBoth == {pvRun.today, pvRun.today + 1}

\* The days whose day-ahead plan a run writes: tomorrow, and today if it
\* had none.
DayAheadDays == {pvRun.today + 1} \cup (IF pvRun.has THEN {} ELSE {pvRun.today})

\* and the day-ahead plans,
SaveDayAhead ==
  /\ pvRun.at = "dayAhead"
  /\ pvRun' = [pvRun EXCEPT !.at = "again"]
  /\ dayAhead' = Planned(DayAheadDays, dayAhead)
  /\ UNCHANGED <<pvClock, passport, runRequests, rerun, rebuild, latest, pvFaults>>

\* and goes again if it was asked to meanwhile.
TakeRerun ==
  /\ pvRun.at = "again"
  /\ rerun' = FALSE
  /\ pvRun' = IF rerun THEN [IdleRun EXCEPT !.at = "load"] ELSE [pvRun EXCEPT !.at = "release"]
  /\ UNCHANGED <<pvClock, passport, runRequests, rebuild, latest, dayAhead, pvFaults>>

Release ==
  /\ pvRun.at = "release"
  /\ pvRun' = [pvRun EXCEPT !.at = "idle"]
  /\ UNCHANGED <<pvClock, passport, runRequests, rerun, rebuild, latest, dayAhead, pvFaults>>

\* The weather or the database fails a run.
RunFails ==
  /\ pvRun.at \in {"weather", "days", "latest", "dayAhead"}
  /\ pvFaults < MaxPvFaults /\ pvFaults' = pvFaults + 1
  /\ pvRun' = [pvRun EXCEPT !.at = "again"]
  /\ UNCHANGED <<pvClock, passport, runRequests, rerun, rebuild, latest, dayAhead>>

\* The API restarts and begins with a run.
PvRestart ==
  /\ pvFaults < MaxPvFaults /\ pvFaults' = pvFaults + 1
  /\ pvRun' = IdleRun /\ runRequests' = 1 /\ rerun' = FALSE
  /\ rebuild' = [rebuild EXCEPT !.job = IdleJob]
  /\ UNCHANGED <<pvClock, passport, latest, dayAhead>>

-----------------------------------------------------------------------------
(* The rebuild of past days *)

\* StartHistory refuses a second job; without an end it goes to yesterday.
StartHistory ==
  \E from \in PvDays, to \in {PvDayOf(pvClock) - 1, PvDayOf(pvClock)} :
    /\ rebuild.job.at = "idle" /\ rebuild.count < MaxRebuilds /\ from <= to
    /\ rebuild' = [job |-> [at |-> "archive", passport |-> passport, days |-> from .. to],
                   count |-> rebuild.count + 1]
    /\ UNCHANGED <<pvClock, passport, runRequests, rerun, pvRun, latest, dayAhead, pvFaults>>

\* PreviousDay1: every hour as it was forecast a day before.
HistoryPlan(d) ==
  [passport |-> rebuild.job.passport, weather |-> d * PvTicks - 1, archived |-> TRUE]

\* runHistory replaces the day-ahead plans of its days.
SaveHistory ==
  /\ rebuild.job.at = "archive"
  /\ dayAhead' = [d \in PvDays |-> IF d \in rebuild.job.days THEN HistoryPlan(d) ELSE dayAhead[d]]
  /\ rebuild' = [rebuild EXCEPT !.job = IdleJob]
  /\ UNCHANGED <<pvClock, passport, runRequests, rerun, pvRun, latest, pvFaults>>

PvTick ==
  /\ pvClock < LastPvTick /\ pvClock' = pvClock + 1
  /\ UNCHANGED <<passport, runRequests, rerun, pvRun, rebuild, latest, dayAhead, pvFaults>>

PvNext ==
  \/ SaveStation \/ ScheduledRun \/ Claim
  \/ LoadPassport \/ FetchWeather \/ SortDays \/ SaveLatest \/ SaveDayAhead \/ TakeRerun \/ Release
  \/ RunFails \/ PvRestart \/ StartHistory \/ SaveHistory \/ PvTick

PvSpec == PvInit /\ [][PvNext]_pvVars

\* Mutant of ControlPlan: the plan the day was judged by comes first.
ControlPlanFrozen(d) == IF dayAhead[d] # NoPlan THEN dayAhead[d] ELSE latest[d]

\* pvPlanControlHours: the freshest revision, else the day-ahead plan.
ControlPlan(d) == IF latest[d] # NoPlan THEN latest[d] ELSE dayAhead[d]

-----------------------------------------------------------------------------
(* Properties *)

\* Whichever run broke off between storing its two plans, and however far
\* apart passport and weather were read, control acts on a plan where there
\* is one, and on none older than another run's plan for the day.
ControlIsFreshest ==
  \A d \in PvDays :
    \A plan \in {latest[d], dayAhead[d]} \ {NoPlan} :
      /\ ControlPlan(d) # NoPlan
      /\ plan.archived \/ ControlPlan(d).weather >= plan.weather

\* A passport saved while a run is going is not forgotten: until the plan
\* is computed from it a run has yet to read it, or is asked for, or is
\* told to go again, or one has failed.
PassportNotForgotten ==
  \/ pvFaults > 0 \/ runRequests > 0 \/ rerun \/ pvRun.at = "load"
  \/ pvRun.passport = passport

\* Control's plan follows the newest run and every run the newest passport.
PlanFollowsPassport == ControlIsFreshest /\ PassportNotForgotten

\* claim: "a passport saved mid-run is not computed with the old planes and
\* then forgotten".  With no run left to come, the plan is of the passport.
PassportPlanned ==
  pvFaults = 0 /\ runRequests = 0 /\ pvRun.at = "idle" =>
    \A d \in PvDays : latest[d] # NoPlan /\ d >= PvDayOf(pvClock) => latest[d].passport = passport

\* DayAhead "is frozen at the last run before the day starts ... so intraday
\* revisions can't chase the weather": once a day has begun, the plan a run
\* made for it gives way only to one of weather from before the day.
FrozenOnceBegun ==
  [][\A d \in PvDays :
       /\ d <= PvDayOf(pvClock) /\ dayAhead[d] # NoPlan /\ dayAhead'[d] # dayAhead[d]
       /\ ~dayAhead[d].archived
       => dayAhead'[d].weather < d * PvTicks]_dayAhead
===============================================================================
