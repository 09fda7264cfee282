------------------------------ MODULE DayPlans ------------------------------
(***************************************************************************)
(* Day plans (economics/dayplan.go): the forecast of tomorrow's            *)
(* consumption from the stored hours of today and yesterday, which the     *)
(* recompute rewrites meanwhile, and the recommended consumption that      *)
(* moves a day's flexible load to its cheapest hours.                      *)
(***************************************************************************)
EXTENDS Integers, Sequences, SequencesExt, FiniteSets, FiniteSetsExt, Functions

CONSTANTS
  NoPlanYet,     \* nothing computed
  PlanHours,     \* hours of a day
  TicksPerHour,  \* clock ticks of an hour; a tick consumes one unit today
  Yesterday,     \* hour -> consumption of yesterday, NoPlanYet where it has none
  LoadRecords,   \* the hours a recommended day may have
  LastPlanTick   \* bound: the clock stops here

ASSUME DayPlanAssumption ==
  {PlanHours, TicksPerHour, LastPlanTick} \subseteq Nat \ {0}

DayHours == 0 .. PlanHours - 1
HourEnd(h) == (h + 1) * TicksPerHour

VARIABLES
  planClock,
  recompute,   \* the pass that stores today: step and the telemetry's end
  stored,      \* [rows |-> hour -> consumption, until]: economics_hourly of today
  computedAt,  \* computed_at of today's row of economics_daily
  request,     \* GetForecastDayPlan: its step, its now and what it has read
  dayHours,    \* the hours of a recommended day
  recommended  \* hour -> recommended consumption

planVars == <<planClock, recompute, stored, computedAt, request, dayHours, recommended>>

NoRows == [h \in DayHours |-> NoPlanYet]
IdleRequest == [at |-> "idle", now |-> 0, rows |-> NoRows, load |-> NoRows, closed |-> {}]

PlanInit ==
  /\ planClock = 0 /\ recompute = [at |-> "idle", until |-> 0] /\ stored = NoRows
  /\ computedAt = NoPlanYet /\ request = IdleRequest /\ dayHours = <<>> /\ recommended = <<>>

-----------------------------------------------------------------------------
(* The recompute of today, and the request that plans tomorrow *)

PlanTick ==
  /\ planClock < LastPlanTick /\ planClock' = planClock + 1
  /\ UNCHANGED <<recompute, stored, computedAt, request, dayHours, recommended>>

\* What a reading of the telemetry at t gives an hour of today.
Consumed(h, t) ==
  IF t <= h * TicksPerHour THEN NoPlanYet ELSE Min({t, HourEnd(h)}) - h * TicksPerHour

ReadTelemetry ==
  /\ recompute.at = "idle" /\ recompute' = [at |-> "read", until |-> planClock]
  /\ UNCHANGED <<planClock, stored, computedAt, request, dayHours, recommended>>

SaveHours ==
  /\ recompute.at = "read" /\ recompute' = [recompute EXCEPT !.at = "hours"]
  /\ stored' = [h \in DayHours |-> Consumed(h, recompute.until)]
  /\ UNCHANGED <<planClock, computedAt, request, dayHours, recommended>>

SaveSummary ==
  /\ recompute.at = "hours" /\ recompute' = [recompute EXCEPT !.at = "idle"]
  /\ computedAt' = planClock
  /\ UNCHANGED <<planClock, stored, request, dayHours, recommended>>

ReadHours ==
  /\ request.at = "idle"
  /\ request' = [IdleRequest EXCEPT !.at = "rows", !.now = planClock, !.rows = stored]
  /\ UNCHANGED <<planClock, recompute, stored, computedAt, dayHours, recommended>>

\* Mutant of MeasuredUntil: the recompute's time, also one after the request's.
MeasuredUntilComputed(now) == IF computedAt = NoPlanYet THEN now ELSE computedAt

MeasuredUntil(now) == IF computedAt = NoPlanYet THEN now ELSE Min({now, computedAt})

\* forecastLoadSource: today's closed hour, else yesterday's, else today's.
LoadSource(h, closed, rows) ==
  IF (closed /\ rows[h] # NoPlanYet) \/ Yesterday[h] = NoPlanYet THEN rows[h] ELSE Yesterday[h]

\* Today's computed_at, read after its hours, says which of them are closed.
ReadSummary ==
  /\ request.at = "rows"
  /\ LET closed == {h \in DayHours : HourEnd(h) <= MeasuredUntil(request.now)}
     IN  request' = [request EXCEPT !.at = "planned", !.closed = closed,
                       !.load = [h \in DayHours |-> LoadSource(h, h \in closed, request.rows)]]
  /\ UNCHANGED <<planClock, recompute, stored, computedAt, dayHours, recommended>>

AnswerPlan ==
  /\ request.at = "planned" /\ request' = IdleRequest
  /\ UNCHANGED <<planClock, recompute, stored, computedAt, dayHours, recommended>>

-----------------------------------------------------------------------------
(* recommendLoad *)

\* loadOf: the ESS leg of a corrupt hour is left out.
LoadOf(r) == r.pvToLoad + r.gridToLoad + IF r.bad THEN 0 ELSE r.essToLoad
Loads(hs) == [i \in DOMAIN hs |-> LoadOf(hs[i])]
Base(hs) == Min(Range(Loads(hs)))
Headroom(hs) == Max(Range(Loads(hs))) - Base(hs)
Flexible(hs) == SumFunction(Loads(hs)) - Base(hs) * Len(hs)
Priced(hs) == {i \in DOMAIN hs : hs[i].priced}

\* Sun left over the base load, at the price of its export; the rest of the
\* hour's headroom at the price of the grid.
SunBand(hs, i) ==
  Min({Max({hs[i].pvToLoad + hs[i].pvToGrid - Base(hs), 0}), Headroom(hs)})
Bands(hs) ==
  {[hour |-> i, kwh |-> SunBand(hs, i), cost |-> hs[i].export] : i \in Priced(hs)}
    \cup {[hour |-> i, kwh |-> Headroom(hs) - SunBand(hs, i), cost |-> hs[i].import] : i \in Priced(hs)}

Cheaper(a, b) == a.cost < b.cost \/ (a.cost = b.cost /\ a.hour < b.hour)

\* What of a band the hour's headroom still takes.
Room(hs, alloc, band) == Min({band.kwh, Headroom(hs) - alloc[band.hour]})

Filled(hs) ==
  LET fill(s, band) ==
        LET take == Min({Room(hs, s.alloc, band), s.left})
        IN  [alloc |-> [s.alloc EXCEPT ![band.hour] = @ + take], left |-> s.left - take]
  IN  FoldLeft(fill, [alloc |-> [i \in DOMAIN hs |-> 0], left |-> Flexible(hs)],
               SetToSortSeq({b \in Bands(hs) : b.kwh > 0}, Cheaper))

\* Mutant of Spread: what priced hours cannot take is dropped.
SpreadNever(hs) == Filled(hs)

\* What priced hours cannot take goes evenly to those without a price.
Spread(hs) ==
  LET open == SetToSortSeq(DOMAIN hs \ Priced(hs), <)
      share(s, n) ==
        LET part == Min({s.left \div (Len(open) + 1 - n), Headroom(hs)})
        IN  [alloc |-> [s.alloc EXCEPT ![open[n]] = @ + part], left |-> s.left - part]
  IN  FoldLeft(share, Filled(hs), [n \in DOMAIN open |-> n])

RecommendLoad(hs) ==
  IF Priced(hs) = {} THEN Loads(hs)
  ELSE [i \in DOMAIN hs |-> Base(hs) + Spread(hs).alloc[i]]

PlanLoad ==
  /\ planClock = 0 /\ recompute.at = "idle" /\ computedAt = NoPlanYet /\ request.at = "idle"
  /\ \E hs \in [1 .. PlanHours -> LoadRecords] :
       SumFunction(Loads(hs)) > 0 /\ dayHours' = hs /\ recommended' = RecommendLoad(hs)
  /\ UNCHANGED <<planClock, recompute, stored, computedAt, request>>

PlanNext ==
  /\ dayHours = <<>>
  /\ \/ PlanTick \/ ReadTelemetry \/ SaveHours \/ SaveSummary
     \/ ReadHours \/ ReadSummary \/ AnswerPlan \/ PlanLoad

PlanSpec == PlanInit /\ [][PlanNext]_planVars

-----------------------------------------------------------------------------
(* An hour of today that had not ended when the plan was asked for keeps   *)
(* yesterday's consumption, whatever is stored of it by then.              *)
OpenHoursFromYesterday ==
  request.at = "planned" =>
    \A h \in DayHours : HourEnd(h) > request.now /\ Yesterday[h] # NoPlanYet =>
      request.load[h] = Yesterday[h]

(* What an hour of today that counts as closed gives the plan is the whole *)
(* hour.  A recompute that ends between the two reads of a request, or     *)
(* that read its telemetry before the hour ended, makes it a part of one.  *)
ClosedHoursAreWhole ==
  request.at = "planned" =>
    \A h \in request.closed : request.rows[h] \in {NoPlanYet, TicksPerHour}

\* What an allocation of extra load costs.
Cost(hs, alloc) ==
  SumFunction([i \in Priced(hs) |->
    Min({alloc[i], SunBand(hs, i)}) * hs[i].export
      + Max({alloc[i] - SunBand(hs, i), 0}) * hs[i].import])
Allocations(hs) ==
  {a \in [Priced(hs) -> 0 .. Headroom(hs)] :
     SumFunction(a) = Min({Flexible(hs), Headroom(hs) * Cardinality(Priced(hs))})}

(* The recommended consumption is the day's energy, in no hour below the   *)
(* day's base nor above its peak, and no other placement of the flexible   *)
(* part over the priced hours is cheaper.                                  *)
RecommendedLoadFits ==
  dayHours # <<>> =>
    LET alloc == [i \in DOMAIN dayHours |-> recommended[i] - Base(dayHours)]
    IN  /\ SumFunction(recommended) = SumFunction(Loads(dayHours))
        /\ \A i \in DOMAIN dayHours : alloc[i] \in 0 .. Headroom(dayHours)
        /\ Priced(dayHours) # {} =>
             \A a \in Allocations(dayHours) : Cost(dayHours, alloc) <= Cost(dayHours, a)

\* A plan for today rests on hours it may use and moves only the load there is.
PlanWithinRecords == OpenHoursFromYesterday /\ RecommendedLoadFits
============================================================================
