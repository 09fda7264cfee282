----------------------------- MODULE PeriodTotals -----------------------------
(***************************************************************************)
(* Months and periods (economics/monthly.go, annual.go): the stored days   *)
(* of a window of months are folded month by month, the months by workers  *)
(* in any order, and the months into the period, its quarters and its      *)
(* heatmap of hours; what lies before the window is only summed.           *)
(***************************************************************************)
EXTENDS Integers, Sequences, SequencesExt, FiniteSets, FiniteSetsExt, Functions

CONSTANTS
  NotYet,          \* nothing computed
  LastMonth,       \* months 0 .. LastMonth have stored days
  DayLength, DaysPerMonth, MonthsPerQuarter,
  MaxWindowMonths, \* maxWindowMonths
  DayRecords,      \* the stored days: totals and hours
  PowerOn,         \* day -> its power ceiling with tolerance; 0: no filter
  MinDischarge     \* heatmapMinDischargeKwh

ASSUME PeriodAssumption ==
  /\ {DayLength, DaysPerMonth, MonthsPerQuarter, MaxWindowMonths} \subseteq Nat \ {0}
  /\ {LastMonth, MinDischarge} \subseteq Nat

Months == 0 .. LastMonth
StoredDays == 0 .. (LastMonth + 1) * DaysPerMonth - 1
MonthOf(d) == d \div DaysPerMonth
DaysOf(m) == {d \in StoredDays : MonthOf(d) = m}
QuarterOf(m) == m \div MonthsPerQuarter

VARIABLES
  days,       \* economics_daily and economics_hourly: day -> its record
  asked,      \* the window of GetPeriod: its end, and its months in order
  hourlyRead, \* LoadHourlyRange did not fail, whose error is ignored
  rollups,    \* month -> its totals
  answer      \* the period served

periodVars == <<days, asked, hourlyRead, rollups, answer>>

PeriodInit ==
  /\ days = <<>> /\ asked = [to |-> 0, months |-> <<>>] /\ hourlyRead = TRUE /\ answer = NotYet
  /\ rollups = [m \in Months |-> NotYet]

-----------------------------------------------------------------------------
(* A month *)

HoursOn(d) == IF hourlyRead THEN days[d].hours ELSE <<>>

\* detectEssAnomalies: the peak inside the hour decides where it is known.
BadHour(d, h) ==
  /\ PowerOn[d] > 0
  /\ IF h.peak > 0 THEN h.peak > PowerOn[d]
     ELSE h.charged > PowerOn[d] \/ h.discharged > PowerOn[d]

Summed(S, value(_)) == MapThenSumSet(value, S)
HoursOf(S) == {<<d, i>> : d \in S, i \in 1 .. DayLength}
Known(S) == {p \in HoursOf(S) : p[2] \in DOMAIN HoursOn(p[1])}
HourAt(p) == HoursOn(p[1])[p[2]]
Bad(S) == {p \in Known(S) : BadHour(p[1], HourAt(p))}

\* The hours with a cell of the heatmap, and what a cell carries.
Traded(S) ==
  {p \in Known(S) \ Bad(S) : HourAt(p).discharged >= MinDischarge /\ HourAt(p).profit # NotYet}
Wear(h) == h.revenue - h.cost - h.profit

\* The fact of a day is its stored one until an hour of the month is corrupt.
Fact(m) ==
  Summed(DaysOf(m), LAMBDA d :
    IF Bad(DaysOf(m)) = {} \/ HoursOn(d) = <<>> THEN days[d].net
    ELSE Summed(Known({d}) \ Bad({d}), LAMBDA p : HourAt(p).net))

\* aggregateMonthTotals: sums, and prices weighted by their energy.
AggregateMonth(m) ==
  LET D == DaysOf(m)
  IN  [hours |-> Summed(D, LAMBDA d : days[d].hoursWithData),
       effect |-> Summed(D, LAMBDA d : days[d].effect),
       ebitda |-> Summed(D, LAMBDA d : days[d].ebitda),
       import |-> Summed(D, LAMBDA d : days[d].import),
       paid |-> Summed(D, LAMBDA d : days[d].price * days[d].import),
       fact |-> Fact(m), anomalous |-> Cardinality(Bad(D)),
       margin |-> [i \in 1 .. DayLength |->
         LET cells == {p \in Traded(D) : p[2] = i}
         IN  [kwh |-> Summed(cells, LAMBDA p : HourAt(p).discharged),
              revenue |-> Summed(cells, LAMBDA p : HourAt(p).revenue),
              cost |-> Summed(cells, LAMBDA p : HourAt(p).cost),
              wear |-> Summed(cells, LAMBDA p : Wear(HourAt(p)))]]]

-----------------------------------------------------------------------------
(* A period *)

\* Mutant of MonthWindow: the oldest months of one that is too long.
MonthWindowOldest(a, b) ==
  LET first == Min({a, b})
      last == Min({Max({a, b}), first + MaxWindowMonths - 1})
  IN  [i \in 1 .. last - first + 1 |-> first + i - 1]

\* The newest MaxWindowMonths of a window, whichever end was given first.
MonthWindow(a, b) ==
  LET last == Max({a, b})
      first == Max({Min({a, b}), last - (MaxWindowMonths - 1)})
  IN  [i \in 1 .. last - first + 1 |-> first + i - 1]

\* GetPeriod reads the stored days and hours of its window.
GetPeriod ==
  /\ days = <<>>
  /\ days' \in [StoredDays -> DayRecords]
  /\ \E a, b \in Months : asked' = [to |-> Max({a, b}), months |-> MonthWindow(a, b)]
  /\ hourlyRead' \in BOOLEAN
  /\ UNCHANGED <<rollups, answer>>

\* A worker solves a month.
SolveMonth(m) ==
  /\ days # <<>> /\ answer = NotYet /\ m \in Range(asked.months) /\ rollups[m] = NotYet
  /\ rollups' = [rollups EXCEPT ![m] = AggregateMonth(m)]
  /\ UNCHANGED <<days, asked, hourlyRead, answer>>

\* SumEbitdaBefore: the days stored before the window.
Prior(first) == Summed({d \in StoredDays : MonthOf(d) < first}, LAMBDA d : days[d].ebitda)

WithData == {m \in Range(asked.months) : rollups[m].hours > 0}

\* aggregatePeriod's fold: a month without data counts in no total.
Fold ==
  /\ days # <<>> /\ answer = NotYet /\ \A m \in Range(asked.months) : rollups[m] # NotYet
  /\ answer' =
       [effect |-> Summed(WithData, LAMBDA m : rollups[m].effect),
        ebitda |-> Summed(WithData, LAMBDA m : rollups[m].ebitda),
        import |-> Summed(WithData, LAMBDA m : rollups[m].import),
        paid |-> Summed(WithData, LAMBDA m : rollups[m].paid),
        fact |-> Summed(WithData, LAMBDA m : rollups[m].fact),
        anomalous |-> Summed(WithData, LAMBDA m : rollups[m].anomalous),
        quarters |-> [q \in {QuarterOf(m) : m \in Range(asked.months)} |->
          Summed({m \in Range(asked.months) : QuarterOf(m) = q}, LAMBDA m : rollups[m].effect)],
        prior |-> Prior(asked.months[1])]
  /\ UNCHANGED <<days, asked, hourlyRead, rollups>>

PeriodNext == GetPeriod \/ (\E m \in Months : SolveMonth(m)) \/ Fold

-----------------------------------------------------------------------------
(* A period is the days it is made of, however long the window asked for   *)
(* and whichever month was solved first: its totals are theirs, its        *)
(* quarters make up its total, all that was earned until its end is in it  *)
(* or before it, and every month's heatmap is the profit of its trades.    *)
PeriodIsItsDays ==
  answer # NotYet =>
    LET D == {d \in StoredDays : MonthOf(d) \in asked.months[1] .. asked.to}
    IN  /\ answer.effect = Summed(D, LAMBDA d : days[d].effect)
        /\ answer.effect = SumFunction(answer.quarters)
        /\ answer.paid = Summed(D, LAMBDA d : days[d].price * days[d].import)
        /\ answer.prior + answer.ebitda =
             Summed({d \in StoredDays : MonthOf(d) <= asked.to}, LAMBDA d : days[d].ebitda)
        /\ answer.anomalous = Cardinality(Bad(D))
        /\ \A m \in Range(asked.months), i \in 1 .. DayLength :
             LET cell == rollups[m].margin[i]
             IN  cell.revenue - cell.cost - cell.wear =
                   Summed({p \in Traded(DaysOf(m)) : p[2] = i}, LAMBDA p : HourAt(p).profit)
============================================================================
