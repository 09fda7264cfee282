----------------------------- MODULE OptimumDay -----------------------------
(***************************************************************************)
(* The best a battery could have earned over the hours of a day or of a    *)
(* month (economics/optimum.go, cycle.go, and the ladder of monthly.go): a *)
(* dynamic program over levels of charge, run for three freedoms of        *)
(* charging, and the schedule traced back from it.  A level is the unit of *)
(* stored energy; efficiencies show in what a level draws and delivers.    *)
(***************************************************************************)
EXTENDS Integers, Sequences, FiniteSets, FiniteSetsExt, SequencesExt

CONSTANTS
  NoLevel,       \* an unknown residual
  OptHours,      \* hours of the period
  HourRecords,   \* the stored hours a period may have: HourlyRecord
  CapacityLevels,\* the pack's capacity
  PowerLevels,   \* configured power limit in levels an hour; 0: none configured
  LevelDraws,    \* AC energy to climb a level
  LevelGives,    \* AC energy a dropped level delivers
  OptWear,       \* degradation cost of a unit delivered
  FreeBelow      \* an export price below this counts as none

ASSUME OptimumAssumption ==
  /\ {OptHours, CapacityLevels, LevelDraws, LevelGives} \subseteq Nat \ {0}
  /\ LevelDraws >= LevelGives /\ {PowerLevels, OptWear, FreeBelow} \subseteq Nat
  /\ NoLevel \notin Int
  /\ \A r \in HourRecords :
       /\ {r.priced, r.bad} \subseteq BOOLEAN /\ {r.import, r.export} \subseteq Int
       /\ {r.pvToGrid, r.pvToEss, r.gridToLoad, r.essToLoad, r.gridToEss,
           r.charged, r.discharged} \subseteq Nat
       /\ r.residual \in Nat \cup {NoLevel}

Freedoms == {"full", "noPv", "fixedCharge"}

VARIABLES
  optPhase,   \* "posed", "solving", "tracing" or "done"
  records,    \* the period's stored hours
  best,       \* freedom -> level reached -> most money
  parents,    \* hour -> level -> the level it was best reached from, freedom "full"
  trace       \* the levels of the schedule, last hour first

optVars == <<optPhase, records, best, parents, trace>>

NoBest == [m \in Freedoms |-> <<>>]

OptInit ==
  /\ optPhase = "posed" /\ records = <<>> /\ best = NoBest /\ parents = <<>> /\ trace = <<>>

-----------------------------------------------------------------------------
(* The envelope a battery has demonstrated or is configured with *)

Seen(rs) == {i \in DOMAIN rs : ~rs[i].bad}
Residuals(rs) == {rs[i].residual : i \in Seen(rs)} \ {NoLevel}

\* The levels the optimum may use: the whole pack when its power is configured
\* or nothing usable was shown, else what the residuals showed.
Window(rs) ==
  LET lo == Min(Residuals(rs))
      hi == Min({CapacityLevels, Max(Residuals(rs))})
  IN  IF PowerLevels > 0 \/ Residuals(rs) = {} THEN 0 .. CapacityLevels
      ELSE IF hi <= lo THEN 0 .. CapacityLevels ELSE lo .. hi

Power(moved, perLevel) ==
  IF PowerLevels > 0 THEN PowerLevels * perLevel
  ELSE IF moved \in {{}, {0}} THEN CapacityLevels * perLevel ELSE Max(moved)
MaxCharge(rs) == Power({rs[i].charged : i \in Seen(rs)}, LevelDraws)
MaxDischarge(rs) == Power({rs[i].discharged : i \in Seen(rs)}, LevelGives)

\* Mutant of Offer: only what the sun sold is left to store.
OfferUnsold(r) ==
  [tradable |-> r.priced, import |-> r.import, export |-> r.export,
   surplus |-> IF r.bad THEN 0 ELSE r.pvToGrid,
   displaceable |-> IF r.bad THEN 0 ELSE r.gridToLoad + r.essToLoad,
   pvCharge |-> IF r.bad THEN 0 ELSE r.pvToEss,
   gridCharge |-> IF r.bad THEN 0 ELSE r.gridToEss]

\* addHour: what an hour offers the battery; a corrupt hour only its prices.
Offer(r) ==
  [tradable |-> r.priced, import |-> r.import, export |-> r.export,
   surplus |-> IF r.bad THEN 0 ELSE r.pvToGrid + r.pvToEss,
   displaceable |-> IF r.bad THEN 0 ELSE r.gridToLoad + r.essToLoad,
   pvCharge |-> IF r.bad THEN 0 ELSE r.pvToEss,
   gridCharge |-> IF r.bad THEN 0 ELSE r.gridToEss]

\* The residual of the earliest hour that has one, in the window.
StartLevel(rs) ==
  LET known == {i \in DOMAIN rs : rs[i].residual # NoLevel}
      w == Window(rs)
  IN  IF known = {} THEN Min(w) ELSE Max({Min(w), Min({Max(w), rs[Min(known)].residual})})

-----------------------------------------------------------------------------
(* One hour of the dynamic program *)

PvPrice(h) == IF h.export < FreeBelow THEN 0 ELSE h.export

\* chargeCaps
PvCap(h, mode) == IF mode = "full" THEN h.surplus ELSE h.pvCharge
GridAllows(h, mode, energy) == mode = "fixedCharge" => energy <= h.gridCharge

\* chargeSplit and dischargeSplit: PV before the grid, load before export.
FromPv(h, mode, d) == Min({PvCap(h, mode), d * LevelDraws})
FromGrid(h, mode, d) == d * LevelDraws - FromPv(h, mode, d)
ToLoad(h, d) == Min({h.displaceable, d * LevelGives})
ToGrid(h, d) == d * LevelGives - ToLoad(h, d)

\* Mutant of Feasible: the power limit also of a whole level more.
FeasibleRounded(rs, h, mode, a, b) ==
  a # b => h.tradable
    /\ (b > a => /\ (b - a - 1) * LevelDraws <= MaxCharge(rs)
                 /\ GridAllows(h, mode, FromGrid(h, mode, b - a)))
    /\ (b < a => (a - b - 1) * LevelGives <= MaxDischarge(rs))

Feasible(rs, h, mode, a, b) ==
  a # b => h.tradable
    /\ (b > a => /\ (b - a) * LevelDraws <= MaxCharge(rs)
                 /\ GridAllows(h, mode, FromGrid(h, mode, b - a)))
    /\ (b < a => (a - b) * LevelGives <= MaxDischarge(rs))

Money(h, mode, a, b) ==
  IF b > a THEN -(FromPv(h, mode, b - a) * PvPrice(h) + FromGrid(h, mode, b - a) * h.import)
  ELSE ToLoad(h, a - b) * h.import + ToGrid(h, a - b) * h.export - (a - b) * LevelGives * OptWear

\* The best way to every level: the lowest level of equal ones wins.
Reached(f, rs, h, mode) == {b \in Window(rs) : \E a \in DOMAIN f : Feasible(rs, h, mode, a, b)}
ValueAt(f, rs, h, mode, b) ==
  Max({f[a] + Money(h, mode, a, b) : a \in {a \in DOMAIN f : Feasible(rs, h, mode, a, b)}})
After(f, rs, h, mode) ==
  [b \in Reached(f, rs, h, mode) |-> ValueAt(f, rs, h, mode, b)]
Parent(f, rs, h) ==
  [b \in Reached(f, rs, h, "full") |->
     Min({a \in DOMAIN f : Feasible(rs, h, "full", a, b)
            /\ f[a] + Money(h, "full", a, b) = ValueAt(f, rs, h, "full", b)})]

-----------------------------------------------------------------------------
(* runOptimumDP and optimizeDaySchedule *)

Hour(i) == Offer(records[i])
Solved == Len(parents)

\* The period's hours and the level it starts at.
Pose ==
  /\ optPhase = "posed"
  /\ \E rs \in [1 .. OptHours -> HourRecords] :
       /\ records' = rs
       /\ best' = [m \in Freedoms |-> [l \in {StartLevel(rs)} |-> 0]]
  /\ optPhase' = "solving" /\ UNCHANGED <<parents, trace>>

SolveHour ==
  /\ optPhase = "solving" /\ Solved < OptHours
  /\ LET h == Hour(Solved + 1)
     IN  /\ best' = [m \in Freedoms |-> After(best[m], records, h, m)]
         /\ parents' = Append(parents, Parent(best["full"], records, h))
  /\ UNCHANGED <<optPhase, records, trace>>

BestOf(f) == Max({f[l] : l \in DOMAIN f})

\* The best terminal level, the lowest of equal ones.
BeginTrace ==
  /\ optPhase = "solving" /\ Solved = OptHours
  /\ trace' = <<Min({l \in DOMAIN best["full"] : best["full"][l] = BestOf(best["full"])})>>
  /\ optPhase' = "tracing" /\ UNCHANGED <<records, best, parents>>

TraceHour ==
  /\ optPhase = "tracing"
  /\ IF Len(trace) <= OptHours
     THEN trace' = Append(trace, parents[OptHours + 1 - Len(trace)][Last(trace)]) /\ UNCHANGED optPhase
     ELSE optPhase' = "done" /\ UNCHANGED trace
  /\ UNCHANGED <<records, best, parents>>

OptNext == Pose \/ SolveHour \/ BeginTrace \/ TraceHour

OptSpec == OptInit /\ [][OptNext]_optVars

\* optimizeDay ends anywhere, optimizeMonth not below where it started.
DayBest(m) == BestOf(best[m])
MonthBest(m) == Max({best[m][l] : l \in {l \in DOMAIN best[m] : l >= StartLevel(records)}})

-----------------------------------------------------------------------------
\* No hour sells dearer than it buys.  A supplier's discount may be larger than
\* the fees, and then the sun, stored first, costs more than the grid.
ImportDearer ==
  \A i \in DOMAIN records : Hour(i).tradable => PvPrice(Hour(i)) <= Hour(i).import

(* "Each relaxation only adds freedom, so the values are monotonic": they  *)
(* are where importing is dearer than selling, and no freedom loses money, *)
(* so the shares of the reserve of a day and of a month are never negative *)
(* and their clamping hides nothing but the fact.                          *)
LadderDescends ==
  optPhase = "done" =>
    /\ ImportDearer => DayBest("full") >= DayBest("noPv") /\ MonthBest("full") >= MonthBest("noPv")
    /\ DayBest("noPv") >= DayBest("fixedCharge") /\ MonthBest("noPv") >= MonthBest("fixedCharge")
    /\ MonthBest("fixedCharge") >= 0

\* What a run of levels has earned before each hour and after the last.
Purse(rs, levels) ==
  LET purse[i \in 1 .. OptHours + 1] ==
        IF i = 1 THEN 0
        ELSE purse[i - 1] + Money(Offer(rs[i - 1]), "full", levels[i - 1], levels[i])
  IN  purse
Earned(levels) == Purse(records, levels)[OptHours + 1]
Trajectories ==
  {t \in [1 .. OptHours + 1 -> Window(records)] :
     /\ t[1] = StartLevel(records)
     /\ \A i \in 1 .. OptHours : Feasible(records, Hour(i), "full", t[i], t[i + 1])}

\* The most a clean hour of the period moved, when that is all that is known.
Shown(moved) == moved \in {{}, {0}} \/ PowerLevels > 0
WithinShown(levels) ==
  \A i \in 1 .. OptHours :
    LET climbed == levels[i + 1] - levels[i]
        dropped == levels[i] - levels[i + 1]
    IN  /\ Shown({records[j].charged : j \in Seen(records)})
             \/ \E j \in Seen(records) : climbed * LevelDraws <= records[j].charged
        /\ Shown({records[j].discharged : j \in Seen(records)})
             \/ \E j \in Seen(records) : dropped * LevelGives <= records[j].discharged
        /\ climbed # 0 => records[i].priced

(* The schedule that is drawn starts at the day's residual, moves no more  *)
(* than the battery has shown it can, trades only in hours with a price,   *)
(* earns what the optimum says, and no other run of levels earns more.     *)
ScheduleIsBest ==
  optPhase = "done" =>
    LET levels == Reverse(trace)
    IN  /\ levels[1] = StartLevel(records) /\ WithinShown(levels)
        /\ Earned(levels) = DayBest("full")
        /\ \A t \in Trajectories : Earned(t) <= DayBest("full")

\* The optimum is the best of all days and grows with the freedom given.
OptimumIsBest == LadderDescends /\ ScheduleIsBest
============================================================================
