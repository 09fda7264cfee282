------------------------------ MODULE DayLedger ------------------------------
(***************************************************************************)
(* The economics of one day (src/internal/economics: service, assemble,    *)
(* compute, reconcile, costbasis).  The day's inputs are chosen at the     *)
(* start; each pass of AssembleDay is a step.  Energy is in sixtieths of a *)
(* kWh, so the ratios of the code divide with an error of a unit; prices   *)
(* are whole numbers.                                                      *)
(***************************************************************************)
EXTENDS Integers, FiniteSets, FiniteSetsExt, TLC

CONSTANTS
  NoValue,      \* a missing price, SOC, row or KPI
  LedgerHours,  \* hours of a day
  Fees,         \* what an imported kWh costs on top of the market price
  Discount,     \* what the market keeps of an exported kWh
  LedgerWear,         \* DegradationUahPerKwh
  CapacityKwh,  \* EssCapacityKwh
  BalanceSlack  \* loadRebalanceEpsilonKwh

ASSUME LedgerAssumption ==
  /\ {LedgerHours, CapacityKwh} \subseteq Nat \ {0}
  /\ {Fees, Discount, LedgerWear, BalanceSlack} \subseteq Nat

HoursOfDay == 0 .. LedgerHours - 1
\* The lookback, one day here, ends where the day begins.
HoursBefore == -LedgerHours .. -1

VARIABLES
  dayPass,      \* the pass AssembleDay is about to make
  telemetry,    \* hour -> what allocator and registers say, or NoValue
  prices,       \* hour -> market price or NoValue
  soc,          \* hour -> SOC at its start or NoValue
  canonical,    \* FusionSolar's daily totals or NoValue
  flowOf,       \* hour -> HourFlows
  rowOf,        \* hour -> load, costs and ledger of the hour
  totals

dayVars == <<dayPass, telemetry, prices, soc, canonical, flowOf, rowOf, totals>>

NonNeg(x) == Max({x, 0})
SumOver(S, f(_)) == MapThenSumSet(f, S)
PresentHours == {h \in HoursOfDay : telemetry[h] # NoValue}
PricedHours == {h \in PresentHours : prices[h] # NoValue}

-----------------------------------------------------------------------------
(* The flows of an hour *)

\* A share of the allocator's split, blown up to what the register counted.
Scaled(part, whole, metered) == (part * metered) \div whole

\* Mutant of EssFlows: solar charge is not bounded by the hour's sun.
EssFlowsUncapped(t) ==
  LET a == t.alloc
      pvToEss == IF a.charged > 0 THEN Scaled(a.pvToEss, a.charged, t.charged)
                 ELSE t.charged - Min({t.charged, t.import})
  IN [pvToEss |-> pvToEss, gridToEss |-> t.charged - pvToEss,
      essToLoad |-> t.discharged, essToGrid |-> 0]

\* essFlowsFromCounters: magnitudes from the registers, direction from the
\* allocator, and no more solar charge than sun.
EssFlows(t) ==
  LET a == t.alloc
      solar   == IF a.charged > 0 THEN Scaled(a.pvToEss, a.charged, t.charged)
                 ELSE t.charged - Min({t.charged, t.import})
      pvToEss == Min({solar, t.pv})
      essToGrid == IF a.discharged > 0 THEN Scaled(a.essToGrid, a.discharged, t.discharged)
                   ELSE Min({t.discharged, t.export})
  IN [pvToEss |-> pvToEss, gridToEss |-> t.charged - pvToEss,
      essToLoad |-> t.discharged - essToGrid, essToGrid |-> essToGrid]

HourFlows(t) ==
  [k \in {"pv", "import", "export", "charged", "discharged"} |-> t[k]] @@ EssFlows(t)
NoHourFlows ==
  [k \in {"pv", "import", "export", "charged", "discharged",
          "pvToEss", "gridToEss", "essToLoad", "essToGrid"} |-> 0]

BuildFlows ==
  /\ dayPass = "flows" /\ dayPass' = "reconcile"
  /\ flowOf' = [h \in PresentHours |-> HourFlows(telemetry[h])]
  /\ UNCHANGED <<telemetry, prices, soc, canonical, rowOf, totals>>

-----------------------------------------------------------------------------
(* Reconciliation with the plant's own daily totals *)

\* A KPI ten times the registers, or zero against them, is not believed.
Believed(computed, target) ==
  /\ computed > 0 /\ target <= 10 * computed
  /\ 10 * target < computed => target > 0

\* Mutant of Reconciled: the solar share is left above the scaled sun.
ReconciledUnshifted(f, sums) ==
  LET on(k, x) == IF Believed(sums[k], canonical[k]) THEN Scaled(x, sums[k], canonical[k]) ELSE x
      charged == on("charged", f.charged)
      discharged == on("discharged", f.discharged)
      pvToEss == on("charged", f.pvToEss)
      essToGrid == on("discharged", f.essToGrid)
  IN [pv |-> on("pv", f.pv), import |-> on("import", f.import), export |-> on("export", f.export),
      charged |-> charged, discharged |-> discharged,
      pvToEss |-> pvToEss, gridToEss |-> charged - pvToEss,
      essToLoad |-> discharged - essToGrid, essToGrid |-> essToGrid]

\* reconcileFlows for one hour: every register is scaled so that its day
\* matches the KPI, a split with the register it is of.
Reconciled(f, sums) ==
  LET on(k, x) == IF Believed(sums[k], canonical[k]) THEN Scaled(x, sums[k], canonical[k]) ELSE x
      pv == on("pv", f.pv)
      charged == on("charged", f.charged)
      discharged == on("discharged", f.discharged)
      pvToEss == Min({on("charged", f.pvToEss), pv})
      essToGrid == on("discharged", f.essToGrid)
  IN [pv |-> pv, import |-> on("import", f.import), export |-> on("export", f.export),
      charged |-> charged, discharged |-> discharged,
      pvToEss |-> pvToEss, gridToEss |-> charged - pvToEss,
      essToLoad |-> discharged - essToGrid, essToGrid |-> essToGrid]

ReconcileFlows ==
  /\ dayPass = "reconcile" /\ dayPass' = "price"
  /\ LET sums == [k \in DOMAIN NoHourFlows |-> SumOver(PresentHours, LAMBDA h : flowOf[h][k])]
     IN flowOf' = IF canonical = NoValue THEN flowOf
                  ELSE [h \in PresentHours |-> Reconciled(flowOf[h], sums)]
  /\ UNCHANGED <<telemetry, prices, soc, canonical, rowOf, totals>>

-----------------------------------------------------------------------------
(* Money *)

ImportPrice(p) == p + Fees
ExportPrice(p) == NonNeg(p - Discount)

\* The energy balance of an hour or, from its sums, of a day.
Balance(f) == NonNeg(f.pv + f.import + f.discharged - f.export - f.charged)

\* HourEconomicsFor; an hour without a price is reckoned at zero.
HourEconomics(f, price) ==
  LET p == IF price = NoValue THEN 0 ELSE price
      pvToGrid == NonNeg(f.export - f.essToGrid)
      baseline == Balance(f) * ImportPrice(p)
      actual == f.import * ImportPrice(p) - f.export * ExportPrice(p) + f.discharged * LedgerWear
  IN [load |-> Balance(f), pvToGrid |-> pvToGrid,
      pvToLoad |-> NonNeg(f.pv - pvToGrid - f.pvToEss),
      gridToLoad |-> NonNeg(f.import - f.gridToEss),
      baseline |-> baseline, actual |-> actual, effect |-> baseline - actual,
      remaining |-> NoValue, ledger |-> NoValue, withdrawn |-> 0]

PriceHours ==
  /\ dayPass = "price" /\ dayPass' = "residual"
  /\ rowOf' = [h \in PresentHours |-> HourEconomics(flowOf[h], prices[h])]
  /\ UNCHANGED <<telemetry, prices, soc, canonical, flowOf, totals>>

\* The usable part of the charge: SOC 10 is empty, SOC 90 is full.
EmptySoc == 10
UsableKwh(s) == (Min({NonNeg(s - EmptySoc), 80}) * CapacityKwh) \div 80

Net(f) == f.pvToEss + f.gridToEss - f.essToLoad - f.essToGrid

\* The residual at the start of each hour, from the SOC at midnight; a
\* missing hour ends it.
RollResidual ==
  /\ dayPass = "residual" /\ dayPass' = "ledger"
  /\ rowOf' = [h \in PresentHours |-> [rowOf[h] EXCEPT !.remaining =
        IF soc[0] = NoValue \/ \E g \in 0 .. h - 1 : g \notin PresentHours THEN NoValue
        ELSE UsableKwh(soc[0]) + SumOver(0 .. h - 1, LAMBDA g : Net(flowOf[g]))]]
  /\ UNCHANGED <<telemetry, prices, soc, canonical, flowOf, totals>>

-----------------------------------------------------------------------------
(* The cost of what the battery holds *)

\* Mutant of RollHour: what is discharged leaves before the hour's charge has come in.
RollHourDischargeFirst(state, f, price) ==
  LET out  == f.essToLoad + f.essToGrid
      cost == IF state.kwh > 0 THEN (state.uah * out) \div state.kwh ELSE 0
      kwh  == state.kwh - out + f.pvToEss + f.gridToEss
  IN [kwh |-> NonNeg(kwh), withdrawn |-> cost,
      uah |-> IF kwh <= 0 THEN 0 ELSE NonNeg(state.uah - cost) + f.gridToEss * ImportPrice(price)]

\* RollHour: the hour's charge comes in, the sun's for nothing, and what is
\* discharged leaves at the average.
RollHour(state, f, price) ==
  LET inKwh == state.kwh + f.pvToEss + f.gridToEss
      inUah == state.uah + f.gridToEss * ImportPrice(price)
      out   == f.essToLoad + f.essToGrid
      cost  == IF inKwh > 0 THEN (inUah * out) \div inKwh ELSE 0
  IN [kwh |-> NonNeg(inKwh - out), withdrawn |-> cost,
      uah |-> IF inKwh <= out THEN 0 ELSE NonNeg(inUah - cost)]

\* buildHistoryRecords as ComputeDay calls it: without the flow rows of the
\* days before, every hour of the lookback has no flows.
HistoryFlows == [h \in HoursBefore |-> NoHourFlows]

\* The ledger after rolling the priced hours of a set in order.
Rolled(state, hours, f, price) ==
  LET roll[h \in HoursBefore \cup HoursOfDay] ==
        LET before == IF h - 1 \in HoursBefore \cup HoursOfDay THEN roll[h - 1] ELSE state
        IN IF h \in hours /\ price[h] # NoValue THEN RollHour(before, f[h], price[h]) ELSE before
  IN roll

EmptyLedger == [kwh |-> 0, uah |-> 0, withdrawn |-> 0]

\* Where the lookback begins: the last empty hour, else the first with a SOC.
AnchorHours ==
  LET known == {h \in HoursBefore : soc[h] # NoValue}
      empty == {h \in known : soc[h] <= EmptySoc}
  IN IF empty # {} THEN {Max(empty)} ELSE IF known # {} THEN {Min(known)} ELSE {}

\* findAnchorAndPreRoll: the ledger at midnight.
MidnightLedger ==
  IF (soc[0] # NoValue /\ soc[0] <= EmptySoc) \/ AnchorHours = {}
  THEN EmptyLedger
  ELSE LET a == CHOOSE h \in AnchorHours : TRUE
       IN Rolled([EmptyLedger EXCEPT !.kwh = UsableKwh(soc[a])], {h \in HoursBefore : h > a},
                 HistoryFlows, prices)[-1]

RollLedger ==
  /\ dayPass = "ledger" /\ dayPass' = "rebalance"
  /\ LET roll == Rolled(MidnightLedger, PricedHours, flowOf, prices)
     IN rowOf' = [h \in PresentHours |->
                    IF h \in PricedHours
                    THEN [rowOf[h] EXCEPT !.ledger = roll[h], !.withdrawn = roll[h].withdrawn]
                    ELSE rowOf[h]]
  /\ UNCHANGED <<telemetry, prices, soc, canonical, flowOf, totals>>

-----------------------------------------------------------------------------
(* The day *)

SumsOf(hours) == [k \in DOMAIN NoHourFlows |-> SumOver(hours, LAMBDA h : flowOf[h][k])]

\* Mutant of DayBalance: each hour's balance is cut at zero before the sum.
DayBalanceHourly(hours) == SumOver(hours, LAMBDA h : Balance(flowOf[h]))

\* The balance of a day, from the sums of its registers.
DayBalance(hours) == Balance(SumsOf(hours))

\* rebalanceDailyLoad: hourly loads cut at zero must not add up to more than
\* the balance of the day.
Rebalance ==
  /\ dayPass = "rebalance" /\ dayPass' = "total"
  /\ LET balanced == DayBalance(PricedHours)
         reported == SumOver(PricedHours, LAMBDA h : rowOf[h].load)
         down(x) == Scaled(x, reported, balanced)
     IN rowOf' = IF reported <= balanced + BalanceSlack \/ reported <= 0 THEN rowOf
                 ELSE [h \in PresentHours |->
                         IF h \notin PricedHours THEN rowOf[h]
                         ELSE [rowOf[h] EXCEPT !.load = down(@), !.pvToLoad = down(@),
                                 !.gridToLoad = down(@), !.baseline = down(@),
                                 !.effect = down(rowOf[h].baseline) - rowOf[h].actual]]
  /\ UNCHANGED <<telemetry, prices, soc, canonical, flowOf, totals>>

\* ComputeDailyTotals
Total ==
  /\ dayPass = "total" /\ dayPass' = "done"
  /\ totals' = [load      |-> SumOver(PricedHours, LAMBDA h : rowOf[h].load),
                baseline  |-> SumOver(PricedHours, LAMBDA h : rowOf[h].baseline),
                actual    |-> SumOver(PricedHours, LAMBDA h : rowOf[h].actual),
                effect    |-> SumOver(PricedHours, LAMBDA h : rowOf[h].effect),
                withdrawn |-> SumOver(PricedHours, LAMBDA h : rowOf[h].withdrawn),
                missing   |-> Cardinality(PresentHours \ PricedHours)]
  /\ UNCHANGED <<telemetry, prices, soc, canonical, flowOf, rowOf>>

-----------------------------------------------------------------------------
(* The days that are looked at *)

Kwh == 60
NoAlloc == [charged |-> 0, discharged |-> 0, pvToEss |-> 0, essToGrid |-> 0]
Booked(pv, im, ex, ch, di, alloc) ==
  [pv |-> pv * Kwh, import |-> im * Kwh, export |-> ex * Kwh,
   charged |-> ch * Kwh, discharged |-> di * Kwh, alloc |-> alloc]

NightCharge == Booked(0, 3, 0, 3, 0, [NoAlloc EXCEPT !.charged = 3])
Evening == Booked(0, 1, 1, 0, 3, [NoAlloc EXCEPT !.discharged = 3, !.essToGrid = 1])
HourKinds ==
  {NightCharge, Evening,
   Booked(4, 0, 0, 2, 0, [NoAlloc EXCEPT !.charged = 2, !.pvToEss = 2]), \* sun
   Booked(0, 0, 0, 3, 0, NoAlloc),                       \* the import register lags
   Booked(2, 1, 0, 4, 0, [NoAlloc EXCEPT !.charged = 2, !.pvToEss = 2]), \* registers above the allocator
   Booked(0, 4, 0, 0, 0, NoAlloc),                       \* the lagging import
   Booked(0, 4, 0, 3, 1, [NoAlloc EXCEPT !.charged = 3, !.discharged = 1]), \* both ways
   NoValue}
SocKinds == { [h \in HoursBefore \cup {0} |-> IF h = -LedgerHours THEN 10 ELSE 50],
              [h \in HoursBefore \cup {0} |-> 50],
              [h \in HoursBefore \cup {0} |-> IF h = 0 THEN 10 ELSE NoValue],
              [h \in HoursBefore \cup {0} |-> NoValue] }
CanonicalKinds ==
  LET kpi(pv, im, ex, ch, di) == [pv |-> pv * Kwh, import |-> im * Kwh, export |-> ex * Kwh,
                                  charged |-> ch * Kwh, discharged |-> di * Kwh]
  IN {NoValue, kpi(2, 5, 1, 4, 3), kpi(3, 99, 0, 0, 2)}

DayInit ==
  /\ dayPass = "gather" /\ canonical = NoValue
  /\ telemetry = <<>> /\ prices = <<>> /\ soc = <<>>
  /\ flowOf = <<>> /\ rowOf = <<>> /\ totals = <<>>

\* ComputeDay reads what the plant and the market left for the day; the
\* nights before were all spent buying.
Gather ==
  /\ dayPass = "gather" /\ dayPass' = "flows"
  /\ \E today \in [HoursOfDay -> HourKinds] :
       telemetry' = [h \in HoursBefore \cup HoursOfDay |->
                       IF h \in HoursOfDay THEN today[h] ELSE NightCharge]
  /\ \E today \in [HoursOfDay -> {1, 4, NoValue}] :
       prices' = [h \in HoursBefore \cup HoursOfDay |-> IF h \in HoursOfDay THEN today[h] ELSE 1]
  /\ soc' \in SocKinds /\ canonical' \in CanonicalKinds
  /\ UNCHANGED <<flowOf, rowOf, totals>>

DayNext ==
  \/ Gather \/ BuildFlows \/ ReconcileFlows \/ PriceHours \/ RollResidual
  \/ RollLedger \/ Rebalance \/ Total

-----------------------------------------------------------------------------
(* Properties *)

\* After every pass the splits of an hour add up to its registers and no
\* hour has more solar charge than sun, whichever of allocator, registers
\* and KPIs disagree (reconcileFlows: the invariant "survives
\* reconciliation").
SplitsAddUp ==
  \A h \in DOMAIN flowOf :
    LET f == flowOf[h]
    IN /\ f.pvToEss + f.gridToEss = f.charged /\ f.essToLoad + f.essToGrid = f.discharged
       /\ f.pvToEss <= f.pv /\ \A k \in DOMAIN f : f[k] >= 0

\* Registers that are an hour apart do not make a load nobody had: the
\* day's load is at most its energy balance, and the effect is still the
\* baseline less the cost.
LoadWithinBalance ==
  dayPass = "done" =>
    /\ totals.load <= Balance(SumsOf(PricedHours)) + BalanceSlack
    /\ totals.effect = totals.baseline - totals.actual

\* What the battery holds never costs more than the dearest hour it was
\* charged in, and an empty battery holds no cost.
CostWithinPrices ==
  \A h \in DOMAIN rowOf :
    LET l == rowOf[h].ledger
    IN l # NoValue =>
         LET paid == {ImportPrice(prices[g]) : g \in {q \in PricedHours : q <= h}}
         IN l.uah <= Max(paid) * l.kwh + 2 * LedgerHours

\* The parts of a day add up: flows, load and the cost of what is stored.
LedgerAddsUp == SplitsAddUp /\ LoadWithinBalance /\ CostWithinPrices

\* ComputeDay: the hourly deltas of the lookback "still seed lookback
\* magnitudes".  Energy bought after the anchor hour, of which nothing has
\* been discharged, has its cost in the ledger at midnight.
LookbackSeedsLedger ==
  /\ dayPass # "gather"
  /\ soc[0] # NoValue /\ soc[0] > EmptySoc
  /\ \E a \in AnchorHours, h \in HoursBefore :
       h > a /\ prices[h] # NoValue /\ telemetry[h].charged > telemetry[h].pv
  /\ \A h \in HoursBefore : telemetry[h].discharged = 0
  => MidnightLedger.uah > 0
===============================================================================
