---------------------------- MODULE DispatchDesk ----------------------------
(***************************************************************************)
(* The manual-control desk (internal/dispatch, api/dispatch_*.go): an      *)
(* operator confirms loads, commands and limits for the hours ahead, and   *)
(* from then on every hour a linear program plans the battery over the     *)
(* hours known, import limit first, then the commands in their order, then *)
(* the money.  Power is in whole units for whole hours and the round trip  *)
(* efficiency is one; the program's constraints then form a network flow,  *)
(* so every stage has an optimum in whole units.                           *)
(***************************************************************************)
EXTENDS Integers, Sequences, FiniteSets, FiniteSetsExt, SequencesExt

CONSTANTS
  NotKnown,      \* a load not entered, a price not published, a limit not set
  DeskHours,     \* dispatchFutureHours
  DeskDay,       \* hours of a civil day
  LastDeskHour,  \* the clock stops here
  DeskDrafts,    \* what operators send: loads, commands, cfg
  SunAhead,      \* PV forecast by absolute hour
  DeskPrices,    \* RDN by absolute hour
  DeskFees, DeskDiscount, DeskWear,   \* tariffs: import adds, export takes off, wear
  BatteryLow, BatteryHigh,            \* passport window of the stored energy
  DeskLevels,    \* energies the battery may be found with
  ChargeLimit, DischargeLimit,
  DeskLimits     \* envelopes «Обмеження» may hold: import limit, export ceiling

ASSUME DeskAssumption ==
  /\ {DeskHours, DeskDay} \subseteq Nat \ {0} /\ DeskFees + DeskDiscount > 0
  /\ {LastDeskHour, DeskFees, DeskDiscount, DeskWear, BatteryLow, BatteryHigh,
      ChargeLimit, DischargeLimit} \subseteq Nat
  /\ BatteryLow <= BatteryHigh /\ DeskLevels \subseteq 0 .. BatteryHigh

VARIABLES
  deskHour,      \* the current hour
  published,     \* the hours before this one have a price
  limits,        \* the site's envelope
  charge,        \* energy in the battery now
  confirmed,     \* the confirmed version, its hours counted from deskHour
  plan,          \* what was published of it for the hours ahead
  checked,       \* hours ahead that the confirmation found free of issues, from a
                 \* battery that held its reserve
  limitsAsked    \* the limits the operator confirmed, NotKnown once the site's changed

deskVars == <<deskHour, published, limits, charge, confirmed, plan, checked, limitsAsked>>

Auto == [type |-> "auto", value |-> 0, id |-> 0]
Positive(n) == Max({0, n})

-----------------------------------------------------------------------------
(* Inputs of a run *)

\* A run's inputs: the forecast and the prices of the hours ahead.
Sun(i) == SunAhead[deskHour + i - 1]
Rdn(i) == IF deskHour + i - 1 < published THEN DeskPrices[deskHour + i - 1] ELSE NotKnown
Buy(i) == Rdn(i) + DeskFees
Sell(i) == Positive(Rdn(i) - DeskDiscount)

\* The contiguous run of hours with a load and a price.
KnownHours(m) ==
  Max({0} \union {k \in 1..DeskHours :
        \A i \in 1..k : m.loads[i] # NotKnown /\ Rdn(i) # NotKnown})
NetLoad(m, i) == m.loads[i] - Sun(i)

EffectiveExportCap(cfg) ==
  IF cfg.blockExport \/ cfg.exportCap = NotKnown THEN 0 ELSE cfg.exportCap

\* The input checks on the limits and on every command.
ValidConstraints(cfg) ==
  /\ cfg.reserve \in BatteryLow .. BatteryHigh
  /\ cfg.importCap \in 0 .. limits.import
  /\ cfg.exportCap # NotKnown =>
       limits.ceiling # NotKnown /\ cfg.exportCap <= limits.ceiling
  /\ ~cfg.blockExport /\ cfg.exportCap = NotKnown => ~cfg.essSale
PowerMax(c) == IF c.type \in {"solar", "charge"} THEN ChargeLimit ELSE DischargeLimit
ValidCommand(cfg, c) ==
  /\ c.type = "export" => cfg.blockExport \/ cfg.exportCap # NotKnown
  /\ c.type = "target" => c.value \in cfg.reserve .. BatteryHigh
  /\ c.type = "export" /\ cfg.exportCap # NotKnown => c.value <= cfg.exportCap
  /\ c.type = "cap" => c.value <= limits.import
  /\ c.type \in {"cover", "solar", "charge", "discharge"} => c.value <= PowerMax(c)
ValidModel(m) ==
  ValidConstraints(m.cfg) /\ \A i \in 1..DeskHours : ValidCommand(m.cfg, m.commands[i])

-----------------------------------------------------------------------------
(* The linear program *)

\* Where the stored energy may go: a charge below the reserve may not sink
\* further, it is not asked to jump.
FloorAtReserve(cfg) == cfg.reserve
Floor(cfg) == Min({charge, cfg.reserve})
Ceiling == Max({charge, BatteryHigh})

ChargeRoom(m, i) ==
  IF m.cfg.gridCharge THEN Positive(m.cfg.importCap - NetLoad(m, i)) ELSE Positive(-NetLoad(m, i))
SaleRoom(cfg) == IF cfg.essSale THEN EffectiveExportCap(cfg) ELSE 0

\* The part of a command that aims at a power, and what it aims for.
Aim(m, i) ==
  LET c == m.commands[i] IN
  CASE c.type = "cover" -> Min({Positive(NetLoad(m, i)), c.value})
    [] c.type = "solar" -> Min({Positive(-NetLoad(m, i)), c.value})
    [] OTHER -> c.value

\* The most a command lets an hour charge, discharge and sell.
MayCharge(m, i) ==
  LET c == m.commands[i] IN
  CASE c.type \in {"hold", "discharge", "cover"} -> 0
    [] c.type \in {"charge", "solar"} -> Aim(m, i)
    [] c.type = "export" -> Positive(-NetLoad(m, i) - c.value)
    [] OTHER -> ChargeLimit
MayDischarge(m, i) ==
  LET c == m.commands[i] IN
  CASE c.type \in {"hold", "charge", "solar", "target"} -> 0
    [] c.type \in {"discharge", "cover"} -> Aim(m, i)
    [] c.type = "export" -> Positive(NetLoad(m, i) + c.value)
    [] OTHER -> DischargeLimit
MaySell(m, i) ==
  LET cap == EffectiveExportCap(m.cfg)
  IN  IF m.commands[i].type = "export" THEN Min({cap, m.commands[i].value}) ELSE cap

\* The decisions an hour allows: p discharges or, negative, charges; grid is
\* what the balance then imports or, negative, exports.
Decisions(m, i) ==
  LET most == Min({ChargeLimit, ChargeRoom(m, i), MayCharge(m, i)})
      give == Min({DischargeLimit, Positive(NetLoad(m, i) + SaleRoom(m.cfg)), MayDischarge(m, i)})
  IN  {d \in [p : -most .. give, curtailed : 0 .. Sun(i)] :
         d.curtailed - d.p + NetLoad(m, i) >= -MaySell(m, i)}

\* Every plan of the first n hours within the hard limits, hour by hour.
FeasiblePlans(m, n) ==
  LET Hour(k, d, level) ==
        [p |-> d.p, curtailed |-> d.curtailed, grid |-> NetLoad(m, k) - d.p + d.curtailed,
         soc |-> level - d.p]
      Extensions(s, k) ==
        LET level == IF s = <<>> THEN charge ELSE Last(s).soc
        IN  {Append(s, Hour(k, d, level)) :
               d \in {e \in Decisions(m, k) : level - e.p \in Floor(m.cfg) .. Ceiling}}
      upTo[k \in 0..n] ==
        IF k = 0 THEN {<<>>} ELSE UNION {Extensions(s, k) : s \in upTo[k - 1]}
  IN  upTo[n]

\* Import above the horizon's limit, over all hours: the first thing to minimise.
Overflow(m, s) ==
  MapThenSumSet(LAMBDA i : Positive(s[i].grid - m.cfg.importCap), DOMAIN s)

\* The last hour of a block carries its goal.
IsBlockEnd(m, i) ==
  \/ i = DeskHours
  \/ m.commands[i + 1].type # m.commands[i].type \/ m.commands[i + 1].id # m.commands[i].id
Goals(m, n) ==
  SelectSeq([i \in 1..n |-> i],
            LAMBDA i : /\ m.commands[i].type \notin {"auto", "hold"}
                       /\ m.commands[i].type = "target" => IsBlockEnd(m, i))

\* How far a plan stays from the goal of hour i.
Gap(m, s, i) ==
  LET c == m.commands[i] IN
  CASE c.type \in {"charge", "solar"} -> Aim(m, i) - Positive(-s[i].p)
    [] c.type \in {"discharge", "cover"} -> Aim(m, i) - Positive(s[i].p)
    [] c.type = "cap" -> Positive(s[i].grid - c.value)
    [] c.type = "export" -> Positive(s[i].grid + c.value)
    [] c.type = "target" -> Max({s[i].soc - c.value, c.value - s[i].soc})

\* Money in the end, the energy left worth the cheapest import.
Worth(s) ==
  LET shadow == Min({Buy(i) : i \in DOMAIN s})
      Hour(i) == Positive(-s[i].grid) * Sell(i) - Positive(s[i].grid) * Buy(i)
                 - Positive(s[i].p) * DeskWear - s[i].p * shadow
  IN  MapThenSumSet(Hour, DOMAIN s)

\* One stage: of the plans with these costs, those of the minimum, which the
\* stages after it keep.
PreserveMinimum(cost) ==
  LET minimum == Min(Range(cost)) IN {s \in DOMAIN cost : cost[s] = minimum}

\* The stages: the import limit, the goals in the order of their hours, the money.
PlansByGoals(m, goals, n) ==
  LET physical == PreserveMinimum([s \in FeasiblePlans(m, n) |-> Overflow(m, s)])
      Pin(S, i) == PreserveMinimum([s \in S |-> Gap(m, s, i)])
      manual == FoldLeft(Pin, physical, goals)
  IN  PreserveMinimum([s \in manual |-> IF s = <<>> THEN 0 ELSE -Worth(s)])
OptimaLastGoalFirst(m) ==
  LET n == KnownHours(m) IN PlansByGoals(m, Reverse(Goals(m, n)), n)
Optima(m) ==
  LET n == KnownHours(m) IN PlansByGoals(m, Goals(m, n), n)

-----------------------------------------------------------------------------
(* The replay: what a plan misses, and what it is worth *)

Wanted(m, s, i) ==
  LET c == m.commands[i] IN
  CASE c.type \in {"cover", "discharge"} -> Aim(m, i)
    [] c.type \in {"solar", "charge"} -> -Aim(m, i)
    [] c.type = "export" -> NetLoad(m, i) + c.value
    [] OTHER -> s[i].p

\* Why the goal or the limit of an hour is not met; none: it is.
Reasons(m, s, i) ==
  LET c == m.commands[i]
      wanted == Wanted(m, s, i)
      import == Positive(s[i].grid)
      exportMiss == c.type = "export" /\ Positive(-s[i].grid) < c.value
      short == exportMiss \/ (c.type \in {"cover", "solar", "charge", "discharge"}
                                /\ s[i].p # wanted)
      overCap == c.type = "cap" /\ import > c.value
      because == {r \in {"reserve", "full", "power", "saleOff", "noSurplus", "exportBan"} :
        CASE r = "reserve" -> wanted > 0 /\ s[i].soc <= m.cfg.reserve
          [] r = "full" -> wanted < 0 /\ s[i].soc >= BatteryHigh
          [] r = "power" -> wanted > DischargeLimit \/ -wanted > ChargeLimit
          [] r = "saleOff" -> ~m.cfg.essSale /\ wanted > Positive(NetLoad(m, i))
          [] r = "noSurplus" -> ~m.cfg.gridCharge /\ -wanted > Positive(-NetLoad(m, i))
          [] r = "exportBan" -> m.cfg.blockExport /\ wanted > Positive(NetLoad(m, i))}
  IN  (IF short THEN IF because = {} THEN {"shortage"} ELSE because ELSE {})
      \union {r \in {"target", "import", "cap", "export"} :
        CASE r = "target" -> c.type = "target" /\ IsBlockEnd(m, i) /\ s[i].soc < c.value
          [] r = "import" -> import > m.cfg.importCap
          [] r = "cap" -> overCap
          [] r = "export" -> exportMiss}
IssuesOfPower(m, s) ==
  {i \in DOMAIN s : m.commands[i].type # "cap" /\ Reasons(m, s, i) # {}}
Issues(m, s) == {i \in DOMAIN s : Reasons(m, s, i) # {}}

\* Where the battery's power comes from or goes to: PV serves the load first.
SplitFlowGridFirst(p, sun, load) ==
  LET local == Min({Positive(p), load})
  IN  [solar |-> Min({Positive(-p), sun}), grid |-> Positive(-p) - Min({Positive(-p), sun}),
       load |-> local, export |-> Positive(p) - local]
SplitFlow(p, sun, load) ==
  LET solar == Min({Positive(-p), Positive(sun - load)})
      local == Min({Positive(p), Positive(load - sun)})
  IN  [solar |-> solar, grid |-> Positive(-p) - solar,
       load |-> local, export |-> Positive(p) - local]

\* What the battery earns in the known hours of one civil day.
DayOfHour(i) == (deskHour + i - 1) \div DeskDay
DayEffect(m, s, day) ==
  LET Hour(i) ==
        LET f == SplitFlow(s[i].p, Sun(i), m.loads[i])
        IN  f.load * Buy(i) + f.export * Sell(i) - f.grid * Buy(i)
            - (IF EffectiveExportCap(m.cfg) > 0 THEN f.solar * Sell(i) ELSE 0)
            - (f.load + f.export) * DeskWear
  IN  MapThenSumSet(Hour, {i \in DOMAIN s : DayOfHour(i) = day})

-----------------------------------------------------------------------------
(* The desk over the hours *)

\* Stored limits fitted into the envelope of now.
Sanitized(cfg) ==
  LET cap == IF limits.ceiling = NotKnown \/ cfg.exportCap = NotKnown THEN NotKnown
             ELSE Min({cfg.exportCap, limits.ceiling})
  IN  [cfg EXCEPT !.importCap = IF @ <= 0 \/ @ > limits.import THEN limits.import ELSE @,
                  !.exportCap = cap,
                  !.essSale = @ /\ cap # NotKnown,
                  !.reserve = Min({BatteryHigh, Max({BatteryLow, @})})]
AppliedModel(m) == [m EXCEPT !.cfg = Sanitized(@)]

\* A model some hours later: what has gone by is dropped, a block in progress
\* keeps its remainder, and the hours that come into view are empty.
Shifted(m, by) ==
  [m EXCEPT !.loads = [i \in 1..DeskHours |-> IF i + by <= DeskHours THEN @[i + by] ELSE NotKnown],
            !.commands = [i \in 1..DeskHours |-> IF i + by <= DeskHours THEN @[i + by] ELSE Auto]]

\* What dispatchPreview shows for a draft: a plan of it.
Previews == {m \in DeskDrafts : ValidModel(m)}

DeskDefaults ==
  [reserve |-> BatteryLow, gridCharge |-> TRUE, essSale |-> limits.ceiling # NotKnown,
   blockExport |-> FALSE, importCap |-> limits.import, exportCap |-> limits.ceiling]
NothingConfirmed ==
  [loads |-> [i \in 1..DeskHours |-> NotKnown], commands |-> [i \in 1..DeskHours |-> Auto],
   cfg |-> DeskDefaults]

DeskInit ==
  /\ deskHour = 0 /\ published = DeskDay /\ limits \in DeskLimits
  /\ charge \in DeskLevels
  /\ confirmed = NothingConfirmed /\ plan = <<>> /\ checked = 0 /\ limitsAsked = NotKnown

\* A draft from a page opened some hours ago is aligned to now, checked, planned,
\* stored when the plan misses nothing, and published.
Confirm(d, age) ==
  LET m == Shifted(d, age) IN
  /\ limitsAsked = NotKnown /\ ValidModel(m)
  /\ \E s \in Optima(m) : Issues(m, s) = {}
  /\ confirmed' = m /\ limitsAsked' = m.cfg
  /\ checked' = IF charge >= m.cfg.reserve THEN KnownHours(m) ELSE 0
  /\ plan' \in Optima(AppliedModel(m))
  /\ UNCHANGED <<deskHour, published, limits, charge>>

\* The planner's loop, or a button, plans what is stored from the current hour.
PublishPlan ==
  /\ plan' \in Optima(AppliedModel(confirmed))
  /\ UNCHANGED <<deskHour, published, limits, charge, confirmed, checked, limitsAsked>>

\* An hour is carried out as planned; without a plan the edge does as it likes.
HourPasses ==
  /\ deskHour < LastDeskHour
  /\ deskHour' = deskHour + 1
  /\ charge' \in IF plan = <<>> THEN DeskLevels ELSE {plan[1].soc}
  /\ plan' = IF plan = <<>> THEN <<>> ELSE Tail(plan)
  /\ confirmed' = Shifted(confirmed, 1)
  /\ checked' = Positive(checked - 1)
  /\ UNCHANGED <<published, limits, limitsAsked>>

\* The market publishes the next day.
PricesArrive ==
  /\ published <= deskHour + DeskDay
  /\ published' = published + DeskDay
  /\ UNCHANGED <<deskHour, limits, charge, confirmed, plan, checked, limitsAsked>>

\* «Обмеження» change; what was promised under the old ones is off.
LimitsChange ==
  /\ limits' \in DeskLimits \ {limits}
  /\ checked' = 0 /\ limitsAsked' = NotKnown
  /\ UNCHANGED <<deskHour, published, charge, confirmed, plan>>

DeskNext ==
  \/ \E d \in DeskDrafts, age \in 0..1 : Confirm(d, age)
  \/ PublishPlan \/ HourPasses \/ PricesArrive \/ LimitsChange

-----------------------------------------------------------------------------
(* Properties *)

\* No hour needs more than the import limit before the battery does anything.
NoPeaks(m) == \A i \in 1..KnownHours(m) : NetLoad(m, i) <= m.cfg.importCap

\* "Known shortfalls must be fixed before the plan is applied": what the
\* confirmation found attainable stays attainable, hour after hour, in every
\* plan published later while limits and forecasts hold (from a battery below its
\* reserve the plan may sink again to where it started, and a later one may not).
GoalsOutlast ==
  LET m == AppliedModel(confirmed) IN
  NoPeaks(m) => \A i \in 1..Min({checked, Len(plan)}) : Reasons(m, plan, i) = {}

\* "A later command cannot trade away an earlier manual goal": taking the later
\* commands back gains an earlier goal nothing.
EarlierGoalsFirst(m) ==
  LET known == KnownHours(m)
      Until(k) == [m EXCEPT !.commands = [i \in 1..DeskHours |-> IF i <= k THEN @[i] ELSE Auto]]
      Goal(k) == \E g \in ToSet(Goals(m, known)) : g = k
  IN  NoPeaks(m) =>
        \A k \in 1..known : Goal(k) /\ (k < DeskHours => ~(m.commands[k].type = "target"
                                         /\ ~IsBlockEnd(m, k))) =>
          {Gap(m, s, k) : s \in Optima(m)} = {Gap(m, s, k) : s \in Optima(Until(k))}

\* A goal a plan falls short of is reported: the operator sees it, and it cannot
\* be confirmed (a battery above its target is no shortfall).
MissesAreShown(m) ==
  \A s \in Optima(m) : \A g \in ToSet(Goals(m, Len(s))) :
    Gap(m, s, g) > 0 /\ (m.commands[g].type = "target" => s[g].soc < m.commands[g].value)
      => g \in Issues(m, s)

\* The effect shown for a day is what the battery saves: the cost of the day
\* without it less the cost with it, where surplus can be sold or none can.
CostWithout(m, i) ==
  LET sold == IF EffectiveExportCap(m.cfg) > 0 THEN Positive(-NetLoad(m, i)) ELSE 0
  IN  Positive(NetLoad(m, i)) * Buy(i) - sold * Sell(i)
CostWith(s, i) ==
  Positive(s[i].grid) * Buy(i) - Positive(-s[i].grid) * Sell(i) + Positive(s[i].p) * DeskWear
EffectIsSaving(m) ==
  \A s \in Optima(m) :
    (\A i \in DOMAIN s : \/ EffectiveExportCap(m.cfg) = 0
                         \/ s[i].curtailed = 0 /\ -NetLoad(m, i) <= EffectiveExportCap(m.cfg)) =>
      \A day \in {DayOfHour(i) : i \in DOMAIN s} :
        DayEffect(m, s, day) =
          MapThenSumSet(LAMBDA i : CostWithout(m, i) - CostWith(s, i),
                        {i \in DOMAIN s : DayOfHour(i) = day})

\* "Every hard limit has a slack": there is always a plan.
PlanExists(m) == FeasiblePlans(m, KnownHours(m)) # {}

\* The desk's answers can be relied on, of the plan confirmed and of any draft
\* previewed on a fresh page (dispatch.go, dispatch_handlers.go, dispatch_effect.go).
DeskAnswers ==
  /\ GoalsOutlast
  /\ PlanExists(AppliedModel(confirmed))
  /\ confirmed = NothingConfirmed =>
       \A m \in Previews : /\ PlanExists(m) /\ EarlierGoalsFirst(m)
                           /\ MissesAreShown(m) /\ EffectIsSaving(m)

\* The import limit confirmed holds in every plan published for the hours the
\* confirmation found free of issues, while the site's limits stay as they were
\* (sanitizeConstraints fits a stored limit "into the current envelope").
ConfirmedCapHolds ==
  limitsAsked # NotKnown =>
    \A i \in 1..Min({checked, Len(plan)}) : plan[i].grid <= limitsAsked.importCap

=============================================================================
