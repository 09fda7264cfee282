------------------------------ MODULE EdgeDecide ------------------------------
(***************************************************************************)
(* One tick of the edge (internal/edge/tick.go, shadow.go; service.go:     *)
(* onTick): the newest readings of each device become a tick with a        *)
(* quality, and Decide turns tick, manifest and configuration into the     *)
(* power the battery would be told: + discharge, - charge.                 *)
(*                                                                         *)
(* Readings arrive, fail to arrive and age between ticks; the manifest     *)
(* expires, its plan moves on and an operator overrides it.  Powers are    *)
(* integers in units of 50 W; a quantity that was not read is Nil.         *)
(***************************************************************************)
EXTENDS Integers, Optional, EdgeTick

CONSTANTS
  Roles,                \* devices of the site, each answering for its own keys
  Answers,              \* [Roles -> set of the values a poll of it can return]
  Manifests,            \* manifests the cloud may have issued
  Site,                 \* the limits, preset and sign of the YAML
  PlanKw,               \* the plan's powers
  StaleAfter,           \* age (in ticks) of a stale reading
  FaultAfter            \* age of a reading too old to use

Arbitrage == "economic_arbitrage"
FallbackPreset == "self_consumption_safe"
deadbandKw == 40

Kw == Int \cup {Nil}
Reading == [Keys -> Kw]
Limits == [preset : STRING, socMin : Int, socMax : Int, targetImport : Nat]

ASSUME DecideAssumption ==
  /\ Nil \notin Int /\ Site \in [limits : Limits, essSign : {1, -1}]
  /\ \A r \in Roles : Answers[r] \subseteq Reading
  /\ Manifests \subseteq [limits : Limits, chargeMax : Nat, dischargeMax : Nat,
                          exportAllowed : BOOLEAN]
  /\ PlanKw \subseteq Int
  /\ StaleAfter \in Nat /\ FaultAfter \in Nat /\ StaleAfter <= FaultAfter

VARIABLES
  reading,              \* Normalizer.last: values and age, by role; Nil before the first
  manifest,             \* the stored manifest, Nil without one
  active,               \* whether its window contains the present
  interval,             \* the plan's power now, Nil outside its intervals
  override              \* whether fallback_safe is in force

decideVars == <<reading, manifest, active, interval, override>>

DecideInit ==
  /\ reading = [r \in Roles |-> Nil]
  /\ manifest = Nil /\ active = FALSE /\ interval = Nil /\ override = FALSE

-------------------------------------------------------------------------------
(* The tick. *)

Stale(r) == reading[r] # Nil /\ reading[r].age > StaleAfter
Dead(r) == reading[r] = Nil \/ reading[r].age > FaultAfter

\* Mutant of Quality: a stale role hides a dead one.
QualityStaleWins ==
  IF \E r \in Roles : Stale(r) /\ ~Dead(r) THEN "stale"
  ELSE IF \E r \in Roles : Dead(r) THEN "fault" ELSE "ok"

Quality ==
  IF \E r \in Roles : Dead(r) THEN "fault"
  ELSE IF \E r \in Roles : Stale(r) THEN "stale" ELSE "ok"

\* The merge: a key is answered by one role, and a dead role by none.
Merged(k) ==
  IF \E r \in Roles : ~Dead(r) /\ reading[r].values[k] # Nil
  THEN LET r == CHOOSE r \in Roles : ~Dead(r) /\ reading[r].values[k] # Nil
       IN reading[r].values[k]
  ELSE Nil

\* What the battery delivers, whatever the firmware's sign.
Discharging == IF Merged("ess") = Nil THEN Nil ELSE Merged("ess") * Site.essSign

NotNegative(x) == IF x < 0 THEN 0 ELSE x

\* Unread load is the balance of the node.
Load ==
  IF Merged("load") = Nil /\ Merged("pv") # Nil /\ Discharging # Nil /\ Merged("grid") # Nil
  THEN NotNegative(Merged("pv") + Discharging + Merged("grid"))
  ELSE Merged("load")

BuildTick ==
  [quality |-> Quality, pv |-> Merged("pv"), load |-> Load, soc |-> Merged("soc"),
   chargeMax |-> Merged("charge_max"), dischargeMax |-> Merged("discharge_max"),
   pcsShutdown |-> Merged("pcs_shutdown") \notin {Nil, 0},
   alarm |-> Merged("alarm") \notin {Nil, 0}]

-------------------------------------------------------------------------------
(* The decision. *)

ConfigParams ==
  [limits |-> Site.limits, source |-> "config", plan |-> Nil,
   chargeMax |-> 0, dischargeMax |-> 0, exportAllowed |-> FALSE]

\* Zero or empty in the manifest leaves the site's value.
Overlay(mine, its) ==
  [preset |-> IF its.preset # "" THEN its.preset ELSE mine.preset,
   socMin |-> IF its.socMin > 0 THEN its.socMin ELSE mine.socMin,
   socMax |-> IF its.socMax > 0 THEN its.socMax ELSE mine.socMax,
   targetImport |-> IF its.targetImport > 0 THEN its.targetImport ELSE mine.targetImport]

\* Mutant of ResolveParams: an expired manifest keeps its plan and preset.
ResolveParamsExpired(m, current) ==
  IF m = Nil THEN ConfigParams
  ELSE [limits |-> Overlay(Site.limits, m.limits), source |-> "fallback",
        plan |-> interval, chargeMax |-> m.chargeMax,
        dischargeMax |-> m.dischargeMax, exportAllowed |-> m.exportAllowed]

\* Power limits outlive the manifest's window; everything else of it does not.
ResolveParams(m, current) ==
  IF m = Nil THEN ConfigParams
  ELSE [limits |-> IF current THEN Overlay(Site.limits, m.limits)
                   ELSE [Site.limits EXCEPT !.preset = FallbackPreset],
        source |-> IF current THEN "manifest" ELSE "fallback",
        plan |-> IF current THEN interval ELSE Nil,
        chargeMax |-> m.chargeMax, dischargeMax |-> m.dischargeMax,
        exportAllowed |-> current /\ m.exportAllowed]

\* Charge from the surplus, discharge into the deficit, within a dead band.
SelfConsumption(t) ==
  IF t.pv = Nil \/ t.load = Nil THEN [kw |-> 0, reason |-> "insufficient_data"]
  ELSE IF t.pv - t.load > deadbandKw THEN [kw |-> t.load - t.pv, reason |-> "self_charge"]
  ELSE IF t.pv - t.load < -deadbandKw THEN [kw |-> t.load - t.pv, reason |-> "self_discharge"]
  ELSE [kw |-> 0, reason |-> "hold"]

PlanSetpoint(p) ==
  [kw |-> p.plan, reason |-> IF p.plan > deadbandKw THEN "plan_discharge"
                             ELSE IF p.plan < -deadbandKw THEN "plan_charge"
                             ELSE "plan_hold"]

DesiredPower(t, p) ==
  IF p.limits.preset = Arbitrage /\ p.plan # Nil THEN PlanSetpoint(p)
  ELSE SelfConsumption(t)

Blocked(reason) == [kw |-> 0, reason |-> reason]

\* The blocking checks, in their order, before any source of power.
Setpoint(t, p) ==
  IF t.quality = "fault" THEN Blocked("data_fault")
  ELSE IF t.alarm THEN Blocked("sl_alarm")
  ELSE IF t.pcsShutdown THEN Blocked("pcs_shutdown")
  ELSE DesiredPower(t, p)

-------------------------------------------------------------------------------
(* The safety chain.  A step returns the power it lets through. *)

SocForbids(t, p, kw) ==
  \/ t.soc = Nil
  \/ kw > 0 /\ t.soc <= p.limits.socMin
  \/ kw < 0 /\ t.soc >= p.limits.socMax

AtLeast(kw, cap) == IF kw < cap THEN cap ELSE kw
AtMostKw(kw, cap) == IF kw > cap THEN cap ELSE kw

\* A cap of zero, or one that was not read, is none.
Capped(kw, dischargeCap, chargeCap) ==
  IF kw > 0 /\ dischargeCap # Nil /\ dischargeCap > 0 THEN AtMostKw(kw, dischargeCap)
  ELSE IF kw < 0 /\ chargeCap # Nil /\ chargeCap > 0 THEN AtLeast(kw, -chargeCap)
  ELSE kw

ClampPolicy(t, p, kw) == Capped(kw, p.dischargeMax, p.chargeMax)

ClampDynamicSL(t, p, kw) == Capped(kw, t.dischargeMax, t.chargeMax)

FlowsKnown(t) == t.pv # Nil /\ t.load # Nil

ClampNoExport(t, p, kw) ==
  IF kw > 0 /\ FlowsKnown(t) /\ ~p.exportAllowed
  THEN AtMostKw(kw, NotNegative(t.load - t.pv)) ELSE kw

\* What charging may draw: the import left under the target for a plan, the
\* surplus alone for the other presets.
ChargeRoom(t, p) ==
  IF p.limits.preset = Arbitrage THEN NotNegative(p.limits.targetImport - (t.load - t.pv))
  ELSE NotNegative(t.pv - t.load)

ClampChargeSource(t, p, kw) ==
  IF kw < 0 /\ FlowsKnown(t) /\ (p.limits.preset # Arbitrage \/ p.limits.targetImport > 0)
  THEN AtLeast(kw, -ChargeRoom(t, p)) ELSE kw

\* Mutant of ClampBess: the policy cap is taken from the unclamped power.
ClampBessParallel(t, p, kw) ==
  IF kw = 0 \/ SocForbids(t, p, kw) THEN 0
  ELSE IF kw > 0 THEN ClampNoExport(t, p, ClampDynamicSL(t, p, kw))
  ELSE ClampChargeSource(t, p, ClampDynamicSL(t, p, kw))

\* The state of charge stops the chain; the other steps pass the power on.
ClampBess(t, p, kw) ==
  IF kw = 0 \/ SocForbids(t, p, kw) THEN 0
  ELSE ClampChargeSource(t, p, ClampNoExport(t, p,
         ClampDynamicSL(t, p, ClampPolicy(t, p, kw))))

\* To 100 W, half away from zero, after the clamps.
Round1(kw) == IF kw >= 0 THEN 2 * ((kw + 1) \div 2) ELSE -(2 * ((1 - kw) \div 2))

Abs(kw) == IF kw < 0 THEN -kw ELSE kw

\* Without a policy limit nothing is an anomaly.
Anomaly(p, kw) ==
  LET policy == AtLeast(p.chargeMax, p.dischargeMax)
  IN policy > 0 /\ 2 * Abs(kw) > 3 * policy

\* A step that clamps changes the power, so a cut shows as a difference.
EventsOf(p, s, kw) ==
  (IF s.reason = "sl_alarm" THEN {"sl_alarm"} ELSE {})
    \cup (IF Anomaly(p, s.kw) THEN {"shadow_anomaly"} ELSE {})
    \cup (IF kw # s.kw THEN {"dispatch_degraded"} ELSE {})

Decide(t, p) ==
  LET s == Setpoint(t, p)
      kw == ClampBess(t, p, s.kw)
  IN [kw |-> Round1(kw), wanted |-> s.kw, reason |-> s.reason, events |-> EventsOf(p, s, kw)]

\* The override is a manifest that has run out, with nothing in it.
EmptyManifest ==
  [limits |-> Site.limits, chargeMax |-> 0, dischargeMax |-> 0, exportAllowed |-> FALSE]

Effective == IF override THEN EmptyManifest ELSE manifest

Params == ResolveParams(Effective, active /\ ~override)

-------------------------------------------------------------------------------
(* Actions. *)

Older(rd) == IF rd = Nil THEN Nil
             ELSE [rd EXCEPT !.age = IF @ > FaultAfter THEN @ ELSE @ + 1]

\* A good poll; a failed one changes nothing here.
Observe(r) ==
  /\ \E v \in Answers[r] : reading' = [reading EXCEPT ![r] = [values |-> v, age |-> 0]]
  /\ UNCHANGED <<manifest, active, interval, override>>

\* What a tick at this moment journals and stores as the last decision.
Decision == Decide(BuildTick, Params)

\* A tick decides, and the readings have aged when the next one comes.
OnTick ==
  /\ reading' = [r \in Roles |-> Older(reading[r])]
  /\ UNCHANGED <<manifest, active, interval, override>>

\* valid_from is the cloud's clock: a fresh manifest may still lie ahead.
StoreManifest ==
  /\ \E m \in Manifests : manifest' = m
  /\ active' \in BOOLEAN
  /\ UNCHANGED <<reading, interval, override>>

\* The present enters or leaves the manifest's window.
WindowMoves ==
  /\ manifest # Nil /\ active' = ~active
  /\ UNCHANGED <<reading, manifest, interval, override>>

PlanMoves ==
  /\ \E kw \in PlanKw \cup {Nil} : interval' = kw
  /\ UNCHANGED <<reading, manifest, active, override>>

Operator ==
  /\ override' = ~override
  /\ UNCHANGED <<reading, manifest, active, interval>>

DecideNext ==
  \/ \E r \in Roles : Observe(r)
  \/ OnTick \/ StoreManifest \/ WindowMoves \/ PlanMoves \/ Operator

DecideSpec == DecideInit /\ [][DecideNext]_decideVars

-------------------------------------------------------------------------------
(* Properties. *)

\* All limits of a command hold together: none of the steps of clampSteps
\* undoes what an earlier one has cut, and none turns the power around.
ObeysLimits(t, p, d) ==
  /\ d.kw # 0 => t.soc # Nil
  /\ d.kw > 0 => d.wanted > 0 /\ t.soc > p.limits.socMin
  /\ d.kw < 0 => d.wanted < 0 /\ t.soc < p.limits.socMax
  /\ p.dischargeMax > 0 => d.kw <= p.dischargeMax + 1
  /\ p.chargeMax > 0 => -d.kw <= p.chargeMax + 1
  /\ t.dischargeMax # Nil /\ t.dischargeMax > 0 => d.kw <= t.dischargeMax + 1
  /\ t.chargeMax # Nil /\ t.chargeMax > 0 => -d.kw <= t.chargeMax + 1
  /\ FlowsKnown(t) /\ ~p.exportAllowed /\ d.kw > 0 => d.kw <= NotNegative(t.load - t.pv) + 1

\* Every command obeys the limits of its tick, whichever of them cut it.
CommandWithinLimits == ObeysLimits(BuildTick, Params, Decision)

\* Without a plan in force, whether it expired, was overridden or never came,
\* the battery causes neither import nor export, whatever preset the
\* configuration names and whatever the manifest allowed: "no arbitrage, no
\* grid charge".
NoTradeOffPlan ==
  /\ manifest = Nil \/ ~active \/ override \/ interval = Nil
  /\ Decision.kw # 0
  =>
    /\ FlowsKnown(BuildTick)
    /\ Decision.kw <= NotNegative(BuildTick.load - BuildTick.pv) + 1
    /\ -Decision.kw <= NotNegative(BuildTick.pv - BuildTick.load) + 1

\* Nothing is commanded while one of the devices has been silent for longer
\* than FaultAfter, even if the others answer (quality "fault").
NoCommandOnDeadData == Decision.kw # 0 => \A r \in Roles : ~Dead(r)

\* What a tick commands is justified by what it knows: by the limits in force,
\* by a plan when it trades, and by devices that answer; no power needs none
\* (shadow.go Decide).
CommandJustified ==
  Decision.kw # 0 => CommandWithinLimits /\ NoTradeOffPlan /\ NoCommandOnDeadData

\* The override drops the manifest's plan but not its power limits, which
\* "stay in force even when it expires" (shadow.go:134).
OverrideKeepsLimits ==
  override /\ manifest # Nil =>
    /\ manifest.dischargeMax > 0 => Decision.kw <= manifest.dischargeMax + 1
    /\ manifest.chargeMax > 0 => -Decision.kw <= manifest.chargeMax + 1

===============================================================================
