------------------------------ MODULE EdgeHealth ------------------------------
(***************************************************************************)
(* The health snapshot of the edge (internal/edge/health.go): a table of   *)
(* checks that the console and the heartbeat build from what the core loop *)
(* and the pollers have stored last.                                       *)
(*                                                                         *)
(* The core loop stores the tick, writes it to the black box and then      *)
(* stores the decision; manifest and override change under it, and under   *)
(* the monitor override no decision is stored at all.  A snapshot is taken *)
(* between any two of these steps, without a lock.                         *)
(*                                                                         *)
(* Decisions are those of EdgeDecide.  A check is told by its severity:    *)
(* "warning" and "alarm" turn the snapshot red, "none" is a missing row.   *)
(* The row of the inverters only counts the classes of EdgeInverters and   *)
(* is left out.  One group of line voltages and one control mode stand for *)
(* the three of site, panels and battery.                                  *)
(***************************************************************************)
EXTENDS Integers, Optional, EdgeTick

CONSTANTS
  Devices,              \* roles of the site, one SmartLogger each
  Scenes,               \* [Devices -> what a poll of it can return]
  Sound,                \* [Devices -> those of them a healthy plant returns]
  IssuedPlans, HealthSite, HealthPlanKw,
  Silent, Gone,         \* ages of a stale and of a dead reading, as in EdgeDecide
  FreshFor,             \* age up to which a SmartLogger counts as polled
  ImportLimits,         \* import limit of the YAML and of the manifests, 0 for none
  Passport              \* [kwh, cabinets] of the battery, 0 where not configured

VARIABLES
  heard,                \* last reading and its age, by role
  issued, inForce, planned,    \* the manifest, its window, the plan's power now
  console,              \* the override in force
  lastTick, lastDecision,      \* the two atomic pointers
  deciding,             \* the tick is stored, its decision not yet
  paired,               \* history: the decision was taken on this tick
  dueKw                   \* history: the plan's power when the last tick came to decide

D == INSTANCE EdgeDecide WITH
       Roles <- Devices, Answers <- Scenes, Manifests <- IssuedPlans, Site <- HealthSite,
       PlanKw <- HealthPlanKw, StaleAfter <- Silent, FaultAfter <- Gone,
       reading <- heard, manifest <- issued, active <- inForce, interval <- planned,
       override <- (console = "fallback_safe")

storedVars == <<lastTick, lastDecision, deciding, paired, dueKw>>
healthVars == <<heard, issued, inForce, planned, console, storedVars>>

Kilowatt == 20

Ticks == [quality : {"ok", "stale", "fault"}, pv : D!Kw, load : D!Kw, soc : D!Kw,
          chargeMax : D!Kw, dischargeMax : D!Kw, pcsShutdown : BOOLEAN, alarm : BOOLEAN]

ASSUME HealthAssumption ==
  /\ Nil \notin Int /\ Nil \notin [tick : Ticks, values : D!Reading]
  /\ HealthSite.essSign \in {1, -1} /\ Passport \in [kwh : Nat, cabinets : Nat]
  /\ \A d \in Devices : Scenes[d] \subseteq D!Reading /\ Sound[d] \subseteq D!Reading

SoundReads ==
  {read \in [Devices -> UNION {Sound[d] : d \in Devices}] :
     \A d \in Devices : read[d] \in Sound[d]}

\* What the devices of a read say of some keys.
Said(read, keys) == {read[d][k] : d \in Devices, k \in keys} \ {Nil}

\* A plant is sound when it answers this: alarm words that are polled and
\* clear, no shutdown, remote control, voltage on every phase and on all lines
\* or none, a meter that runs against the node, the battery of the passport.
ASSUME SoundAssumption ==
  /\ "ess" \in Devices
  /\ \A read \in SoundReads :
       LET lines == Said(read, {"line_a", "line_b"})
       IN /\ Said(read, {"alarm"}) = {0} /\ Said(read, {"pcs_shutdown"}) \subseteq {0}
          /\ Said(read, {"mode"}) \subseteq {4}
          /\ \A v \in Said(read, {"phase_a", "phase_b"}) : v >= 200
          /\ lines = {0} \/ \A v \in lines : v >= 350
          /\ \A g \in Said(read, {"grid"}), m \in Said(read, {"meter"}) :
               \/ D!Abs(g) < 5 * Kilowatt \/ D!Abs(m) < 5 * Kilowatt
               \/ (g > 0) # (m > 0)
          /\ \A e \in Said(read, {"rated_kwh"}) :
               Passport.kwh > 0 => 100 * D!Abs(e - Passport.kwh) <= Passport.kwh
          /\ Said(read, {"ess_count", "pcs_count"}) \subseteq {0, Passport.cabinets}

HealthInit ==
  /\ heard = [d \in Devices |-> Nil]
  /\ issued = Nil /\ inForce = FALSE /\ planned = Nil /\ console = "none"
  /\ lastTick = Nil /\ lastDecision = Nil /\ deciding = FALSE
  /\ paired = FALSE /\ dueKw = Nil

-------------------------------------------------------------------------------
(* The stores. *)

Hear(d) ==
  /\ ~deciding /\ UNCHANGED <<console, storedVars>>
  /\ D!Observe(d)

\* The plan behind a decision: only a planned setpoint carries one.
PlanOf(p, reason) ==
  IF reason \in {"plan_charge", "plan_discharge", "plan_hold"} THEN p.plan ELSE Nil

StoreTick ==
  /\ ~deciding /\ deciding' = TRUE /\ paired' = FALSE
  /\ lastTick' = [tick |-> D!BuildTick, values |-> [k \in Keys |-> D!Merged(k)]]
  /\ UNCHANGED <<heard, issued, inForce, planned, console, lastDecision, dueKw>>

\* The manifest and the override are those of now, the tick that of before.
StoreDecision ==
  LET d == D!Decide(lastTick.tick, D!Params)
  IN /\ deciding /\ deciding' = FALSE
     /\ IF console = "monitor" THEN UNCHANGED <<lastDecision, paired>>
        ELSE /\ lastDecision' = [kw |-> d.kw, reason |-> d.reason,
                                 plan |-> PlanOf(D!Params, d.reason)]
             /\ paired' = TRUE
     /\ dueKw' = D!Params.plan
     /\ heard' = [r \in Devices |-> D!Older(heard[r])]
     /\ UNCHANGED <<issued, inForce, planned, console, lastTick>>

PlanChanges ==
  /\ UNCHANGED <<console, storedVars>>
  /\ D!StoreManifest \/ D!WindowMoves \/ D!PlanMoves

Console ==
  /\ console' \in {"none", "fallback_safe", "monitor"} \ {console}
  /\ UNCHANGED <<heard, issued, inForce, planned, storedVars>>

HealthNext ==
  \/ \E d \in Devices : Hear(d)
  \/ StoreTick \/ StoreDecision \/ PlanChanges \/ Console

HealthSpec == HealthInit /\ [][HealthNext]_healthVars

-------------------------------------------------------------------------------
(* The checks. *)

\* The limits shown are the manifest's or the site's; the override is not asked.
Shown == D!ResolveParams(issued, inForce)

Read(k) == IF lastTick = Nil THEN Nil ELSE lastTick.values[k]

Warn(bad) == IF bad THEN "warning" ELSE "ok"
Alarm(bad) == IF bad THEN "alarm" ELSE "ok"

DataQuality ==
  IF lastTick = Nil \/ lastTick.tick.quality = "fault" THEN "alarm"
  ELSE Warn(lastTick.tick.quality = "stale")

SocOut == Read("soc") < Shown.limits.socMin \/ Read("soc") > Shown.limits.socMax
SocBand == IF Read("soc") = Nil THEN "warning" ELSE Warn(SocOut)

\* Mutant of Pcs: no module in operation is taken for a shutdown.
PcsIdleIsShutdown ==
  IF Read("pcs_shutdown") = Nil THEN "warning"
  ELSE Alarm(Read("pcs_shutdown") # 0 \/ Read("pcs_running") = 0)

\* Mutant of Pcs: modules out of operation are looked at before the shutdown.
PcsIdleFirst ==
  IF Read("pcs_shutdown") = Nil \/ Read("pcs_running") = 0 THEN "warning"
  ELSE Alarm(Read("pcs_shutdown") # 0)

Pcs ==
  IF Read("pcs_shutdown") = Nil THEN "warning"
  ELSE IF Read("pcs_shutdown") # 0 THEN "alarm"
  ELSE Warn(Read("pcs_running") = 0)

\* Words that were not polled are not all clear.
SlAlarms ==
  IF lastTick = Nil THEN "none"
  ELSE IF Read("alarm") = Nil THEN "warning" ELSE Alarm(Read("alarm") # 0)

\* The meter counts export, the node import: the signs must differ.
PccSign ==
  LET grid == Read("grid") meter == Read("meter")
  IN IF grid = Nil \/ meter = Nil THEN "none"
     ELSE IF D!Abs(grid) < 5 * Kilowatt \/ D!Abs(meter) < 5 * Kilowatt THEN "info"
     ELSE Warn((grid > 0) = (meter > 0))

ReadOf(keys) == {Read(k) : k \in keys} \ {Nil}
Phases == ReadOf({"phase_a", "phase_b"})
Lines == ReadOf({"line_a", "line_b"})

\* Mutant of LinesIdle: a logger that measures nothing has lost its voltage.
LinesIdleNever == FALSE

\* Lines that all read zero belong to inverters that measure nothing.
LinesIdle == Lines = {0}

GridVoltage ==
  IF Phases \cup Lines = {} THEN "none"
  ELSE IF Phases = {} /\ LinesIdle THEN "info"
  ELSE Alarm(\/ \E v \in Phases : v < 200
             \/ ~LinesIdle /\ \E v \in Lines : v < 350)

ControlMode == IF Read("mode") = Nil THEN "none" ELSE Warn(Read("mode") # 4)

EffectiveImportLimit ==
  IF issued # Nil /\ inForce /\ ImportLimits.manifest > 0 THEN ImportLimits.manifest
  ELSE ImportLimits.yaml

GridLimit ==
  IF EffectiveImportLimit = 0 \/ Read("grid") = Nil THEN "none"
  ELSE Alarm(Read("grid") > EffectiveImportLimit)

PlanVsShadow ==
  IF lastDecision = Nil THEN "none"
  ELSE IF lastDecision.plan = Nil THEN "none"
  ELSE Warn(D!Abs(lastDecision.plan - lastDecision.kw) > Kilowatt)

HostFresh(d) == heard[d] # Nil /\ heard[d].age <= FreshFor
Links == Alarm(\E d \in Devices : ~HostFresh(d))

BessClass ==
  IF ~HostFresh("ess") THEN "unreachable"
  ELSE IF Read("pcs_shutdown") \notin {Nil, 0} THEN "shutdown" ELSE "running"

Bess ==
  IF BessClass # "running" THEN "alarm"
  ELSE Warn(Read("soc") # Nil /\ SocOut)

\* Energy to one per cent; cabinets by the count that is filled in.
Cabinets ==
  IF Read("ess_count") \notin {Nil, 0} THEN Read("ess_count")
  ELSE IF Read("pcs_count") \notin {Nil, 0} THEN Read("pcs_count") ELSE Passport.cabinets

Inventory ==
  IF Passport = [kwh |-> 0, cabinets |-> 0] \/ lastTick = Nil \/ BessClass = "unreachable"
  THEN "none"
  ELSE Warn(\/ /\ Passport.kwh > 0 /\ Read("rated_kwh") # Nil
               /\ 100 * D!Abs(Read("rated_kwh") - Passport.kwh) > Passport.kwh
            \/ Passport.cabinets > 0 /\ Cabinets # Passport.cabinets)

Checks ==
  [data_quality |-> DataQuality, soc_band |-> SocBand, pcs |-> Pcs, sl_alarms |-> SlAlarms,
   pcc_sign |-> PccSign, grid_voltage |-> GridVoltage, control_mode |-> ControlMode,
   grid_limit |-> GridLimit, plan_vs_shadow |-> PlanVsShadow, sl_links |-> Links,
   bess |-> Bess, bess_inventory |-> Inventory]

Red(severity) == severity \in {"warning", "alarm"}

-------------------------------------------------------------------------------
(* Properties. *)

Blocking == {"data_fault", "sl_alarm", "pcs_shutdown"}

\* Whatever made the engine block the battery, health.go alarms for the same
\* reason: the two derive it separately, from other fields of the tick.
RedWhenBlocked ==
  paired /\ lastDecision.reason \in Blocking =>
    Checks[CASE lastDecision.reason = "data_fault" -> "data_quality"
             [] lastDecision.reason = "sl_alarm" -> "sl_alarms"
             [] lastDecision.reason = "pcs_shutdown" -> "pcs"] = "alarm"

\* What a healthy plant returns now was all of the last tick.
SoundTick ==
  /\ lastTick # Nil
  /\ \A d \in Devices : HostFresh(d)
  /\ \E read \in SoundReads :
       /\ \A k \in Keys : lastTick.values[k] \in {Nil} \cup {read[d][k] : d \in Devices}
       /\ \A d \in Devices, k \in Keys : read[d][k] # Nil => lastTick.values[k] = read[d][k]

\* A plant that works keeps the snapshot green, by night and with a module
\* out of operation too: nothing reddens but a plan that was cut, an import
\* over the limit or a charge outside the band shown.  A module out of
\* operation is a warning of its own, never an alarm.
QuietWhenSound ==
  SoundTick /\ lastTick.tick.quality = "ok" =>
    LET check == Checks
    IN \A c \in DOMAIN check :
         /\ Red(check[c]) => c \in {"plan_vs_shadow", "grid_limit", "soc_band", "bess", "pcs"}
         /\ check[c] = "alarm" => c = "grid_limit"

\* The snapshot is red when the battery is blocked and quiet when all is well
\* (health.go), whatever was stored between the tick and its decision.
HealthTellsTruth == RedWhenBlocked /\ QuietWhenSound

\* "plan_vs_shadow: only meaningful while a plan interval is active"
\* (health.go:210): with an earlier tick's plan nothing is compared.
PlanComparedWhileActive ==
  ~deciding /\ PlanVsShadow # "none" => dueKw # Nil

\* A battery without connection shows "dispatch blocked" (health.go:276), and
\* a tick that was stale for it commands nothing.
BlockedAsTold ==
  paired /\ BessClass = "unreachable" /\ lastTick.tick.quality # "ok" =>
    lastDecision.kw = 0

===============================================================================
