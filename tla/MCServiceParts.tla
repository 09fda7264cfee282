--------------------------- MODULE MCServiceParts ---------------------------
(***************************************************************************)
(* Parts of the cloud, and of the edge, that share no state: the           *)
(* manifest's window, the edge's decision, sessions and users, the         *)
(* assistant, the repair of counters, its mails, and the economics of      *)
(* days.  One of them, chosen at the start, moves.                         *)
(***************************************************************************)
EXTENDS ManifestWindow, EdgeDecide, UserSessions, Assistant, CounterStitch,
        CounterAlerts, EconomicsDays, TLC

CONSTANTS u1, u2, m1, m2

VARIABLE moving

Blank == [k \in Keys |-> Nil]
MCRoles == {"pv", "ess"}
PvAnswer(pv, load, grid) == [Blank EXCEPT !["pv"] = pv, !["load"] = load, !["grid"] = grid]
EssAnswer(soc, cap) ==
  [Blank EXCEPT !["ess"] = 61, !["soc"] = soc, !["charge_max"] = cap, !["discharge_max"] = cap,
                !["pcs_shutdown"] = 0, !["alarm"] = 0]
Ordinary == EssAnswer(50, 101)
MCAnswers ==
  [r \in MCRoles |->
     IF r = "pv" THEN {PvAnswer(0, 301, 301), PvAnswer(301, 0, -301), PvAnswer(301, Nil, -161),
                       PvAnswer(Nil, 201, 0), PvAnswer(100, 110, 10)}
     ELSE {Ordinary, EssAnswer(50, Nil), EssAnswer(20, 0), EssAnswer(90, Nil), EssAnswer(Nil, Nil),
           [Ordinary EXCEPT !["alarm"] = 16], [Ordinary EXCEPT !["pcs_shutdown"] = 1]}]
MCLimits(preset, target) ==
  [preset |-> preset, socMin |-> 20, socMax |-> 90, targetImport |-> target]
MCSite == [limits |-> MCLimits("self_consumption", 0), essSign |-> -1]
MCManifest(preset, cap, export, target) ==
  [limits |-> MCLimits(preset, target), chargeMax |-> cap, dischargeMax |-> cap,
   exportAllowed |-> export]
MCManifests == {MCManifest(Arbitrage, 0, FALSE, 400), MCManifest(Arbitrage, 81, TRUE, 0),
                MCManifest("", 81, FALSE, 0)}
MCPlanKw == {201, -201, 0}

MCActsAs == [r \in Managers |-> IF r = m1 THEN u1 ELSE u2]
MCAskerOf == [q \in Requests |-> u1]
Wish(limit, enabled, k) == [limit |-> limit, enabled |-> enabled, key |-> k]
MCWishes == {Wish(2, TRUE, "keep"), Wish(1, FALSE, "clear"), Wish(1, TRUE, "set")}
MCListFor == [c \in Counters |-> c]
MCDeltas == {-8, 0, 9}

edgeVars == <<vars, decideVars>>
cloudVars == <<sessionVars, assistantVars, stitchVars, counterAlertVars, econVars>>

PartsInit ==
  /\ moving \in {"window", "decide", "sessions", "assistant", "stitch", "counterAlerts", "days"}
  /\ Init /\ DecideInit
  /\ SessionsInit /\ AssistantInit /\ StitchInit /\ CounterAlertsInit /\ EconInit
  /\ known \/ moving = "window"

PartsNext ==
  /\ UNCHANGED moving
  /\ \/ /\ moving = "window" /\ Next
        /\ UNCHANGED <<decideVars, cloudVars>>
     \/ /\ moving = "decide" /\ DecideNext
        /\ UNCHANGED <<vars, cloudVars>>
     \/ /\ moving = "sessions" /\ SessionsNext
        /\ UNCHANGED <<assistantVars, stitchVars, counterAlertVars, econVars, edgeVars>>
     \/ /\ moving = "assistant" /\ AssistantNext
        /\ UNCHANGED <<sessionVars, stitchVars, counterAlertVars, econVars, edgeVars>>
     \/ /\ moving = "stitch" /\ StitchNext
        /\ UNCHANGED <<sessionVars, assistantVars, counterAlertVars, econVars, edgeVars>>
     \/ /\ moving = "counterAlerts" /\ CounterAlertsNext
        /\ UNCHANGED <<sessionVars, assistantVars, stitchVars, econVars, edgeVars>>
     \/ /\ moving = "days" /\ EconNext
        /\ UNCHANGED <<sessionVars, assistantVars, stitchVars, counterAlertVars, edgeVars>>

PartsSpec == PartsInit /\ [][PartsNext]_<<moving, edgeVars, cloudVars>>
=============================================================================
