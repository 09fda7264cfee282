------------------------------ MODULE MCEdgeBox ------------------------------
(***************************************************************************)
(* Parts of the edge that share no state: what the device follows, what   *)
(* its health snapshot says of that, the poller of one SmartLogger and its *)
(* sweep of inverters.  One of them, chosen at the start, moves.           *)
(***************************************************************************)
EXTENDS MCEdgeControl, EdgeHealth, EdgePolls

VARIABLE part

MCDevices == {"pv", "ess"}
Blank == [k \in Keys |-> Nil]
PvScene(pv, grid, line) ==
  [Blank EXCEPT !["pv"] = pv, !["load"] = pv + grid, !["grid"] = grid, !["meter"] = -grid,
                !["phase_a"] = 230, !["phase_b"] = 231, !["line_a"] = line, !["line_b"] = line]
EssScene(soc, shutdown, running, alarm) ==
  [Blank EXCEPT !["ess"] = 0, !["soc"] = soc, !["charge_max"] = 101, !["discharge_max"] = 101,
                !["pcs_shutdown"] = shutdown, !["pcs_running"] = running, !["alarm"] = alarm,
                !["mode"] = 4, !["rated_kwh"] = 1721, !["ess_count"] = 0, !["pcs_count"] = 8]

\* A sound plant by day and by night, with all modules in operation or none;
\* a shutdown; an alarm with the battery above its band.
MCSound ==
  [d \in MCDevices |-> IF d = "pv" THEN {PvScene(301, 0, 400), PvScene(0, 301, 0)}
                       ELSE {EssScene(50, 0, 1, 0), EssScene(50, 0, 0, 0)}]
MCScenes ==
  [d \in MCDevices |-> MCSound[d] \cup (IF d = "pv" THEN {}
                                       ELSE {EssScene(50, 1, 0, 0), EssScene(95, 0, 1, 16)})]
MCLimits(preset) == [preset |-> preset, socMin |-> 20, socMax |-> 90, targetImport |-> 0]
MCSite == [limits |-> MCLimits("self_consumption"), essSign |-> -1]
MCIssued ==
  {[limits |-> MCLimits("economic_arbitrage"), chargeMax |-> 81, dischargeMax |-> 81,
    exportAllowed |-> FALSE]}
MCImports == [yaml |-> 0, manifest |-> 200]
MCPassport == [kwh |-> 1720, cabinets |-> 8]

MCGroups == <<"optional", "slow", "meter">>
MCChunks == <<<<{"k1", "k2"}, {"k3"}>>, <<{"k4"}>>, <<{"k5"}>>>>
MCEvery == <<1, 3, 1>>
MCInverters == <<12, 13, 14>>

BoxInit ==
  /\ part \in {"control", "health", "poller", "inverters"}
  /\ Init /\ HealthInit /\ PollerInit /\ InvertersInit

BoxNext ==
  /\ UNCHANGED part
  /\ \/ /\ part = "control" /\ Next
        /\ UNCHANGED <<healthVars, pollerVars, inverterVars>>
     \/ /\ part = "health" /\ HealthNext
        /\ UNCHANGED <<vars, pollerVars, inverterVars>>
     \/ /\ part = "poller" /\ PollerNext
        /\ UNCHANGED <<vars, healthVars, inverterVars>>
     \/ /\ part = "inverters" /\ InvertersNext
        /\ UNCHANGED <<vars, healthVars, pollerVars>>

BoxSpec == BoxInit /\ [][BoxNext]_<<part, vars, healthVars, pollerVars, inverterVars>>
==============================================================================
