------------------------------- MODULE EdgeTick -------------------------------
(***************************************************************************)
(* The fields of a tick (internal/edge/tick.go) that the shadow decision   *)
(* and the health snapshot read.                                           *)
(***************************************************************************)

\* The last two lines are read for diagnostics alone; two phases stand for three.
Keys == {"pv", "ess", "grid", "load", "soc", "charge_max", "discharge_max",
         "pcs_shutdown", "alarm",
         "pcs_running", "meter", "phase_a", "phase_b", "line_a", "line_b", "mode",
         "rated_kwh", "ess_count", "pcs_count"}
===============================================================================
