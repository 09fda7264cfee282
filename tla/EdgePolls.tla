------------------------------- MODULE EdgePolls -------------------------------
(***************************************************************************)
(* The two goroutines of internal/edge that poll devices: one SmartLogger  *)
(* (poller.go), and the inverters behind it (inverters.go).                *)
(***************************************************************************)
EXTENDS EdgePoller, EdgeInverters

\* Outages are journalled once and for the unit that failed, and a held value
\* or a refused key is what its newest attempt says (poller.go, inverters.go).
OutagesTold == PollerTruthful /\ BadUnitsAlone
================================================================================
