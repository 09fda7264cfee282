---------------------------- MODULE MCAlertWatchdog ----------------------------
\* Instances of AlertWatchdog for TLC.
EXTENDS AlertWatchdog, TLC

CONSTANTS d1, d2, l1, l2

\* Two organizations with a recipient list each.
MCListOf == d1 :> l1 @@ d2 :> l2

\* One device on one list.
MCOneList == d1 :> l1
===============================================================================
