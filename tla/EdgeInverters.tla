----------------------------- MODULE EdgeInverters -----------------------------
(***************************************************************************)
(* The inverter sweep of the edge (internal/edge/inverters.go): every      *)
(* inverter behind the PV SmartLogger is read in turn through one session, *)
(* and INVERTER_FAULT and INVERTER_RECOVERED are raised on transitions.    *)
(*                                                                         *)
(* The sweep's deadline is the poll interval: MaxTimeouts reads that time  *)
(* out exhaust it, and whatever is still to be read then fails.            *)
(***************************************************************************)
EXTENDS Integers, Sequences, FiniteSets

CONSTANTS
  Inverters,            \* sequence of device addresses, ascending
  MaxTimeouts           \* request timeouts that fit into one sweep

ASSUME InvertersAssumption == Inverters \in Seq(Int) /\ MaxTimeouts \in Nat \ {0}

Ids == {Inverters[i] : i \in DOMAIN Inverters}
Classes == {"on_grid", "fault"}    \* of a readable unit, by what the plant shows
None == "none"

VARIABLES
  sess,                 \* none, open, or broken: open to us, gone for the SmartLogger
  dialErr,              \* whether a dial of this sweep failed
  rows,                 \* class by address, as far as the sweep has got
  timeouts,             \* reads of this sweep that timed out
  prevClass,            \* class of the previous sweep, None before the first
  link,                 \* whether the SmartLogger can be reached
  unit,                 \* what each inverter shows; "dead" does not answer
  linkLost,             \* history: the link was down at some point of the sweep
  wasDead,              \* history: units that were dead at some point of the sweep
  standing              \* history: fault events less recovered events, by address

worldVars2 == <<link, unit>>
sweepVars == <<sess, dialErr, rows, timeouts>>
inverterVars == <<sweepVars, prevClass, worldVars2, linkLost, wasDead, standing>>

NoRows == [i \in {} |-> None]

InvertersInit ==
  /\ sess = "none" /\ dialErr = FALSE /\ rows = NoRows /\ timeouts = 0
  /\ prevClass = [i \in Ids |-> None]
  /\ link = TRUE /\ unit \in [Ids -> {"on_grid"}]
  /\ linkLost = FALSE /\ wasDead = {}
  /\ standing = [i \in Ids |-> 0]

Bad(class) == class \in {"fault", "unreachable"}

Swept == Cardinality(DOMAIN rows)
Turn == Inverters[Swept + 1]
InSweep == Swept < Len(Inverters)
InTime == timeouts < MaxTimeouts

Row(class) == rows' = [i \in DOMAIN rows \cup {Turn} |-> IF i = Turn THEN class ELSE rows[i]]

\* No session and none to be had: not dialled again in this sweep.
SkipDeadHost ==
  /\ InSweep /\ sess = "none" /\ dialErr
  /\ Row("unreachable")
  /\ UNCHANGED <<sess, dialErr, timeouts>>

DialFailsNow ==
  /\ InSweep /\ sess = "none" /\ ~dialErr /\ ~(link /\ InTime)
  /\ dialErr' = TRUE /\ Row("unreachable")
  /\ UNCHANGED <<sess, timeouts>>

CanRead == sess # "none" \/ (~dialErr /\ link /\ InTime)
Answered == link /\ InTime /\ unit[Turn] # "dead" /\ sess # "broken"

\* Mutant of ReadFails: the failed read counts as a failed dial.
ReadFailsForAll ==
  /\ InSweep /\ CanRead /\ ~Answered
  /\ Row("unreachable")
  /\ sess' = "none" /\ dialErr' = TRUE
  /\ timeouts' = IF InTime THEN timeouts + 1 ELSE timeouts

\* The session is dropped, so that the next address dials again.
ReadFails ==
  /\ InSweep /\ CanRead /\ ~Answered
  /\ Row("unreachable")
  /\ sess' = "none"
  /\ timeouts' = IF InTime THEN timeouts + 1 ELSE timeouts
  /\ UNCHANGED dialErr

ReadSucceeds ==
  /\ InSweep /\ CanRead /\ Answered
  /\ Row(unit[Turn])
  /\ sess' = "open"
  /\ UNCHANGED <<dialErr, timeouts>>

ReadNext ==
  /\ SkipDeadHost \/ DialFailsNow \/ ReadFails \/ ReadSucceeds
  /\ UNCHANGED <<prevClass, worldVars2, linkLost, wasDead, standing>>

\* Mutant of Transition: a unit seen for the first time is not announced.
TransitionSeen(i) ==
  IF Bad(rows[i]) /\ prevClass[i] # None /\ ~Bad(prevClass[i]) THEN 1
  ELSE IF Bad(prevClass[i]) /\ ~Bad(rows[i]) THEN -1 ELSE 0

\* emitInverterTransitions for one unit: +1 INVERTER_FAULT, -1 _RECOVERED.
Transition(i) ==
  IF Bad(rows[i]) /\ ~Bad(prevClass[i]) THEN 1
  ELSE IF Bad(prevClass[i]) /\ ~Bad(rows[i]) THEN -1 ELSE 0

\* The fleet is stored, transitions go to the journal, the ticker is awaited.
EndSweep ==
  /\ ~InSweep
  /\ standing' = [i \in Ids |-> standing[i] + Transition(i)]
  /\ prevClass' = rows
  /\ rows' = NoRows /\ dialErr' = FALSE /\ timeouts' = 0
  /\ linkLost' = ~link /\ wasDead' = {i \in Ids : unit[i] = "dead"}
  /\ UNCHANGED <<sess, worldVars2>>

\* The plant: units fail and recover, the link comes and goes.
UnitChanges ==
  /\ \E i \in Ids, u \in Classes \cup {"dead"} : unit' = [unit EXCEPT ![i] = u]
  /\ wasDead' = wasDead \cup {i \in Ids : unit'[i] = "dead"}
  /\ UNCHANGED <<sweepVars, prevClass, link, linkLost, standing>>

LinkChanges ==
  /\ link' = ~link /\ linkLost' = TRUE
  /\ sess' = IF sess = "open" THEN "broken" ELSE sess
  /\ UNCHANGED <<dialErr, rows, timeouts, prevClass, unit, wasDead, standing>>

InvertersNext == ReadNext \/ EndSweep \/ UnitChanges \/ LinkChanges

InvertersSpec == InvertersInit /\ [][InvertersNext]_inverterVars

-------------------------------------------------------------------------------
(* Properties. *)

\* One fault stands in the journal for each unit whose last completed sweep
\* ended in fault or unreachable, and none for the others, also for units that
\* are bad when the process first sees them.
FaultStandsWhileBad == \A i \in Ids : standing[i] = (IF Bad(prevClass[i]) THEN 1 ELSE 0)

\* A unit that answers is not reported unreachable because of others, as long
\* as the link holds and the dead ones have not eaten up the sweep's deadline:
\* a failed read costs the session, and the next address dials again.  A
\* session that broke between two sweeps costs the first unit only.
DeadUnitTakesNoOther ==
  \A i \in DOMAIN rows :
    rows[i] = "unreachable" =>
      i \in wasDead \/ linkLost \/ timeouts >= MaxTimeouts \/ i = Inverters[1]

\* The journal shows the units that are bad and no others, whichever sweeps
\* broke off (inverters.go).
BadUnitsAlone == FaultStandsWhileBad /\ DeadUnitTakesNoOther

===============================================================================
