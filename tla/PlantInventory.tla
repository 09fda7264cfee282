--------------------------- MODULE PlantInventory ---------------------------
(***************************************************************************)
(* The plant passport: the rare poll of nameplate registers over the       *)
(* loggers of a site, merged into one snapshot (cmd/collector/inventory.go,*)
(* internal/inventory/snapshot.go), and the two views of the stored        *)
(* snapshots: the passport as it stands and the history of its changes.    *)
(***************************************************************************)
EXTENDS Collector

CONSTANTS
  NoReading,     \* a register that was not read
  Loggers,       \* device -> its role: "pv", "ess" or "single"
  Readings,      \* field -> the values a register may decode to
  RemoteMode,    \* ActivePowerControlModeRemote
  Tolerance,     \* fieldTolerance of the nameplate fields
  ListLimit,     \* defaultPlantInventoryListLimit
  MaxSnapshots   \* bound: snapshots stored

Fields == {"pvRated", "essRated", "controlMode"}

ASSUME PlantInventoryAssumption ==
  /\ {RemoteMode, Tolerance, ListLimit, MaxSnapshots} \subseteq Nat
  /\ NoReading \notin Int /\ \A f \in Fields : Readings[f] \subseteq Nat

KeysForRole(role) ==
  CASE role = "pv" -> {"pvRated", "controlMode"}
    [] role = "ess" -> {"essRated", "controlMode"}
    [] OTHER -> Fields

VARIABLES
  snapshots,   \* plant_inventory_snapshots, oldest first
  readings     \* the readings of the poll under way: sequence of [dev, values]

inventoryVars == <<snapshots, readings>>

InventoryInit == snapshots = <<>> /\ readings = <<>>

Order == SetToSeq(DOMAIN Loggers)
NextLogger == Order[Len(readings) + 1]

\* readDeviceInventory: all the registers of the logger's role, or an error.
ReadLogger ==
  /\ Len(snapshots) < MaxSnapshots /\ Len(readings) < Len(Order)
  /\ \E values \in [Fields -> UNION {Readings[f] : f \in Fields} \cup {NoReading}] :
       /\ \A f \in Fields : values[f] \in
            IF f \in KeysForRole(Loggers[NextLogger]) THEN Readings[f] ELSE {NoReading}
       /\ readings' = Append(readings, [failed |-> FALSE, values |-> values])
  /\ UNCHANGED snapshots

LoggerFails ==
  /\ Len(snapshots) < MaxSnapshots /\ Len(readings) < Len(Order)
  /\ readings' = Append(readings, [failed |-> TRUE, values |-> [f \in Fields |-> NoReading]])
  /\ UNCHANGED snapshots

\* Where a sequence of values has one, and the last of them.
Reported(values) == {i \in DOMAIN values : values[i] # NoReading}
LastReported(values) ==
  IF Reported(values) = {} THEN NoReading ELSE values[Max(Reported(values))]

\* Merge: the last logger that reported a field gives it.
Merged(rs) == [f \in Fields |-> LastReported([i \in DOMAIN rs |-> rs[i].values[f]])]

Modes(rs) == {rs[i].values["controlMode"] : i \in DOMAIN rs} \ {NoReading}
Flags(rs) ==
  {"MODBUS_ERROR" : i \in {i \in DOMAIN rs : rs[i].failed}}
    \cup (IF \E a, b \in Modes(rs) : a # b THEN {"CONTROL_MODE_DISAGREE"} ELSE {})
    \cup (IF Merged(rs)["controlMode"] \in {NoReading, RemoteMode}
          THEN {} ELSE {"CONTROL_MODE_NOT_REMOTE"})

\* pollOrgInventory: the merged snapshot is stored; a failed insert loses it.
StoreSnapshot ==
  /\ Len(readings) = Len(Order)
  /\ snapshots' = Append(snapshots, [values |-> Merged(readings), flags |-> Flags(readings)])
  /\ readings' = <<>>

InsertFails == Len(readings) = Len(Order) /\ readings' = <<>> /\ UNCHANGED snapshots

InventoryNext == ReadLogger \/ LoggerFails \/ StoreSnapshot \/ InsertFails

InventorySpec == InventoryInit /\ [][InventoryNext]_inventoryVars

-----------------------------------------------------------------------------
(* internal/inventory/history.go and snapshot.go: the two views *)

\* NormalizeFieldValue: a nameplate of 0 is one of loggers whose units sleep.
Real(f, v) == IF v = 0 /\ f # "controlMode" THEN NoReading ELSE v

\* ListPlantInventorySnapshots: the newest rows, here oldest first.
Listed(limit) == SubSeq(snapshots, Len(snapshots) - limit + 1, Len(snapshots))
List(limit) == IF Len(snapshots) <= limit THEN snapshots ELSE Listed(limit)

RealValues(f, list) == [i \in DOMAIN list |-> Real(f, list[i].values[f])]

\* Mutant of CoalesceLatest: the newest snapshot as it is.
CoalesceLatestAsIs(f, list) == Real(f, list[Len(list)].values[f])

CoalesceLatest(f, list) == LastReported(RealValues(f, list))

Differs(f, a, b) ==
  IF f = "controlMode" THEN a # b ELSE a - b \notin -Tolerance .. Tolerance

\* DiffHistory: the real values that differ from the real value before them.
DiffHistory(f, list) ==
  LET values == RealValues(f, list)
      before(i) == {j \in Reported(values) : j < i}
  IN  {i \in Reported(values) :
         before(i) # {} /\ Differs(f, values[Max(before(i))], values[i])}

-----------------------------------------------------------------------------
(* The passport and the history of its changes agree, whatever nights and  *)
(* failed polls lie between the readings: the newest change leads to the   *)
(* passport but for drifts too small to be a change, and a passport with   *)
(* no change was always within drift of what it is.                        *)
HistoryEndsAtPassport ==
  \A f \in Fields :
    LET list == List(ListLimit)
        values == RealValues(f, list)
        changes == DiffHistory(f, list)
        origin == values[IF changes # {} THEN Max(changes) ELSE Min(Reported(values))]
    IN  Reported(values) # {} =>
          /\ CoalesceLatest(f, list) # NoReading
          /\ IF f = "controlMode" THEN origin = CoalesceLatest(f, list)
             ELSE origin - CoalesceLatest(f, list) \in
                    -Tolerance * Len(list) .. Tolerance * Len(list)

(* What is stored of the plant is what its devices answered: the samples   *)
(* of the polls, and the passport with the history of its changes.         *)
PlantRecorded == SampleIsItsReading /\ HistoryEndsAtPassport
============================================================================
