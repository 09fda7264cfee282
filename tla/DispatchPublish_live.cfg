SPECIFICATION LiveSpec
CONSTANTS
  Desks = {o1, o2}
  Loop = Loop
  Models = {"a"}
  Default = "default"
  Inputs = {"i", "j"}
  MaxVersions = 2
  MaxChanges = 1
  MaxFaults = 1
INVARIANTS
  BuiltOnPredecessor
  RunsPublished
PROPERTIES
  ConfirmedForEver
  NewestPublished
