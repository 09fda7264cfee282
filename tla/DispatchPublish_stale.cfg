SPECIFICATION Spec
CONSTANTS
  Desks = {o1, o2}
  Loop = Loop
  Models = {"a"}
  Default = "default"
  Inputs = {"i", "j"}
  MaxVersions = 1
  MaxChanges = 0
  MaxFaults = 0
PROPERTIES
  NeverOlderVersion
