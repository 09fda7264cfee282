SPECIFICATION Spec
CONSTANTS
  BatchMaxRecords = 2
  OfflineAfter = 3
  BacklogAbove = 9
  EventBuffer = 1
  MaintainChunk = 1
  GuardBudget = 2
  MaxRows = 1
  MaxEvents = 0
  MaxPasses = 0
  MaxHorizon = 0
  MaxFaults = 1
INVARIANTS
  StoredOnce
