SPECIFICATION Spec
CONSTANTS
  BatchMaxRecords = 2
  OfflineAfter = 3
  BacklogAbove = 9
  EventBuffer = 1
  MaintainChunk = 1
  GuardBudget = 2
  MaxRows = 2
  MaxEvents = 0
  MaxPasses = 1
  MaxHorizon = 1
  MaxFaults = 1
INVARIANTS
  TypeOK
  BatchAppliedOnce
  
  MarkedDelivered
  NoUndeliveredLoss
PROPERTIES
  Promise
