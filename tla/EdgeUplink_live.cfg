SPECIFICATION LiveSpec
CONSTANTS
  BatchMaxRecords = 2
  OfflineAfter = 1
  BacklogAbove = 0
  EventBuffer = 1
  MaintainChunk = 1
  GuardBudget = 2
  MaxRows = 1
  MaxEvents = 2
  MaxPasses = 0
  MaxHorizon = 0
  MaxFaults = 2
PROPERTIES
  EventuallyDelivered
