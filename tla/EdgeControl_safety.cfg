SPECIFICATION BoxSpec
CONSTANTS
  A = A
  B = B
  G = G
  Plans = {A, B, G}
  Gated = {G}
  Modes = {}
  Validity = 2
  Lead = 0
  TTL = 2
  Dedup = 2
  EventCap = 1
  SaveMayFail = TRUE
  MaxPubs = 3
  MaxOrders = 0
  MaxRestarts = 1
  MaxClock = 5
  Nil = Nil
  Devices <- MCDevices
  Scenes <- MCScenes
  Sound <- MCSound
  IssuedPlans <- MCIssued
  HealthSite <- MCSite
  HealthPlanKw = {101}
  Silent = 0
  Gone = 1
  FreshFor = 0
  ImportLimits <- MCImports
  Passport <- MCPassport
  Groups <- MCGroups
  Chunks <- MCChunks
  Every <- MCEvery
  Backoff = 2
  PollFailThreshold = 3
  Inverters <- MCInverters
  MaxTimeouts = 2
INVARIANTS
  NoOlderPlan
  GatedNeverFollowed
  ExpiryAnnounced
  HealthTellsTruth
  
SYMMETRY Symmetry
