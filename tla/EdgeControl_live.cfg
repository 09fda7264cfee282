SPECIFICATION LiveSpec
CONSTANTS
  A = A
  B = B
  G = G
  Plans = {A, B, G}
  Gated = {G}
  Modes = {"fallback_safe"}
  Validity = 2
  Lead = 0
  TTL = 1
  Dedup = 2
  EventCap = 1
  SaveMayFail = FALSE
  MaxPubs = 3
  MaxOrders = 1
  MaxRestarts = 1
  MaxClock = 2
PROPERTIES
  OverrideEnds
  NewestFollowed
