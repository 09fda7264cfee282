SPECIFICATION LiveSpec
CONSTANTS
  d1 = d1
  d2 = d2
  l1 = l1
  l2 = l2
  Devices = {d1, d2}
  Lists = {l1, l2}
  ListOf <- MCListOf
  StaleAfter = 0
  RepeatInterval = 1
  NotifyRecovery = FALSE
  MaxPass = 0

  
PROPERTIES
  OutageReported
