SPECIFICATION DataSpec
CONSTANTS
  NoSample = NoSample
  Catalogue <- MCCatalogue
  Optional <- MCOptional
  Blanks = {{}, {"p"}}
  MaxPerRead = 2
  PollEvery = 1
  OptionalBackoff = 3
  RequestTimeout = 1
  MaxReconnect = 3
  LastColTick = 2
  MaxColFaults = 1
  NoReading = NoReading
  Loggers <- MCLoggers
  Readings <- MCReadings
  RemoteMode = 4
  Tolerance = 1
  ListLimit = 2
  MaxSnapshots = 3
  PollTicks = {1, 3, 4, 5, 8}
  BucketLen = 2
  DayLen = 8
  LiveWindow = 8
  EssPower = 4
  Jump = 20
  MaxMishaps = 1
  NoRate = NoRate
  FxTicks = 4
  RateHour = 2
  LastFxTick = 9
  FxCommon = 12
  MaxFxFaults = 1
  Market <- MCMarket
  Ebitda <- MCEbitda
  NoValue = NoValue
  LedgerHours = 2
  Fees = 2
  Discount = 1
  LedgerWear = 1
  CapacityKwh = 480
  BalanceSlack = 30
  NotYet = NotYet
  LastMonth = 2
  DayLength = 2
  DaysPerMonth = 2
  MonthsPerQuarter = 2
  MaxWindowMonths = 2
  DayRecords <- MCDayRecords
  PowerOn <- MCPowerOn
  MinDischarge = 1
  NoLevel = NoLevel
  OptHours = 3
  HourRecords <- MCHourRecords
  CapacityLevels = 3
  PowerLevels = 0
  LevelDraws = 3
  LevelGives = 2
  OptWear = 1
  FreeBelow = 1
  NoPlanYet = NoPlanYet
  PlanHours = 3
  TicksPerHour = 2
  Yesterday <- MCYesterday
  LoadRecords <- MCLoadRecords
  LastPlanTick = 5
  NoPlan = NoPlan
  PvTicks = 2
  RunTicks = {1}
  LastPvTick = 3
  MaxPassports = 2
  MaxRebuilds = 1
  MaxPvFaults = 1
  SheetHours = 2
  DamDay = 3
  DamRunAt = 1
  DamRetry = 1
  DamBackoff = 1
  DamAttempts = 2
  BackfillDays = 1
  LastDamTick = 4
  MaxDamFaults = 1
  SheetTables <- MCTables
  Workbook <- MCWorkbook
  NoForecast = NoForecast
  WxDay = 3
  WxOffset = 1
  WxPastDays = 1
  WxDaysAhead = 1
  WxAttempts = 2
  LastWxTick = 7
  MaxWxFaults = 1
  NoRow = NoRow
  ArcDays = 2
  HoursInDay = 2
  StepsPerHour = 2
  Uploads <- MCUploads
  PortalRanges <- MCRanges
  PortalHistory <- MCHistory
  LiveSince = {7}
  MaxArcFaults = 1
  NotKnown = NotKnown
  DeskHours = 3
  DeskDay = 2
  LastDeskHour = 2
  DeskDrafts <- MCDrafts
  SunAhead <- MCSun
  DeskPrices <- MCDeskPrices
  DeskFees = 1
  DeskDiscount = 1
  DeskWear = 1
  BatteryLow = 1
  BatteryHigh = 4
  DeskLevels = {0, 2, 4}
  ChargeLimit = 2
  DischargeLimit = 2
  DeskLimits <- MCDeskLimits
INVARIANTS
  ContinuedTablesRead
CHECK_DEADLOCK FALSE
