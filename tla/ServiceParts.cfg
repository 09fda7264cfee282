SPECIFICATION PartsSpec
CONSTANTS
  Nil = Nil
  LoopEvery = 15
  PollEvery = 15
  Steps = {15}
  StartAt = 1385
  MaxNow = 2900
  Roles <- MCRoles
  Answers <- MCAnswers
  Manifests <- MCManifests
  Site <- MCSite
  PlanKw <- MCPlanKw
  StaleAfter = 0
  FaultAfter = 1
  u1 = u1
  u2 = u2
  m1 = m1
  m2 = m2
  Users = {u1, u2}
  Tokens = {t1}
  Visitors = {a}
  Managers = {m1}
  ActsAs <- MCActsAs
  CacheTTL = 2
  SessionTTL = 2
  MaxVersion = 1
  Askers = {u1}
  Requests = {"q1", "q2"}
  AskerOf <- MCAskerOf
  Savers = {"p1"}
  Wishes <- MCWishes
  MaxToolRounds = 1
  LastDate = 1
  MaxTurns = 2
  MaxSaves = 1
  MaxCrashes = 1
  Deltas <- MCDeltas
  MaxTicks = 4
  DropTolKwh = 2
  PowerKwh = 3
  SlackKwh = 1
  CandidateFloorKwh = 5
  SpikeWindow = 3
  CoarseUpdate = 2
  SettleDelay = 1
  Scale = 12
  MaxImports = 2
  MaxFailures = 1
  Counters = {c1}
  ListFor <- MCListFor
  AlertWindow = 4
  MinAge = 2
  QuietFor = 3
  MaxClock = 5
  MaxEpisodes = 2
  MaxFaults = 1
  LastDay = 3
  FinalizeDays = 2
  LookaheadDays = 0
  MaxJobs = 2
  AskedDays = {0}
  Workers = {"today", "nightly", "request", "heal"}
  LateDays = {0}
  MaxTroubles = 1
INVARIANTS
  EdgeNeverLapses
  CommandJustified
  
  AssistantKeepsBooks
  OffsetsRepair
  MailsSpacedInOrder
  PastDaysSettle
PROPERTIES
  SpansCoverChanges
CHECK_DEADLOCK FALSE
