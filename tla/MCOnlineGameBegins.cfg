SPECIFICATION FairSpec
CONSTANTS
  p1 = p1
  p2 = p2
  p3 = p3
  Players = {p1, p2}
  Kicked = Kicked
  Gone = Gone
  Running = Running
  Draw = Draw
  DyingTick <- NobodyDies
  DeathTick <- NobodyDies
  TimeLimit = 1
  Bots = {}
  LatenessThreshold = 10
  EarlinessThreshold = 10
  InactivityDelay = 1
  ChecksumValidation = TRUE
  RewardAvailable = TRUE
  ShortGame = 1
  MaxTicksPerMessage = 2
  TimePasses = TRUE
  MaxTicksInUpdate = 1
  MaxTicksPerRun = 0
  MaxLocalTick = 1
  Deserters = {p1}
  Duplicates = FALSE
  Capacity = 1
PROPERTIES
  GameBegins
CHECK_DEADLOCK FALSE
