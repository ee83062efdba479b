SPECIFICATION Spec
CONSTANTS
  p1 = p1
  p2 = p2
  p3 = p3
  Players = {p1, p2}
  Kicked = Kicked
  Gone = Gone
  Running = Running
  Draw = Draw
  DyingTick <- NobodyDies
  DeathTick <- NobodyDies
  TimeLimit = 9
  Bots = {}
  LatenessThreshold = 2
  EarlinessThreshold = 2
  InactivityDelay = 1
  ChecksumValidation = TRUE
  RewardAvailable = TRUE
  ShortGame = 1
  MaxTicksPerMessage = 2
  TimePasses = TRUE
  MaxTicksInUpdate = 2
  MaxTicksPerRun = 1
  MaxLocalTick = 2
  Deserters = {p1, p2}
  Duplicates = TRUE
  Capacity = 1
SYMMETRY Symmetry
INVARIANTS
  ClientsFollow
CHECK_DEADLOCK FALSE
