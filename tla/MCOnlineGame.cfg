SPECIFICATION Spec
CONSTANTS
  p1 = p1
  p2 = p2
  p3 = p3
  Players = {p1, p2}
  Kicked = Kicked
  Gone = Gone
  Running = Running
  Draw = Draw
  DyingTick <- NobodyDies
  DeathTick <- NobodyDies
  TimeLimit = 2
  Bots = {}
  LatenessThreshold = 10
  EarlinessThreshold = 10
  InactivityDelay = 1
  ChecksumValidation = TRUE
  RewardAvailable = TRUE
  ShortGame = 1
  MaxTicksPerMessage = 2
  TimePasses = FALSE
  MaxTicksInUpdate = 1
  MaxTicksPerRun = 1
  MaxLocalTick = 2
  Deserters = {}
  Duplicates = TRUE
  Capacity = 2
SYMMETRY Symmetry
INVARIANTS
  QueuesMatch
  ServerChecksumMatches
  NobodyKicked
PROPERTIES
  SealedLogImplemented
CHECK_DEADLOCK FALSE
