SPECIFICATION Spec
CONSTANTS
  p1 = p1
  p2 = p2
  p3 = p3
  Players = {p1, p2, p3}
  Kicked = Kicked
  Gone = Gone
  Running = Running
  Draw = Draw
  DyingTick <- P1Burns
  DeathTick <- P1Dies
  TimeLimit = 2
  Bots = {}
  LatenessThreshold = 2
  EarlinessThreshold = 2
  InactivityDelay = 1
  ChecksumValidation = TRUE
  RewardAvailable = TRUE
  ShortGame = 1
  MaxTicksPerMessage = 2
  TimePasses = TRUE
  MaxTick = 2
  Updates <- BoundedUpdates
INVARIANTS
  TicksOrdered
  ChecksumsAligned
  ActionsMatchContest
  KarmaIsDeserved
