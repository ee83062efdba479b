SPECIFICATION BotSpec
CONSTANTS
  Width = 7
  Height = 5
  PlayerCount = 2
  StepsPerCell = 2
  fences <- NoFences
  BombDelay = 19
  FlameWarmUp = 1
  FlameCoolDown = 3
  FlameDuration = 5
  BurnDuration = 2
  DieDuration = 1
  CrateBurnDuration = 2
  InvincibleDuration = 3
  InvisibleDuration = 2
  ReductionDelay = 0
  FallingBlockDuration = 3
  GameDuration = 160
  QueueSize = 1
  MaxCapacity = 2
  MaxStrength = 2
  Crates <- SomeCrates
  Abilities <- Idlers
  Kickable = {}
  StartDelay = 2
  FogOfWar = TRUE
  Excluded <- Nowhere
  RollInDuration = 2
  RollInDelay = 0
  FogBlowDuration = 1
  FogRestoreDuration = 2
  FogHideDuration = 1
  FullOpacity = 255
  bot = 0
  NearExplosion = 6
  MaxDistanceToSafety = 4
INVARIANTS
  FogEdgesAgree
PROPERTIES
  WayOut
CHECK_DEADLOCK FALSE
