SPECIFICATION FairSpec
CONSTANTS
  Width = 5
  Height = 5
  PlayerCount = 2
  StepsPerCell = 2
  fences <- NoFences
  BombDelay = 4
  FlameWarmUp = 1
  FlameCoolDown = 3
  FlameDuration = 4
  BurnDuration = 2
  DieDuration = 1
  CrateBurnDuration = 2
  InvincibleDuration = 3
  InvisibleDuration = 2
  ReductionDelay = 12
  FallingBlockDuration = 2
  GameDuration = 0
  QueueSize = 1
  MaxCapacity = 2
  MaxStrength = 2
  Crates <- AllCrates
  Abilities <- Roles
  Kickable = {1}
  StartDelay = 0
  FogOfWar = FALSE
  Excluded <- Nowhere
  RollInDuration = 1
  RollInDelay = 0
  FogBlowDuration = 1
  FogRestoreDuration = 1
  FogHideDuration = 1
  FullOpacity = 255
INVARIANTS
  RegistryAgrees
  ExplosionsCommute
PROPERTIES
  ShieldsProtect
  SurvivalImplemented
  ContestEnds
CHECK_DEADLOCK FALSE
