SPECIFICATION DisplaySpec
CONSTANTS
  CellCount = 2
  Moving = {"bomb"}
  Fixed = {"static_wall", "fence"}
  Capacity <- PoolSizes
  PlayerCount = 2
  Foggy <- FogOf
  FullOpacity = 1
  Looks <- SomeLooks
  Places = {1}
  Walls <- SomeWalls
  Drags <- SomeDrags
INVARIANTS
  BombIsDropped
CHECK_DEADLOCK FALSE
