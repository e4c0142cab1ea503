SPECIFICATION FairSpec
CONSTANTS
  Clients = {c1, c2}
  CycleIds = {2}
  Depth <- MCDepth
  Bodies = {b1, b2}
  KeepaliveTicks = 2
  MaxVersion = 3
  MaxConnects = 2
  NoFrame = NoFrame
  NoStore = NoStore
CHECK_DEADLOCK FALSE
INVARIANTS
  FramesAreTrue
  RegistryIsClean
PROPERTIES
  CatchesUp
