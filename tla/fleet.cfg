SPECIFICATION FairSpec
CONSTANTS
  Robots = {r1}
  Tasks = {1, 2}
  NoRobot = NoRobot
  NoTask = NoTask
  NoNode = NoNode
  HeartbeatTimeout = 0
  TaskTimeout = 0
  MaxRetries = 1
  Cols = 3
  Rows = 1
  Nodes <- NodeId
  FindPath <- RowPaths
  Goals <- SomeGoals
  NearestCharger <- Chargers
  Distance <- Straight
  StartBattery = {3, 4}
  LowThreshold = 2
  FullThreshold = 3
  MaxBattery = 4
  ChargeStep = 1
  LoadDwell = 1
  SocketCapacity = 2
  EventCapacity = 1
INVARIANTS
  TypeOK
  StoreIsBehind
  LoadedIsBusy
PROPERTIES
  LifecycleSpec
  DrainedReturns
  BusyEnds
