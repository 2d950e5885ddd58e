SPECIFICATION Spec
CONSTANTS
  Robots = {r1}
  Tasks = {1, 2}
  NoRobot = NoRobot
  NoTask = NoTask
  NoNode = NoNode
  HeartbeatTimeout = 0
  TaskTimeout = 0
  MaxRetries = 1
  Cols = 2
  Rows = 2
  Nodes <- NodeId
  FindPath <- AStarPaths
  Goals <- SomeGoals
  NearestCharger <- Chargers
  Distance <- Straight
  StartBattery = {4}
  LowThreshold = 2
  FullThreshold = 3
  MaxBattery = 4
  ChargeStep = 1
  LoadDwell = 1
  SocketCapacity = 2
  EventCapacity = 1
INVARIANTS
  ChargingTakesNoTask
