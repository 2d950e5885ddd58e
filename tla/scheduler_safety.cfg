SPECIFICATION Spec
CONSTANTS
  Robots = {r1, r2}
  Tasks = {t1, t2}
  NoRobot = NoRobot
  NoTask = NoTask
  HeartbeatTimeout = 0
  TaskTimeout = 0
  MaxRetries = 1
  EventCapacity = 1
  DispatchCapacity = 1
  MaxCopies = 1
  Cooldown = 1
  EnableDeadlockResolution = TRUE
  Reports <- MovingReports
  BadGoals = {}
  RouteMayFail <- Pairs
SYMMETRY Symmetry
INVARIANTS
  TypeOK
  BoundRobotIsBusy
  HolderIsAssignee
  PendingTaskIsFree
  FailedAfterAllRetries
  NotesHold
PROPERTIES
  SentIsAssigned
  LifecycleSpec
  BoundWhenIdle
  OnlyLateTasksReopen
  NoComeback
