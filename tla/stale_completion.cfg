SPECIFICATION FairSpec
CONSTANTS
  Robots = {r1, r2}
  Tasks = {t1}
  NoRobot = NoRobot
  NoTask = NoTask
  HeartbeatTimeout = 0
  TaskTimeout = 0
  MaxRetries = 1
  EventCapacity = 1
  DispatchCapacity = 1
  MaxCopies = 1
  Cooldown = 1
  EnableDeadlockResolution = FALSE
  Reports <- MovingReports
  BadGoals = {}
  RouteMayFail = {}
PROPERTIES
  CompletedTaskFreesRobot
