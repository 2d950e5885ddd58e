SPECIFICATION FairSpec
CONSTANTS
  Robots = {r1, r2}
  Tasks = {t1, t2}
  NoRobot = NoRobot
  NoTask = NoTask
  HeartbeatTimeout = 0
  TaskTimeout = 1
  MaxRetries = 1
  EventCapacity = 1
  DispatchCapacity = 1
  MaxCopies = 2
  Cooldown = 1
  EnableDeadlockResolution = FALSE
  Reports <- MovingReports
  BadGoals = {t2}
  RouteMayFail = {}
INVARIANTS
  NoTaskForgotten
PROPERTIES
  AssignmentEnds
