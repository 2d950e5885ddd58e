SPECIFICATION Spec
CONSTANTS
  Robots = {r1}
  NoRobot = NoRobot
  MaxConns = 2
  MaxUplink = 1
  MaxDispatches = 1
PROPERTIES
  DroppedOnlyOffLine
CHECK_DEADLOCK FALSE
