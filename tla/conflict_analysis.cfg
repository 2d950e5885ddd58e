SPECIFICATION FairSpec
CONSTANTS
  Robots = {1, 2, 3, 4}
  Nodes = {n1, n2}
  NoNode = NoNode
  Priorities = {0, 1}
  Low = 0
  MaxCycles = 2
INVARIANTS
  TypeOK
  CyclesAreReal
  NoJamMissed
  EveryJamGivesWay
PROPERTIES
  LeastUrgentGivesWay
  JamsEnd
