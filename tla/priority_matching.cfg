SPECIFICATION FairSpec
CONSTANTS
  Tasks = {1, 2}
  Aging = 2
  MaxRetries = 1
  Candidates = 2
  Priorities = {0, 1, 3}
  Delays = {0, 1}
INVARIANTS
  TypeOK
PROPERTIES
  AgedNotOvertaken
  NoStarvation
