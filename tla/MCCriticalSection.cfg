SPECIFICATION Spec
CONSTANTS
  NULL = NULL
  Int8Max = 127
  low = low
  high = high
  Tasks = {low, high}
  Levels <- MCLevels
  Prios <- MCPrios
  QSize <- MCQSize
  TaskPrio <- MCTaskPrio
  Activates <- MCActivates
  Serves <- MCServes
  Masking = TRUE
  ActLimit = 2
INVARIANTS
  TypeOK
  MutualExclusion
  NothingLost
  LockReleased
PROPERTIES
  ServicesAreWhole
