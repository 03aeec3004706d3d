SPECIFICATION Spec
CONSTANTS
  NULL = NULL
  WILD = WILD
  Int8Max = 127
  idle = idle
  low = low
  mate = mate
  high = high
  Tasks = {idle, low, mate, high}
  Prios <- MCPrios
  QSize <- MCQSize
  TaskPrio <- MCTaskPrio
  MayActivate <- MCMayActivate
  MayChain <- MCMayChain
  MayTerminate <- MCMayTerminate
  MayShutdown = {}
  MainActivates = {}
  IsrTasks = {low, high}
  EarlyInterrupts = FALSE
  NullWrites = {"ignored"}
  ActLimit = 1
INVARIANT InterruptsRestored
