SPECIFICATION Spec
CONSTANTS
  NULL = NULL
  WILD = WILD
  Int8Max = 127
  idle = idle
  low = low
  mate = mate
  top = 1
  Tasks = {idle, low, mate}
  Prios <- MCPrios
  QSize <- MCQSize
  TaskPrio <- MCTaskPrio
  MayActivate <- MCMayActivate
  MayChain <- MCMayChain
  MayTerminate <- MCMayTerminate
  MayShutdown = {}
  MainActivates = {}
  IsrTasks = {low}
  EarlyInterrupts = FALSE
  NullWrites = {"ignored"}
  ActLimit = 2
INVARIANTS
  ReadyBitCoversQueue
