SPECIFICATION Spec
CONSTANTS
  NULL = NULL
  WILD = WILD
  Int8Max = 127
  idle = idle
  low = low
  mate = mate
  top = 1
  Tasks = {idle, low, mate}
  Prios <- MCPrios
  QSize <- MCQSize
  TaskPrio <- MCTaskPrio
  MayActivate <- MCMayActivate
  MayChain <- MCMayChain
  MayTerminate <- MCMayTerminate
  MayShutdown = {mate}
  MainActivates = {idle}
  IsrTasks = {low, mate}
  EarlyInterrupts = TRUE
  NullWrites = {"ignored", "fault"}
  ActLimit = 2
INVARIANTS
  ServedIsHead
  NoActCoversQueue
  ReadyBitJustified
  LostOnlyByDrain
PROPERTIES
  ShutdownIsFinal
