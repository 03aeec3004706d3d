SPECIFICATION FairSpec
CONSTANTS
  NULL = NULL
  WILD = WILD
  Int8Max = 127
  idle = idle
  low = low
  mate = mate
  high = high
  Tasks = {idle, low, mate, high}
  Prios <- MCPrios
  QSize <- MCQSize
  TaskPrio <- MCTaskPrio
  MayActivate <- MCIdleActivates
  MayChain <- MCMayChain
  MayTerminate <- MCMayTerminate
  MayShutdown = {}
  MainActivates = {}
  IsrTasks = {low}
  EarlyInterrupts = FALSE
  NullWrites = {"ignored"}
  ActLimit = 1
INVARIANTS
  TypeOK
  ProperlyNested
  NoMissedPreemption
  RunningIsExecuting
  MaskDiscipline
  StartOSKeepsControl
  ScheduleFindsQueue
PROPERTIES
  SwitchOnlyUnlocked
  ImplementsScheduler
  ActivationsServed
