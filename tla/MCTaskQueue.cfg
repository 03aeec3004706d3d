SPECIFICATION Spec
CONSTANTS
  NULL = NULL
  Int8Max = 3
  Task = {t1, t2, t3}
  QueueSizes <- MCQueueSizes
INVARIANTS
  TypeOK
  RingConsistent
PROPERTY ImplementsFifo
