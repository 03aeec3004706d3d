SPECIFICATION Spec
CONSTANTS
  NULL = NULL
  Queues <- MCQueues
  Base <- MCBase
  Size <- MCSize
  Needs <- MCNeeds
  Memory <- MCMemory
  MainSP <- MCMainSP
  HandlerWords = 8
  Bytes = 128
PROPERTY KeepsContexts
