CONSTANTS
  i1 = i1
  i2 = i2
  o1 = o1
  NULL = NULL
  InBuffers <- MCIn2
  OutBuffers <- MCOut1
  MAX_QUEUE_ELEMENTS = 3
  Commands <- MCFlushAll
  SerialClient = TRUE
  Overflow = FALSE
SPECIFICATION Spec
CHECK_DEADLOCK FALSE
INVARIANT EachBufferInOnePlace
INVARIANT EveryHeaderHasToken
PROPERTY FlushReturnsAll
PROPERTY IdleReturnsAll
