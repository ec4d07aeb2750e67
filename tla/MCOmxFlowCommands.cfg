CONSTANTS
  i1 = i1
  i2 = i2
  o1 = o1
  NULL = NULL
  InBuffers <- MCIn1
  OutBuffers <- MCOut1
  MAX_QUEUE_ELEMENTS = 3
  Commands <- MCFlushAll
  SerialClient = TRUE
  Overflow = FALSE
SPECIFICATION FairSpec
CHECK_DEADLOCK FALSE
PROPERTY CommandEndsOrRace
