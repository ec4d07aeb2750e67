CONSTANTS
  c1 = c1
  c2 = c2
  c3 = c3
  Component = {c1, c2, c3}
  Priorities <- EqualOrRanked
  nPorts = 1
  nBufferCountActual = 1
  MAX_RESOURCE_VIDEO = 2
  MAX_QUEUE_ELEMENTS = 3
  Commands <- UpWaitOrInvalid
  SerialClient = TRUE
  InitFails = FALSE
  MaxTokens = 1
SPECIFICATION ResourceSpec
CHECK_DEADLOCK FALSE
INVARIANT NoWaiterForgotten
PROPERTY PreemptedByPriority
