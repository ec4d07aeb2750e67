CONSTANTS
  c1 = c1
  c2 = c2
  c3 = c3
  Component = {c1}
  Priorities <- EqualOnly
  nPorts = 2
  nBufferCountActual = 2
  MAX_RESOURCE_VIDEO = 1
  MAX_QUEUE_ELEMENTS = 2
  Commands <- Population
  SerialClient = TRUE
  InitFails = FALSE
  MaxTokens = 1
SPECIFICATION FairSpec
CHECK_DEADLOCK FALSE
INVARIANT TokensFresh
INVARIANT PopulatedMeansAll
PROPERTY CommandsConcludeOrHang
