SPECIFICATION Spec
CONSTANTS
  player = player
  recorder = recorder
  server = server
  Threads <- MCThreads
  Player = player
  Recorder = recorder
  NoThread = NoThread
  Environments <- ChangingOnly
INVARIANT AcquisitionOrder
\* The thread that waits for itself is what this instance shows.
CHECK_DEADLOCK FALSE
