SPECIFICATION Spec
CONSTANTS
  player = player
  recorder = recorder
  server = server
  Threads <- MCThreads
  Player = player
  Recorder = recorder
  NoThread = NoThread
  Environments <- PlainOrChanging
INVARIANTS NoDeadlock DevicesOfUsers
           MuteIsHeard EchoReferenceInUse
\* An echo canceller can make a thread wait for itself.
CHECK_DEADLOCK FALSE
