\* Two frames and the frames submitted again at the end of the stream, twice
\* over, use the four time stamps more than once.
SPECIFICATION FairSpec
CONSTANTS
  MAX_TIMESTAMP = 4
  Delay = 1
  Frames = 2
  MaxSeeks = 1
  MaxFaults = 1
INVARIANTS DecodesAlone ShownInOrder EosAfterFrames
PROPERTIES EosReaches ExitEnds
\* The client may stop feeding, and does not start again after it has stopped.
CHECK_DEADLOCK FALSE
