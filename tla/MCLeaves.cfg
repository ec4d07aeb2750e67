\* numEvents is the size every driver uses; a list of 5 has four cells, and 0
\* is the count that FlushPort passes for a port that is not tunnelled.  The
\* pictures use every strip and loop, one to three rows of tiles and a rest.
CONSTANTS
  numEvents = 4
  e1 = e1
  e2 = e2
  Nothing = Nothing
  Events <- MCEvents
  MAX_QUEUE_ELEMENTS = 5
  Data = {d1, d2}
  NULL = NULL
  ElemNums = {0}
  Garbage = {0, 1, 2}
  MaxOpenFaults = 1
  Widths = {8, 64, 72, 200, 854, 1032, 1988}
  Heights = {4, 30, 32, 36, 64, 68, 90, 96}
  MAX_TIMESTAMP = 3
  Frames = 2
  Ahead = 2
  MaxEncodeFaults = 1
  Codecs = {"h264", "mpeg4", "h263"}
  Sizes <- MCSizes
  Crops <- MCCrops
  Bitrates = {1}
  Priorities = {1}
  Counts = {1, 6}
  Framerates = {30}
  PFrames = {3}
  MaxCalls = 2
SPECIFICATION MCSpec
INVARIANTS DriversFollowUsers PictureConverted EncodesAlone StreamWhole
PROPERTIES ImplementsFifo QueueIsFifo  ParametersHonoured
