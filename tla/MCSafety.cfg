SPECIFICATION MCSpec
CONSTANTS
  Clients <- MCClients
  None = None
  NUM_OF_WIN_BUF = 3
  Layers = {1, 2}
  Places = {"full", "part"}
  Nowhere = "nowhere"
  Lists <- MCLists
  c1 = c1
  c2 = c2
  Comp = {c1, c2}
  Plugin = {p1, p2}
  Wanted <- MCWanted
  Nobody = Nobody
  MaxCoreFaults = 1
INVARIANTS
  SensorTold
  ReportedStored
  OkMeansDone
  FlagTellsStream
  FrameShown
  NoTearing
  ComponentsAccounted
