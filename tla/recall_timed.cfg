CONSTANTS
  Recalls = {"A", "B", "C"}
  Kind <- KindTimed
  Addr = {"f", "m"}
  Value <- Values
  None = None
  NoOne = NoOne
  Init0 = "i"
  Mid = "mid"
  Hand = "hand"
  Full = {}
  Own <- ThreeCues
  Row <- NoRows
  Continuous = {"f"}
  Palette = {}
  Group <- EachItsOwn
  Ticks = 2
  InOrder = TRUE
  TasksStopFirst = TRUE
  MaxMoves = 0
  MaxDrops = 0
SPECIFICATION FairSpec
INVARIANTS SupersededKept
PROPERTIES PlaysInOrder
