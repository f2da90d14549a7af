CONSTANTS
  Recalls = {"A", "B", "U"}
  Kind <- KindUndo
  Addr = {"f", "m"}
  Value <- Values
  None = None
  NoOne = NoOne
  Init0 = "i"
  Mid = "mid"
  Hand = "hand"
  Full = {}
  Own <- TwoCues
  Row <- NoRows
  Continuous = {"f"}
  Palette = {}
  Group <- EachItsOwn
  Ticks = 2
  InOrder = FALSE
  TasksStopFirst = FALSE
  MaxMoves = 0
  MaxDrops = 0
SPECIFICATION FairSpec
INVARIANTS UndoExact
PROPERTIES SupersededFadesStop
