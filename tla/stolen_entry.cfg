CONSTANTS
  Recalls = {"A", "B"}
  Kind <- TimedTwice
  Addr = {"f"}
  Value <- Values
  None = None
  NoOne = NoOne
  Init0 = "i"
  Mid = "mid"
  Hand = "hand"
  Full = {}
  Own <- SameFader
  Row <- NoRows
  Continuous = {"f"}
  Palette = {}
  Group <- EachItsOwn
  Ticks = 2
  InOrder = TRUE
  TasksStopFirst = FALSE
  MaxMoves = 0
  MaxDrops = 0
SPECIFICATION Spec
PROPERTIES EntryNotStolen
