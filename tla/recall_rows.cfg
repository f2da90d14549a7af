CONSTANTS
  Recalls = {"A", "B", "V"}
  Kind <- KindRows
  Addr = {"f"}
  Value <- Values
  None = None
  NoOne = NoOne
  Init0 = "i"
  Mid = "mid"
  Hand = "hand"
  Full = {}
  Own <- OwnRows
  Row <- RowRows
  Continuous = {"f"}
  Palette = {}
  Group <- EachItsOwn
  Ticks = 1
  InOrder = FALSE
  TasksStopFirst = FALSE
  MaxMoves = 1
  MaxDrops = 1
SPECIFICATION FairSpec
INVARIANTS TypeOK LatestWins
PROPERTIES TakenStaysTaken
