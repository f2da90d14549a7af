CONSTANTS
  Recalls = {"A", "B", "C"}
  Kind <- KindPalette
  Addr = {"f", "eq"}
  Value <- Values
  None = None
  NoOne = NoOne
  Init0 = "i"
  Mid = "mid"
  Hand = "hand"
  Full = {"A"}
  Own <- OwnPalette
  Row <- NoRows
  Continuous = {"f"}
  Palette = {"eq"}
  Group <- EachItsOwn
  Ticks = 2
  InOrder = FALSE
  TasksStopFirst = TRUE
  MaxMoves = 0
  MaxDrops = 0
SPECIFICATION FairSpec
INVARIANTS GateExclusion InFlightTruth
PROPERTIES Completes SkipIsSafe
