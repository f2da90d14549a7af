CONSTANTS
  p = p
  b = b
  Phones = {p}
  Browsers = {b}
  LevelValues = {0, 1}
  DeskChanges <- MovesAtDesk
  UserChanges <- FaderMoves
  StartSend <- AllDown
  NoSend = NoSend
  NoChange = NoChange
  MaxMoves = 2
  MaxTrouble = 1
SPECIFICATION MonFairSpec
INVARIANTS MonTypeOK NothingForgotten
PROPERTIES PhonesPutRight
CHECK_DEADLOCK FALSE
