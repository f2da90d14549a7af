CONSTANTS
  A = A
  B = B
  Channels = {A, B}
  Gangs = {g}
  MemberSets <- Pair
  GangModes = {"Relative", "Absolute"}
  GangSections <- OneSection
  PanModes = {"Off", "Reversed"}
  Bound = {A}
  Handled <- TwoFadersOnePan
  Inf = 0
  Floor = 1
  Top = 3
  Rail = 1
  NoValue = NoValue
  LinkSets <- OneLink
  Start <- Levels
  MaxMoves = 2
  MaxToggles = 1
  touchy = touchy
  plain = plain
  knob = knob
  Controls = {touchy, plain, knob}
  Encoders = {knob}
  Touchy = {touchy}
  Echoing = {plain}
  Tables <- OneControl
  Target <- AllOnOne
  Parameters = {"fader"}
  Bottom = 0
  Full = 2
  MaxStep = 1
  Middle = 1
  Unknown = Unknown
  Races = {}
  MaxHands = 2
  MaxDeskMoves = 1
  MaxBreaks = 1
  k1 = k1
  k2 = k2
  Keys = {k1, k2}
  ButtonsOf <- OnTwoKeys
  MacroLists <- TwoLists
  MacroParams = {"mute"}
  MAX_MACRO_DEPTH = 2
  MaxRuns = 2
  MaxMacroHands = 1
  NewName = "P"
  Blank = ""
  Gone = "(deleted)"
  NoFaces = NoFaces
  MaxDeckMoves = 2
SPECIFICATION ControlsFairSpec
INVARIANTS ControlsTypeOK  SurfacesFollow PressesPlay
PROPERTIES  HandsOnly
CHECK_DEADLOCK FALSE
