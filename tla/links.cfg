CONSTANTS
  CountsWait = 2
  IdleThreshold = 3
  PingInterval = 2
  MaxUnansweredPings = 2
  Plateau = 1
  Abandon = 5
  Never = Never
  MaxTraffic = 1
  MaxOutages = 2
  PadParams = 2
  EarlyShapes = {0, 1}
  QueryTimeout = 2
  QueryRetries = 1
  HeartbeatInterval = 2
  MissesStale = 2
  MissesLost = 3
  NoQuery = NoQuery
  MaxPushes = 1
  MaxPadTraffic = 1
  MaxPadOutages = 2
  CueIds = {"a", "b", "c"}
  CueNumbers = {1, 2, 3}
  NoCue = NoCue
  StartLists <- TwoCues
  ShowLists <- OtherShows
  MaxPresses = 3
  MaxListEdits = 1
  Categories = {"eq", "aux"}
  AuxSends = {"aux"}
  FadeTicks = 2
  Top = 2
  Scenes <- ThreeScenes
  CueCount = 2
  Touchable <- HandsOn
  NoReport = NoReport
  MaxTouches = 1
SPECIFICATION LinksSpec
INVARIANTS LinksTypeOK LinksHonest SweepIsComplete AllLand
PROPERTIES LinksRecover GoFollows PlaysAsWritten
CHECK_DEADLOCK FALSE
