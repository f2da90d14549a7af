CONSTANTS
  a = a
  b = b
  Files = {a, b}
  Parts = {"cues", "gangs"}
  Order <- CuesThenGangs
  Slots = {1}
  Stored <- AWholeBCorrupt
  OldCopies <- CopyOfB
  Untitled = new
  NoContent = NoContent
  Corrupt = Corrupt
  Keep = 1
  Overlaps = {}
  MaxEdits = 1
  MaxPresses = 2
  MaxFaults = 1
  MaxSessions = 2
SPECIFICATION ShowFairSpec
INVARIANTS ShowTypeOK FilesWhole SavedIsOnDisk
PROPERTIES LeaveKeeps WorkReachesDisk
CHECK_DEADLOCK FALSE
