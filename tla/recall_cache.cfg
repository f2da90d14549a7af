CONSTANTS
  Presses = {"P"}
  S = S
  T = T
  Snapshots = {S, T}
  NCues = 2
  SnapOf <- ShowSnap
  Overriding = {2}
  ScopeId <- ShowIds
  AutoSaved = {S}
  MaxEdits = 2
SPECIFICATION FairSpec
INVARIANTS TypeOK NeverOlder
PROPERTIES Warms
