CONSTANTS
  A = A
  B = B
  S = S
  T = T
  U = U
  P = P
  Q = Q
  x = x
  y = y
  Recalls = {A, B}
  Kind <- AThenB
  SnapOf <- ToTU
  HasRow = {B}
  Snapshots = {S, T, U}
  Palettes = {P, Q}
  Addr = {x}
  Scope <- Scopes
  Links <- SlotOfX
  Memory = {x}
  AutoUpdate = TRUE
  Hands = {h1, h2}
  Desk = Desk
  Before = Before
  None = None
  First = S
  MaxInputs = 2
SPECIFICATION FairSpec
INVARIANTS TypeOK NoneLost
PROPERTIES FoldsOwn SavesOwn Settles
CHECK_DEADLOCK FALSE
