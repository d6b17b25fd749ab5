CONSTANTS
  s1 = s1  k1 = k1  admin = admin  reader = reader  other = other  d1 = d1  d2 = d2  it = it
  Server = {s1}
  Slot = {k1}
  Name = {admin, reader, other}
  Admin = admin
  None = None
  Day = 0
  Leeway = 0
  MaxTime = 1
  MaxTokens = 2
  MaxCrashes = 1
  Device = {d1, d2}
  OwnerOf <- MCOwnerOf
  Item = {it}
  ItemOf <- MCItemOf
  Shelved = {it}
  MaxPlay = 1
  MaxLate = 0
SPECIFICATION ListenSpec
INVARIANTS SeesConfirmed OwnPositions
PROPERTIES BookmarksSpec
SYMMETRY Twins
CONSTRAINT LoneAdmin
