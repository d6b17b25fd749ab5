CONSTANTS
  s1 = s1  k1 = k1  admin = admin  reader = reader  other = other  d1 = d1  d2 = d2  it = it
  Server = {s1}
  Slot = {k1}
  Name = {admin, reader}
  Admin = admin
  None = None
  Day = 0
  Leeway = 0
  MaxTime = 1
  MaxTokens = 2
  MaxCrashes = 1
  Device = {d1}
  OwnerOf <- MCOwnerOf
  Item = {it}
  ItemOf <- MCItemOf
  Shelved = {it}
  MaxPlay = 2
  MaxLate = 1
SPECIFICATION FairListenSpec
INVARIANTS ListenTypeOK ConfirmedStays
PROPERTIES BookmarksSpec BackOnlyByStrays PositionArrives LoneStartListens
