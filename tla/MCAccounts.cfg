CONSTANTS
  s1 = s1  s2 = s2  k1 = k1  k2 = k2
  admin = admin  reader = reader  other = other
  Server = {s1, s2}
  Slot = {k1, k2}
  Name = {admin, reader, other}
  Admin = admin
  None = None
  Day = 0
  Leeway = 0
  MaxTime = 1
  MaxTokens = 2
  MaxCrashes = 1
SPECIFICATION Spec
INVARIANTS TypeOK ServedHasAdmin TokensTellTheTruth Vouched
PROPERTIES DirectorySpec
SYMMETRY Symmetry
