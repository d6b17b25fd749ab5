CONSTANTS
  p1 = p1  p2 = p2  w1 = w1  w2 = w2
  author = author  series = series
  Blank = Blank  None = None
  Path = {p1, p2}
  Name <- MCName
  Clean <- MCClean
  Tag <- MCTag
  Worker = {w1, w2}
  Batch <- MCBatch
  User = {}
  Position = {near}
  Faults = TRUE
  MaxPoints = 1
SPECIFICATION Spec
SYMMETRY Symmetry
INVARIANTS TypeOK ReferentialIntegrity SavedMeansShelved
PROPERTIES ShelfSpec
