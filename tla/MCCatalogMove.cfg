CONSTANTS
  p1 = p1  p2 = p2  w1 = w1  w2 = w2
  author = author  series = series
  Blank = Blank  None = None
  Path = {p1, p2}
  Name <- MCName
  Clean <- MCClean
  Tag <- SerialTag
  Worker = {w1}
  Batch <- SerialBatch
  User = {u1}
  Position = {near}
  Faults = FALSE
  MaxPoints = 1
SPECIFICATION Spec
INVARIANT FileInOneBook
CHECK_DEADLOCK FALSE
