CONSTANTS
  f1 = f1  i1 = i1  i2 = i2  d1 = d1  d2 = d2  v1 = v1  r1 = r1
  File = {f1}
  Book <- MCBook
  Inode = {i1, i2}
  Device = {d1, d2}
  Visitor = {}
  Reader = {}
  FileOf <- MCFileOf
  Chunk = 1
  MaxWord = 7
  MaxUsize = 3
  MaxSeek = 3
  Memory = 2
  MaxEntry = 1
  MaxSize = 2
  MaxEdition = 2
  MaxFaults = 2
  Build = {TRUE, FALSE}
  None = None
SPECIFICATION FairSpec
INVARIANTS WholeCopy
PROPERTIES FetchSpec DownloadFinishes
CHECK_DEADLOCK FALSE
