CONSTANTS
  Request <- MCRequest
  UploadOf <- MCUploadOf
  IndexOf <- MCIndexOf
  SizeOf <- MCSizeOf
  Buffer = 2
  After <- MCAfter
  NameOf <- MCNameOf
  TargetOf <- MCTargetOf
  TotalOf <- MCTotalOf
  None = None  Empty = Empty  Hole = Hole  Failed = Failed
  Chunks <- OneFile
  Total = 3
  Client = "sequential"
  Faults = FALSE
SPECIFICATION Spec
CHECK_DEADLOCK FALSE
INVARIANT SavedFileIsWhole
