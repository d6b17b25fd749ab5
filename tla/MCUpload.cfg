CONSTANTS
  Request <- MCRequest
  UploadOf <- MCUploadOf
  IndexOf <- MCIndexOf
  SizeOf <- MCSizeOf
  Buffer = 2
  After <- MCAfter
  NameOf <- MCNameOf
  TargetOf <- MCTargetOf
  TotalOf <- MCTotalOf
  None = None  Empty = Empty  Hole = Hole  Failed = Failed
  Chunks <- TwoFiles
  Total = 2
  Client = "sequential"
  Faults = TRUE
SPECIFICATION Spec
CHECK_DEADLOCK FALSE
INVARIANTS TypeOK QuietAssemblyWhole
