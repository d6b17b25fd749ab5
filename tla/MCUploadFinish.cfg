CONSTANTS
  Request <- MCRequest
  UploadOf <- MCUploadOf
  IndexOf <- MCIndexOf
  SizeOf <- MCSizeOf
  Buffer = 2
  After <- MCAfter
  NameOf <- MCNameOf
  TargetOf <- MCTargetOf
  TotalOf <- MCTotalOf
  None = None  Empty = Empty  Hole = Hole  Failed = Failed
  Chunks <- OneFile
  Total = 3
  Client = "parallel"
  Faults = FALSE
SPECIFICATION FairSpec
CHECK_DEADLOCK FALSE
INVARIANTS LastCountFinds
PROPERTIES UploadCompletes
