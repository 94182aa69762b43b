SPECIFICATION FairSpec
CONSTANTS
  N = 4
  Newlines = {3}
  MinCap = 1
  MaxCap = 2
  Threshold = 2
  BufSize = 2
  ReadSize = 2
  ChunkSize = 2
  MaxBytes = 1
  Modes = {"blocking", "ring"}
INVARIANTS
  OutputReachesLog
  
PROPERTIES
  ExitIsHandled
CHECK_DEADLOCK FALSE
