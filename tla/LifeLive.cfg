SPECIFICATION FairSpec
CONSTANTS
  Ops = {op1}
  Worker = Worker
  Monitor = Monitor
  NoOne = NoOne
  Configs <- Alone
  MaxRetry = 1
  MaxStarts = 3
INVARIANTS
  PauseEventIsNext
  AutoRemoved
PROPERTIES
  StopMeansStopped
  RequestsReturn
  
CHECK_DEADLOCK FALSE
