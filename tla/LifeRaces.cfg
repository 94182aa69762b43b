SPECIFICATION Spec
CONSTANTS
  Ops = {op1, op2}
  Worker = Worker
  Monitor = Monitor
  NoOne = NoOne
  Configs <- Races
  MaxRetry = 1
  MaxStarts = 2
SYMMETRY Symmetry
INVARIANTS
  
  ExitIsForCurrentProcess
  NoLostWaiter
  OneRestartGoroutine
PROPERTIES
  NoStartDuringRemoval
CHECK_DEADLOCK FALSE
