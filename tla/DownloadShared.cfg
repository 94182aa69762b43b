SPECIFICATION Spec
CONSTANTS
  Pulls = {p1, p2}
  Workloads <- Shared
  Limits = {1}
  Faults = {"cancel"}
  MaxAttempts = 1
SYMMETRY Symmetry
INVARIANTS
  OneTransferPerKey
  WatchedIsNotCancelled
  LayersPresent
CHECK_DEADLOCK FALSE
