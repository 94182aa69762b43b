SPECIFICATION FairSpec
CONSTANTS
  Pulls = {p1, p2}
  Workloads <- Small
  Limits = {0, 1}
  Faults = {"cancel", "fetch"}
  MaxAttempts = 2
INVARIANTS
  SlotsCounted
PROPERTIES
  PullsEnd
  TransfersReleased
CHECK_DEADLOCK FALSE
