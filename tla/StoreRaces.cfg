SPECIFICATION Spec
CONSTANTS
  Procs = {p1, p2}
  NoProc = NoProc
  Chains <- Stack
  Mounts = {m1}
  MaxDepth = 2
  MaxData = 6
  Faults = {"apply", "commit"}
SYMMETRY Symmetry
INVARIANTS
  DataPresent
  SurvivesRestart
  NoOrphanData
