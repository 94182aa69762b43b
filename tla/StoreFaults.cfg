SPECIFICATION Spec
CONSTANTS
  Procs = {p1, p2}
  NoProc = NoProc
  Chains <- Stack
  Mounts = {m1}
  MaxDepth = 2
  MaxData = 3
  Faults = {"create", "txn", "apply", "commit", "init", "save", "rmdata", "rmmeta", "crash"}
SYMMETRY Symmetry
INVARIANTS
  CountsExact
PROPERTIES
  ImplementsPromise
