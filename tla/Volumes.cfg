SPECIFICATION Spec
CONSTANTS
  Procs = {p1, p2}
  Names = {n1}
  Drivers = {local, plugin}
  Local = local
  NoDriver = NoDriver
  Containers = {c1, c2}
  Requests = {"createC", "fromC", "volCreate", "volRm", "prune"}
  Faults = {"comm", "driver", "db", "mount", "crash"}
SYMMETRY Symmetry
INVARIANTS
  RefsCoverMounts
  MountedExists
  
