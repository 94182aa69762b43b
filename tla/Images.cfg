SPECIFICATION Spec
CONSTANTS
  a = a
  b = b
  x = x
  t = t
  d = d
  Procs = {p1, p2}
  Images = {a, b}
  NoImage = NoImage
  Base <- MCBase
  Layers = {1, 2}
  LayerOf <- OwnLayer
  Stack <- TwoStack
  Refs = {t, d}
  Digests = {d}
  Repo <- OneRepo
  Named = {{t}, {}}
  MaxUnsaved = 1
  Containers = {c1}
  Requests = {"pull", "commit", "rmi", "prune", "container"}
  Faults = {"save", "crash"}
SYMMETRY Symmetry
INVARIANTS
  LayerRefsExact
  InUseLayersPresent
  RestoreSucceeds
  DependentChildSeen
  RefsIndexed
