SPECIFICATION FairSpec
CONSTANTS
  Procs = {p1, p2, p3}
  Names = {a, b}
  Ctrs = {c1, c2, c3}
  NoCtr = NoCtr
INVARIANTS
  MutualExclusion
  UnlockFindsEntry
  NoLeakedEntry
PROPERTIES
  WaitersAreServed
  AbsSpec
