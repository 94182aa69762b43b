SPECIFICATION FairSpec
CONSTANTS
  Clients = {p1, p2}
  Worker = Worker
  Main = Main
  NoOne = NoOne
  Base = Base
  Layers = {a, b}
  NrIDs = 3
  Configs <- Errors
INVARIANTS
  LiveDevices
  NoLostNumber

  
CHECK_DEADLOCK FALSE
