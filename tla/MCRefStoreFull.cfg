SPECIFICATION FairSpec
CONSTANTS
  p1 = p1
  p2 = p2
  NoProc = NoProc
  Procs = {p1, p2}
  Nodes <- OneNode
  LastBelow <- OneNodeLast
  MaxIds = 4
  MaxRefs = 4
  MaxSaved = 2
  LowWater = 2
  MaxClock = 8
  MaxFaults = 1
INVARIANTS LatestReadable InventoryComplete LeftoversBounded
PROPERTIES EvictsOldest EveryCallEnds LockIsFreed
CHECK_DEADLOCK FALSE
