SPECIFICATION Spec
CONSTANTS
  p1 = p1
  p2 = p2
  NoProc = NoProc
  Procs = {p1, p2}
  Nodes <- TwoBranches
  LastBelow <- TwoBranchesLast
  MaxIds = 1
  MaxRefs = 8
  MaxSaved = 1
  LowWater = 1
  MaxClock = 8
  MaxFaults = 1
SYMMETRY Symmetry
INVARIANTS TypeOK AliasesBounded
PROPERTIES NeverRedefined DrillReplacesSubtree ImplementsNamespace
CHECK_DEADLOCK FALSE
