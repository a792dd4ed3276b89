SPECIFICATION Spec
CONSTANTS
  Procs = {p1}
  NoOne = NoOne
  NoLedger = NoLedger
  Maps = {1}
  Contents = {1, 2}
  Sizes = {1}
  MaxSize = 1
  ShotBytes = 1
  ShotCount = 1
  MapBytes = 2
  MaxFaults = 0
PROPERTIES DiscardsOnlyDuplicates
CHECK_DEADLOCK FALSE
