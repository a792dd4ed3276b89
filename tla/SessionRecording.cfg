SPECIFICATION Spec
CONSTANTS
  Procs = {p1, p2}
  NoOne = NoOne
  NoLedger = NoLedger
  Maps = {1, 2}
  Contents = {1, 2}
  Sizes = {1, 2}
  MaxSize = 2
  ShotBytes = 1
  ShotCount = 1
  MapBytes = 2
  MaxFaults = 1
INVARIANTS UncopiedIsKept EndLeavesNoDanglingPointer RoomLostToFaultsOnly
PROPERTIES ImplementsQuota
CHECK_DEADLOCK FALSE
