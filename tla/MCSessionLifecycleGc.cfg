SPECIFICATION FairSpec
CONSTANTS
  Procs = {p1, p2}
  MaxFiles = 2
  MaxFaults = 1
INVARIANTS TypeOK InUseIsKept
PROPERTIES RemovedStaysRemoved AbandonedIsCollected
CHECK_DEADLOCK FALSE
