SPECIFICATION FairSpec
CONSTANTS
  Procs = {p1, p2}
  Threads = {t1, t2, t3}
  ProcOf <- Spread
  Descs = {d1, d2, d3, d4}
  NoDesc = NoDesc
INVARIANTS LeaseIsExclusive FlagHasOwner AdoptedIsSealed
PROPERTIES HandoverHasNoGap AttemptEnds
