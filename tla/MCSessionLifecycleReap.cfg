SPECIFICATION Spec
CONSTANTS
  Procs = {p1, p2}
  MaxFiles = 2
  MaxFaults = 0
INVARIANTS NeverReapsLive
CHECK_DEADLOCK FALSE
