SPECIFICATION LiveSpec
CONSTANTS
  Clients = {c1, c2}
  Handles = {h1, h2}
  Requests <- AloneAndTogether
  MaxCalls = 2
  None = None
INVARIANTS TypeOK LeaseCoversAction InputHitsTarget
PROPERTIES KeepsContract CallEnds
CHECK_DEADLOCK FALSE
