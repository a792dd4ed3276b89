SPECIFICATION Spec
CONSTANTS
  Clients = {c1}
  Handles = {h1, h2}
  Requests <- Alone
  MaxCalls = 1
  None = None
INVARIANTS NoRetryAfterScroll
CHECK_DEADLOCK FALSE
