CONSTANTS
  c1 = c1
  c2 = c2
  h1 = h1
  h2 = h2
  w1 = w1
  Clients = {c1, c2}
  Hosts = {h1, h2}
  NoPeer = NoPeer
  Windows = {w1}
  NoBaseline = NoBaseline
  MaxEntries = 2
  MaxVersions = 3
  MaxMatches = 2
  MaxNotes = 3
  MaxSnapshots = 2
  MaxUnits = 3
  Strategies = 2
  MaxNodes = 4
  MaxDepth = 2
  Limit = 2
  None = None
  MaxChanges = 1
  MaxTries = 2
  MaxApps = 3
  MaxEvents = 2
  MaxWriters = 2
  MaxClock = 1
  MaxHelpers = 2
  MaxKills = 1
  MaxDesktopChanges = 3
  MaxUserSteps = 2
  MaxAdapters = 2
  MaxCalls = 5
  MaxKids = 2
  MaxKidChanges = 1
  PageSize = 1
  ReadAttempts = 2
  Budget = 4
  LeaseBudget = 3
  Settling = 2
  Scopes = {3, 6, 99}
  MaxUserMenus = 1
  MaxDrills = 1
  Amount = 3
  MaxAttempts = 3
  MaxReads = 2
  MaxEdits = 1
  MaxSpoiled = 1
  MaxMoves = 2
  MaxScreenChanges = 2
  MaxShakes = 2
  Spots = {1, 2}
  Off = Off
SPECIFICATION Spec
INVARIANTS TypeOK ForwardingIsHonest BatchIsHonest ClipboardIsHonest ObservationsAreTrue QueriesAreTrue ActionsAreHonest ProgramsAreHonest NotificationsAreHonest RefsResolveStrictly
PROPERTY CommandsEnd
CHECK_DEADLOCK FALSE
