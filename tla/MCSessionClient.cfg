CONSTANTS
  host = host
  Host = host
  Guests = {}
  Connections = {c1, c2}
  Owner <- MCOwner
  Requests = {r1, r2}
  Intents = {"resume", "play"}
  NoConn = none
  MaxPump = 1
  MaxRevision = 2
  MaxRow = 2
  MaxQueue = 1
SPECIFICATION FairClientSpec
INVARIANTS
  VerdictsAreTrue
PROPERTIES
  ScreenNeverGoesBack
  IntentSettles
CHECK_DEADLOCK FALSE
