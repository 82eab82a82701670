CONSTANTS
  host = host
  guest = guest
  c1 = c1
  c2 = c2
  Host = host
  Guests = {guest}
  Connections = {c1, c2}
  Owner <- Together
  Requests = {r1}
  Intents = {"play", "remove-offline-guest"}
  NoConn = none
  MaxPump = 1
  MaxRevision = 2
  MaxRow = 2
  MaxQueue = 2
SPECIFICATION FairSpec
PROPERTIES
  SnapshotVersionAdvances
  RetireCompletes
CHECK_DEADLOCK FALSE
