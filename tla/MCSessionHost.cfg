CONSTANTS
  host = host
  guest = guest
  c1 = c1
  c2 = c2
  Host = host
  Guests = {guest}
  Connections = {c1, c2}
  Owner <- Reconnecting
  Requests = {r1, r2}
  Intents = {"play"}
  NoConn = none
  MaxPump = 1
  MaxRevision = 3
  MaxRow = 2
  MaxQueue = 2
SPECIFICATION Spec
INVARIANTS
  OpenSocketIsServed
PROPERTIES
  KeepsItsPromise
  RetiredIsFinal
CHECK_DEADLOCK FALSE
