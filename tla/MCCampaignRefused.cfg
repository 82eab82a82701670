CONSTANTS
  p1 = p1
  p2 = p2
  Processes = {p1, p2}
  Build <- OneBuild
  MigrationRegistered = FALSE
  Sessions = {s1, s2}
  NoSession = none
  Operations = {o1, o2}
  MaxSaves = 2
  MaxWaiting = 1
SPECIFICATION Spec
INVARIANTS
  RefusedContinueKeepsSession
CHECK_DEADLOCK FALSE
