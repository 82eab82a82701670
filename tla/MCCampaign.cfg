CONSTANTS
  p1 = p1
  p2 = p2
  Processes = {p1, p2}
  Build <- TwoBuilds
  MigrationRegistered = TRUE
  Sessions = {s1, s2, s3}
  NoSession = none
  Operations = {o1, o2}
  MaxSaves = 3
  MaxWaiting = 1
SPECIFICATION FairSpec
INVARIANTS
  LinearHistory
  ShownIsDurable
  OneWriter
PROPERTIES
  OpensAtLatest
  CallsSettle
CHECK_DEADLOCK FALSE
