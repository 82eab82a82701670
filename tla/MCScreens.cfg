CONSTANTS
  Kinds = {"login", "logout", "create", "delete"}
  MaxPaced = 1
  MaxSnapshots = 4
  MaxBoards = 2
  MaxRestores = 1
  Situations <- Moments
SPECIFICATION ScreensSpec
INVARIANTS
  ToldInOrder
  TargetingIsCurrent
  ScreenIsLatest
VIEW Relevant
CHECK_DEADLOCK FALSE
