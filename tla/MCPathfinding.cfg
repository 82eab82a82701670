CONSTANTS
  Width = 3
  Height = 3
  Unvisited = Unvisited
  Special = 2
  Corner <- CornerDef
SPECIFICATION MCSpec
INVARIANTS NoCheaperWay SightIsMutual
CHECK_DEADLOCK FALSE
