CONSTANTS
  Conn = {c1, c2}
  Room = 1
  Packets = 2
  Talk = TRUE
  Forks = TRUE
  Crowded = TRUE
SPECIFICATION ReadingSpec
INVARIANTS
  TypeOK
  ListSound
PROPERTIES
  StaleOnlyByCopies
  ServesSubscribers
  DeadIsDeleted
  DispatchEnds
CHECK_DEADLOCK FALSE
