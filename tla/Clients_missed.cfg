CONSTANTS
  Conn = {c1, c2}
  Room = 1
  Packets = 2
  Talk = FALSE
  Forks = FALSE
  Crowded = FALSE
SPECIFICATION Spec
PROPERTY ReachesAll
CHECK_DEADLOCK FALSE
