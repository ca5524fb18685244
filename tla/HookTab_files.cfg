CONSTANTS
  Dirs <- AllDirs
  Clean <- GoodFiles
  gp_list <- Pins
  Prefix <- Begun
SPECIFICATION FairSpec
INVARIANTS
  
  PointersInLine
  ArgvEnds
PROPERTY Terminates
CHECK_DEADLOCK FALSE
