CONSTANTS
  p = p
  q = q
  Proc = {p, q}
  Absent = Absent
  Begins <- Words
  Setups <- AllSetups
  Line = {0, 5, 6, 7, 33, 256, 1023}
  Chips <- TwoChips
  Named = {6}
  Taken = {5}
SPECIFICATION FairSpec
INVARIANTS
  TypeOK
  NumbersAreOwn
  WatchedLive
  NothingDropped
  LeavesNothing
PROPERTIES
  ClosesOwn
  CleanupKeepsToItsLine
  GetsToLoop
CHECK_DEADLOCK FALSE
