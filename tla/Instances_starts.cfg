CONSTANTS
  i1 = i1
  i2 = i2
  i3 = i3
  Inst = {i1, i2, i3}
  NoInst = NoInst
  Opts <- Mixtures
  Overlaps = {TRUE, FALSE}
  Crashes = TRUE
  Reuse = TRUE
SPECIFICATION FairSpec
INVARIANTS
  OneLoop
  CleanEnd
  NotHidden
PROPERTY Settles
CHECK_DEADLOCK FALSE
