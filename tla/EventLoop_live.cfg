SPECIFICATION FairSpec
CONSTANTS
  p1 = p1
  p2 = p2
  p3 = p3
  h1 = h1
  h2 = h2
  h3 = h3
  a = a
  b = b
  NoPid = NoPid
  NoHook = NoHook
  Pid = {p1, p2}
  Hook = {h1, h2}
  Flags <- Flags2
  HookList <- HookList2
  Pin = {a}
  i_list = {a}
  p_list <- NonePolled
  Sent = {"INT"}
  Stops = TRUE
INVARIANTS
  PidListSound
  BusyIsReal
  ReadNeverBlocks
PROPERTIES
  ShutdownHeard
  QueuedDeathIsReaped
CHECK_DEADLOCK FALSE
