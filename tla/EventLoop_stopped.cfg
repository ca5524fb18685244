SPECIFICATION Spec
CONSTANTS
  p1 = p1
  p2 = p2
  p3 = p3
  h1 = h1
  h2 = h2
  h3 = h3
  a = a
  b = b
  NoPid = NoPid
  NoHook = NoHook
  Pid = {p1, p2}
  Hook = {h1}
  Flags <- Flags1
  HookList <- HookList1
  Pin = {a}
  i_list = {a}
  p_list <- NonePolled
  Sent = {}
  Stops = TRUE
INVARIANTS
  NoLoopExclusive
CHECK_DEADLOCK FALSE
