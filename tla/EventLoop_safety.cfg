SPECIFICATION Spec
CONSTANTS
  p1 = p1
  p2 = p2
  p3 = p3
  h1 = h1
  h2 = h2
  h3 = h3
  a = a
  b = b
  NoPid = NoPid
  NoHook = NoHook
  Pid = {p1, p2, p3}
  Hook = {h1, h2, h3}
  Flags <- Flags3
  HookList <- HookList3
  Pin = {a, b}
  i_list = {a}
  p_list <- Polled
  Sent = {"TERM"}
  Stops = FALSE
SYMMETRY Processes
INVARIANTS
  TypeOK
  NoLoopExclusive
  EveryChildKnown
PROPERTIES
  FreedByOwnDeath
  KeepsPromise
CHECK_DEADLOCK FALSE
