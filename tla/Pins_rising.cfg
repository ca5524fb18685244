CONSTANTS
  a = a
  b = b
  Pin = {a}
  NoPin = NoPin
  gp_list <- OnePin
  Configs <- RisingOnly
  KFifo = 2
SPECIFICATION Spec
INVARIANT DispatchHasEdge
