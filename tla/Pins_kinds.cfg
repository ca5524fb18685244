CONSTANTS
  a = a
  b = b
  Pin = {a, b}
  NoPin = NoPin
  gp_list <- TwoPins
  Configs <- Pairs
  KFifo = 2
SPECIFICATION FairSpec
INVARIANTS
  TypeOK
  PacketIsOwn
PROPERTIES
  TellsChanges
  Converges
  EveryEventReported
