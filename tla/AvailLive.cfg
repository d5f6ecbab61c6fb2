SPECIFICATION Spec
CONSTANTS
  q1 = q1
  Q <- MCOneQ
  Typ <- MCBlk
  RingIdNum <- MCRam2
  Nid <- MCNid1
  QDepth = 2
  IdxMod = 4
  OrderPfull = 2
  MayStop = TRUE
PROPERTIES EveryEntryHandedOut
