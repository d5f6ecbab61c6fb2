SPECIFICATION Safety
CONSTANTS
  q1 = q1
  Q <- MCOneQ
  Typ <- MCTx
  RingIdNum <- MCRam4
  Nid <- MCNid2
  QDepth = 4
  IdxMod = 8
  OrderPfull = 2
  MayStop = TRUE
INVARIANTS TypeOK PointersInOrder IdleIsQuiet RingNotForgotten
PROPERTIES HandsOutInOrder
