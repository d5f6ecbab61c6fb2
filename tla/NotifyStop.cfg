SPECIFICATION Safety
CONSTANTS
  Q = {q1}
  IdxMod = 3
  QSize = 2
  Threshold = 0
  FIFO_DEPTH = 8
  Margin = 4
  NoChangeWired = FALSE
  DbDepth = 1
  LandDepth = 2
  Env = {"post", "stop", "resume", "dma_err"}
INVARIANTS TypeOK NoLostKick RingIsAwake IdleIsQuiet DmaCounted
PROPERTIES IdxFollowsDriver
