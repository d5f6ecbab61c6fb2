SPECIFICATION Safety
CONSTANTS
  Q = {q1}
  IdxMod = 4
  QSize = 3
  Threshold = 1
  FIFO_DEPTH = 5
  Margin = 4
  NoChangeWired = TRUE
  DbDepth = 1
  LandDepth = 2
  Env = {"post"}
INVARIANTS NoLostKick
