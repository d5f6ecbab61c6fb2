SPECIFICATION Spec
CONSTANTS
  Q = {q1, q2}
  IdxMod = 3
  QSize = 1
  Threshold = 0
  FIFO_DEPTH = 6
  Margin = 4
  NoChangeWired = FALSE
  DbDepth = 1
  LandDepth = 1
  Env = {"post"}
PROPERTIES EveryPostArrives
