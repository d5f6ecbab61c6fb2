SPECIFICATION Spec
CONSTANTS
  Q = {q1}
  IdxMod = 3
  QSize = 2
  Threshold = 1
  FIFO_DEPTH = 8
  Margin = 4
  NoChangeWired = FALSE
  DbDepth = 1
  LandDepth = 1
  Env = {"post"}
PROPERTIES NotificationsComeBack
