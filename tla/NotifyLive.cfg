SPECIFICATION Spec
CONSTANTS
  Q = {q1}
  IdxMod = 3
  QSize = 2
  Threshold = 1
  FIFO_DEPTH = 8
  Margin = 4
  NoChangeWired = TRUE
  DbDepth = 1
  LandDepth = 1
  Env = {"post"}
INVARIANTS NoSpuriousError FlagsOnWhenForgotten
PROPERTIES EveryPostArrives NotificationsComeBack
