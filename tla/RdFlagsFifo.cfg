SPECIFICATION Spec
CONSTANTS
  Q = {q1, q2, q3, q4, q5}
  IdxMod = 3
  QSize = 1
  Threshold = 0
  FIFO_DEPTH = 4
  Margin = 1
  NoChangeWired = FALSE
INVARIANTS RdFlagsFifoFits
SYMMETRY QueueSymmetry
