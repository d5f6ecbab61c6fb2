SPECIFICATION Spec
CONSTANTS
  q1 = q1
  q2 = q2
  q3 = q3
  q4 = q4
  Q <- MCFourQs
  IdxMod = 3
  QSize = 1
  Threshold = 0
  FIFO_DEPTH = 3
  Margin = 1
  NoChangeWired = FALSE
  NG = 2
  NL = 2
  TimeMod = 8
  CntMod = 4
  CLK_CYCLE = 6
  ENG_OUT_PFULL = 1
  Live <- MCMerged
  Time <- MCTime
  Thr <- MCThr
INVARIANTS RespFifosFit SampleIsOwn CiWritten
PROPERTIES EveryAskAnswered PredictorAgrees InTolerance
