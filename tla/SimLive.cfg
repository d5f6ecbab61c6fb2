SPECIFICATION FairSpec
CONSTANTS
  Benches = {"vqblk", "vqnet", "vq", "tx", "stream", "mlite", "dma", "qs", "tso", "beqtxq"}
  Live = TRUE
  Limit = 1
  MaxPause = 2
  Senders = {1}
  MayReset = FALSE
  MaxBeats = 2
  MaxOps = 2
  MaxResets = 0
  Faulty = {2}
  Depth = 4
  LocalMax = 3
  MaxRead = 8
  NewMax = 1
  Lens = {3}
  NChains = 2
  Batch = 2
  MaxFaults = 1
PROPERTIES TestsEnd AllAnswered
CHECK_DEADLOCK FALSE
