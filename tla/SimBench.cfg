SPECIFICATION Safety
CONSTANTS
  Benches = {"vqblk", "vqnet", "vq", "tx", "rx", "blk", "vnettx", "vnetrx", "stream", "sav", "beq", "mlite", "dma", "mem", "qs", "tso", "beqtxq"}
  Live = FALSE
  Limit = 1
  MaxPause = 2
  Senders = {1}
  MayReset = TRUE
  MaxBeats = 2
  MaxOps = 3
  MaxResets = 1
  Faulty = {2}
  Depth = 4
  LocalMax = 3
  MaxRead = 8
  NewMax = 1
  Lens = {1, 3}
  NChains = 2
  Batch = 2
  MaxFaults = 1
INVARIANTS NoFalseAlarm IdsKept RefsKept QueuesBounded IdleIsIdle EndsLast
PROPERTIES TestsChecked ReadsRight WiresAreFifos PacketsAreFifos
CHECK_DEADLOCK FALSE
