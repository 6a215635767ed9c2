CONSTANTS
  Size <- TwoFiles
  ChunkSizes = {1, 2}
  NumChannels = 2
  Ordered = TRUE
  HashInWorker = FALSE
  ToFolder = FALSE
  MaxDrops = 2
  Faults = {"senderStops", "giveUp", "dispose", "slow"}

SPECIFICATION Spec

INVARIANT Counted

PROPERTY ImplementsFileReceive

CHECK_DEADLOCK FALSE
