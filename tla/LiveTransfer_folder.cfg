CONSTANTS
  Size <- OneFile
  ChunkSizes = {1}
  NumChannels = 2
  Ordered = FALSE
  HashInWorker = TRUE
  ToFolder = TRUE
  MaxDrops = 0
  Faults <- AllFaults

SPECIFICATION Spec

INVARIANTS
  Intact
  SinksInOrder

PROPERTIES
  NothingAfterCancel

CHECK_DEADLOCK FALSE
