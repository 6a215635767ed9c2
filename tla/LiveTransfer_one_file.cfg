CONSTANTS
  Size <- OneFile
  ChunkSizes = {1}
  NumChannels = 2
  Ordered = FALSE
  HashInWorker = TRUE
  ToFolder = FALSE
  MaxDrops = 1
  Faults <- NoFaults

SPECIFICATION FairSpec

INVARIANTS
  EveryChunkSomewhere
  NoFalseAlarm

PROPERTIES
  ArrivesUnlessMissed

CHECK_DEADLOCK FALSE
