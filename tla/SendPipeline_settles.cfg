CONSTANTS
  NumChunks = 6
  Channels <- TwoChannels
  Control = c1
  Capacity = 1
  ReadAhead = 1
  MaxRetries = 1
  Windows <- OneWindow
  Faults <- Survivable
  c1 = c1
  c2 = c2

SPECIFICATION FairSpec

INVARIANTS
  MemoryBounded

PROPERTIES
  Settles
  NothingLeftRunning

CHECK_DEADLOCK FALSE
