CONSTANTS
  NumChunks = 4
  Channels <- TwoChannels
  Control = c1
  Capacity = 1
  ReadAhead = 2
  MaxRetries = 1
  Windows <- TwoWindows
  Faults <- AllFaults
  c1 = c1
  c2 = c2

SPECIFICATION Spec

INVARIANTS
  IInv
  CompleteMeansAllSent
  NoLostWakeup
  BufferBounded

PROPERTIES
  CancelStopsSending
  ImplementsFileSend

CHECK_DEADLOCK FALSE
