CONSTANTS
  MaxStarts = 2
  MaxAttempts = 2
  Modes = {TRUE, FALSE}

SPECIFICATION SendSpec

INVARIANTS
  OneLoop
  RightFiles
  CancelIsClean

PROPERTIES
  IdleStays
  DoneStays

CONSTRAINT Straight

CHECK_DEADLOCK FALSE
