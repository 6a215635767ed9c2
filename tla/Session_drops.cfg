CONSTANTS
  MaxStarts = 1
  MaxAttempts = 1
  MaxRetries = 1
  Modes = {TRUE, FALSE}
  MaxDrops = 1
  Faults = {"socket", "mute", "link"}

SPECIFICATION Spec

INVARIANTS
  OneSet

PROPERTIES
  SenderSettles
  ReceiverSettles

CHECK_DEADLOCK FALSE
