CONSTANTS
  MaxSockets = 2
  Faults <- RoomFaults

SPECIFICATION Spec

INVARIANTS
  Reachable
  PresenceTold
  IntroducedFirst
  EndsForAll

CHECK_DEADLOCK FALSE
