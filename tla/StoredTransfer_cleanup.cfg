CONSTANTS
  NumChunks = 1
  Concurrency = 1
  Allowances <- JustOne
  Receivers <- OneReceiver
  Faults <- NoFaults
  r1 = r1
  r2 = r2

SPECIFICATION Spec

INVARIANTS
  NothingLeftBehind

CHECK_DEADLOCK FALSE
