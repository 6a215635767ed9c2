CONSTANTS
  NumChunks = 2
  Concurrency = 2
  Allowances <- OneOrAny
  Receivers <- TwoReceivers
  Faults <- AllFaults
  r1 = r1
  r2 = r2

SPECIFICATION FairSpec

INVARIANTS
  OfferedIsThere
  GoneForGood

PROPERTIES
  Frozen
  ImplementsLifecycle
  PagesSettle

CHECK_DEADLOCK FALSE
