CONSTANTS
  TotalBytes <- OneAndTwo
  Gathers <- TwoAndOne
  Limits <- SomeLimits
  Faults = {"late", "slow"}

SPECIFICATION Spec

INVARIANTS
  NoCandidateLost
  FramesFit

PROPERTIES
  Connects

CHECK_DEADLOCK FALSE
