CONSTANTS
  Streams = {s1}
  Files = {f1}
  Pieces = 3
  Faults = {"noWorker", "error", "readFail", "postFail"}

SPECIFICATION FairSpec

INVARIANTS
  AnswersMatch
  StreamsReleased

PROPERTY AnsweredIfUp

CHECK_DEADLOCK FALSE
