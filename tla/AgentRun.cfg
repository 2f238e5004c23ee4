CONSTANTS
  MaxTurns = 2
  MaxRetries = 1
  LoopStop = 2
  Sigs = {"a", "b"}
  Reasons = {"blocked"}
  MaxTexts = 1
  MaxBatch = 2
SPECIFICATION FairSpec
INVARIANTS
  TypeOK
  TextIsTrue
  LimitsHold
  LoopsStop
PROPERTIES
  ImplementsContract
  RunEnds
CHECK_DEADLOCK FALSE
