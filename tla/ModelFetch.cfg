CONSTANTS
  Callers = {c1, c2, c3}
  None = None
SPECIFICATION FairSpec
INVARIANTS
  OneFlight
  FreshMeansFresh
PROPERTIES
  WaitersGoOn
CHECK_DEADLOCK FALSE
