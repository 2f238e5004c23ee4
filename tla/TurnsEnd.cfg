CONSTANTS
  Sessions = {s1}
  Runs = {r1, r2}
  None = None
  Keep = 1
  MaxConversations = 1
  MaxRestarts = 1
SPECIFICATION FairSpec
PROPERTY AbortedRunsEnd
CHECK_DEADLOCK FALSE
