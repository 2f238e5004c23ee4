CONSTANTS
  Sessions = {s1, s2}
  Runs = {r1, r2}
  None = None
  Keep = 1
  MaxConversations = 1
  MaxRestarts = 1
SPECIFICATION Spec
SYMMETRY Symmetry
INVARIANTS
  HandlesTrackRuns
  OneHome
PROPERTIES
  GuardedMutations
  TurnsAreSerial
  FailureKeepsHistory
CHECK_DEADLOCK FALSE
