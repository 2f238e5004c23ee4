CONSTANTS
  Sessions = {s1, s2}
  Runs = {r1, r2}
  Draft = Draft
  None = None
  Stops = {c1}
  MaxTexts = 2
  MaxBlocks = 1
SPECIFICATION Spec
SYMMETRY Symmetry
INVARIANTS
  AnswersHoldOwnText
CHECK_DEADLOCK FALSE
