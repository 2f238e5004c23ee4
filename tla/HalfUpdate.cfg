CONSTANTS
  Commands = {k1, k2}
  Boot = Boot
  d1 = d1
  d2 = d2
  d3 = d3
  Defs <- ThreeDefs
  Endpoint <- TwoEndpoints
  None = None
SPECIFICATION ApprovalSpec
INVARIANTS
  OnlyApprovedDialed
CHECK_DEADLOCK FALSE
