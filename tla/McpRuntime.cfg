CONSTANTS
  Commands = {k1, k2, k3}
  Boot = Boot
  d1 = d1
  d2 = d2
  d3 = d3
  Defs <- ThreeDefs
  Endpoint <- TwoEndpoints
  None = None
SPECIFICATION Spec
INVARIANTS
  TypeOK
  OneService
  UnapprovedGoes
  DeletedIsGone
  NothingIsLeft
SYMMETRY Symmetry
CHECK_DEADLOCK FALSE
