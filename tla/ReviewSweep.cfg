CONSTANTS
  security = security
  style = style
  flaw = flaw
  nit = nit
  Focuses = {security, style}
  Security = security
  Anchors = {flaw, nit}
  Actionable = {flaw}
  Threshold = 40
  MaxFiles = 2
  MaxLines = 3
  Diffs <- SomeDiffs
  Older = {}
  Rejections <- SomeRejections
  Writers = {"window", "agent"}
  Judged <- SomeJudged
SPECIFICATION FairSpec
INVARIANTS
  TypeOK
  ReportIsTrue
  RejectedStaysAway
  OutcomesAreKept
PROPERTIES
  ImplementsContract
  SweepEnds
CHECK_DEADLOCK FALSE
