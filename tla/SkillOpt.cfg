CONSTANTS
  word = word
  slow = slow
  open = open
  close = close
  extra = extra
  r1 = r1
  r2 = r2
  Tokens = {word, slow, open, close, extra}
  Open = open
  Close = close
  Budget = 2
  Skills <- SomeSkills
  Rewrites <- SomeRewrites
  Proposals <- SomeProposals
  Harvests = {1, 10}
  Statuses = {"pass", "fail", "unavailable"}
  Runs = {r1, r2}
  Turns = {"turn"}
  MaxTimes = 1
  None = None
SPECIFICATION Spec
SYMMETRY Symmetry
INVARIANTS
  OnlyBetterIsAdopted
  AnswersStand
  RegionIsKept
  CacheIsFresh
CONSTRAINT Apart
