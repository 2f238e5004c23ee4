CONSTANTS
  r1 = r1
  r2 = r2
  make = make
  env = env
  tool = tool
  pMake = pMake
  pEnv = pEnv
  pTool = pTool
  Requests = {r1, r2}
  Subjects <- PairSubjects
  Patterns <- PairPatterns
  Matching <- PairMatching
  Canonical <- PairOwn
  Exact <- PairOwn
  BuiltIn = {}
  Sensitive = {}
  Population <- PairPopulation
SPECIFICATION Spec
SYMMETRY Symmetry
INVARIANTS
  TypeOK
  EntriesAreOwned
  NothingWaitsInVain
PROPERTIES
  ImplementsContract
