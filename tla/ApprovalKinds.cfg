CONSTANTS
  r1 = r1
  r2 = r2
  make = make
  env = env
  tool = tool
  pMake = pMake
  pEnv = pEnv
  pTool = pTool
  Requests = {r1}
  Subjects <- KindSubjects
  Patterns <- KindPatterns
  Matching <- KindMatching
  Canonical <- KindOwn
  Exact <- KindOwn
  BuiltIn = {pEnv}
  Sensitive = {}
  Population <- KindPopulation
SPECIFICATION FairSpec
INVARIANTS
  AutoApprovalRespectsDenyRules
PROPERTIES
  RequestsSettle
