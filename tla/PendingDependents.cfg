\* A chain of dependencies listed backwards, and its head fails.
CONSTANTS
  root = root
  a = a
  a1 = a1
  a2 = a2
  b = b
  c = c
  d = d
  Node = {root, a, a1, a2, b, c, d}
  Root = root
  Offered <- MCOffered
  Needs <- MCNeeds
  Depth <- MCDepth
  IdRank <- MCIdRank
  SpecRank <- MCSpecRank
  Claims <- MCNoClaims
  MaxNodes = 7
  MaxDepth = 2
  MaxLeafExecutions = 5
  MaxParallel = 1
  ParallelSafe = {}
  Leasing = FALSE
  RetryNodes = {a1, b}
  MaxAttempts = 2
  MaxCrashes = 0
  MaxInterrupts = 0
SPECIFICATION Spec
CHECK_DEADLOCK FALSE
INVARIANTS
  DependentsBlocked
