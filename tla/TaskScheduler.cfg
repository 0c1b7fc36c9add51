\* A tree of two levels with a chain of dependencies, room for three in a batch, leases.
CONSTANTS
  root = root
  a = a
  a1 = a1
  a2 = a2
  b = b
  c = c
  d = d
  Node = {root, a, a1, a2, b, c, d}
  Root = root
  Offered <- MCOffered
  Needs <- MCNeeds
  Depth <- MCDepth
  IdRank <- MCIdRank
  SpecRank <- MCSpecRank
  Claims <- MCClaims
  MaxNodes = 7
  MaxDepth = 2
  MaxLeafExecutions = 5
  MaxParallel = 3
  ParallelSafe = {a1, a2, b, d}
  Leasing = TRUE
  RetryNodes = {a2, d}
  MaxAttempts = 3
  MaxCrashes = 2
  MaxInterrupts = 1
SPECIFICATION FairSpec
CHECK_DEADLOCK FALSE
INVARIANTS
  SchedulerInv
  RunsExplained
  BatchIsolated
  DependenciesFirst
  FailureEndsTheGraph
  NoDeadlock
PROPERTIES
  RunAdvances
  Terminates
