\* Two operations that write one resource: late heartbeats, crashes, hangs.
CONSTANTS
  p1 = p1
  p2 = p2
  a = a
  Process = {p1, p2}
  Resource = {a}
  Requests <- MCWrite
  LookupFailures <- MCLookupsSucceed
  TTL = 2
  AcquireTimeout = 1
  MaxClock = 3
  MaxLeases = 2
  MaxIdentity = 1
  Interval = 1
  Slack = 0
SPECIFICATION FairOperationSpec
CHECK_DEADLOCK FALSE
INVARIANTS
  OperationInv
  CompletedUndisturbed
PROPERTIES
  WritesFollowGrants
  OperationReturns
