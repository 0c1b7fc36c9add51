\* Two processes, two resources: safety, and LeaseService implemented.
CONSTANTS
  p1 = p1
  p2 = p2
  a = a
  b = b
  Process = {p1, p2}
  Resource = {a, b}
  Requests <- MCRequests
  LookupFailures <- MCLookupsSucceed
  TTL = 2
  AcquireTimeout = 1
  MaxClock = 3
  MaxLeases = 3
  MaxIdentity = 1
SPECIFICATION LeaseSpec
SYMMETRY MCSymmetry
CHECK_DEADLOCK FALSE
INVARIANTS
  LeaseInv
  NoConflictingHolders
PROPERTIES
  NoTheft
  ImplementsLeaseService
