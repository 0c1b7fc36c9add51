\* An identity lookup may fail (None) although the process lives.
CONSTANTS
  p1 = p1
  p2 = p2
  a = a
  b = b
  Process = {p1, p2}
  Resource = {a}
  Requests <- MCOneResource
  LookupFailures <- MCLookupsMayFail
  TTL = 2
  AcquireTimeout = 1
  MaxClock = 3
  MaxLeases = 3
  MaxIdentity = 1
SPECIFICATION LeaseSpec
CHECK_DEADLOCK FALSE
PROPERTIES
  NoTheft
