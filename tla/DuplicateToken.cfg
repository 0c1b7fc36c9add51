\* One owner dies holding the lock; two processes find the orphan stale.
CONSTANTS
  p1 = p1
  p2 = p2
  p3 = p3
  NoDir = NoDir
  Process = {p1, p2}
  StaleAfter = 2
  Patience = 1
  Pace = 1
  OwnersMayDie = TRUE
  MaxCrashes = 1
  MaxToken = 3
SPECIFICATION RegistrySpec
PROPERTIES
  NewTokenIsGreatest
