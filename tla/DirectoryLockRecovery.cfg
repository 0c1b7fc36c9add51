\* Two processes, one of which may die anywhere: waiting ends, orphans go.
CONSTANTS
  p1 = p1
  p2 = p2
  p3 = p3
  NoDir = NoDir
  Process = {p1, p2}
  StaleAfter = 2
  Patience = 1
  Pace = 1
  OwnersMayDie = TRUE
  MaxCrashes = 1
SPECIFICATION BusyLockSpec
PROPERTIES
  EnterReturns
  OrphanReclaimed
