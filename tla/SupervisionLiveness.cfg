\* Calls and runs of the service come back; orphans are ended.
CONSTANTS
  p1 = p1
  p2 = p2
  t1 = t1
  t2 = t2
  NoPid = NoPid
  Pid = {p1}
  Tool = {t1}
  StaleAfter = 1
  RetainFor = 1
  PruneEvery = 1
  MaxPruned = 1
  MaxCycles = 2
  SlowReuse = TRUE
  MaxRecords = 2
  MaxProcesses = 2
  MaxCrashes = 1
  MaxFaults = 1
SPECIFICATION FairSpec
CHECK_DEADLOCK FALSE
PROPERTIES
  CallReturns
  OrphansReaped
