\* A tool of any pace beside the reaper: pids reused, saves and lookups failing, a crash.
CONSTANTS
  p1 = p1
  p2 = p2
  t1 = t1
  t2 = t2
  NoPid = NoPid
  Pid = {p1, p2}
  Tool = {t1}
  StaleAfter = 1
  RetainFor = 1
  PruneEvery = 1
  MaxPruned = 1
  MaxCycles = 1
  SlowReuse = TRUE
  MaxRecords = 2
  MaxProcesses = 3
  MaxCrashes = 1
  MaxFaults = 1
SPECIFICATION Spec
SYMMETRY MCSymmetry
CHECK_DEADLOCK FALSE
INVARIANTS
  SupervisionInv
PROPERTIES
  WatchedSurvives
  VerdictStands
