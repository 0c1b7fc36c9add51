\* No owner dies or dawdles, a contender may die: load and save are one step.
CONSTANTS
  p1 = p1
  p2 = p2
  p3 = p3
  NoDir = NoDir
  Process = {p1, p2, p3}
  StaleAfter = 2
  Patience = 0
  Pace = 1
  OwnersMayDie = FALSE
  MaxCrashes = 1
  MaxToken = 2
SPECIFICATION RegistrySpec
SYMMETRY MCSymmetry
INVARIANTS
  MutualExclusion
PROPERTIES
  NewTokenIsGreatest
