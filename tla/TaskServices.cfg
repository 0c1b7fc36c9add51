\* Each service on its own; a graph that is over and a replay that is through
\* stay as they are.
CONSTANTS
  x = x
  y = y
  Capability = {"write", "run"}
  PluginId = {"plugin"}
  Code = {x, y}
  BuiltIn = {}
  Families = {"write", "run"}
  Invocations = {"write", "run"}
  Strict = {"run"}
  MaxEdits = 1
  MaxAttempts = 3
  Window = 3
  Delay <- MCDelay
  MaxWall = 5
  MaxRuns = 4
  command = command
  review = review
  audit = audit
  Parents <- MCParents
  Selectors <- MCSelectors
  Policies <- MCPolicies
  Verifiers = {command, review, audit}
  Commands = {command}
  ChildStates <- MCChildStates
  Proposals <- MCProposals
  Cases <- MCCases
  MaxChildren = 2
  Repairs = 1
  MaxLeafRuns = 3
  MaxCrashes = 1
  r1 = r1
  r2 = r2
  one = one
  other = other
  CommandStages <- MCCommandStages
  ReleaseId = {r1, r2}
  Recorder = {one, other}
  ListLimit = 20
  MaxGates = 2
  MaxTime = 2
SPECIFICATION ServicesSpec
SYMMETRY ServicesSymmetry
CHECK_DEADLOCK FALSE
INVARIANTS
  RunsAreAdmitted
  VerdictConservative
  AcceptedChildrenAreSound
  ReplayReproduces
  ReleasesEarned
PROPERTIES
  DescriptorsStand
  RetriesInTime
  SnapshotsStand
