\* Three iterations of up to three actions, crashes anywhere, all profiles.
CONSTANTS
  Profiles = {"free", "check", "scripted", "repair", "evidence"}
  Leaves <- MCLeaves
  MaxIterations = 3
  MaxActions = 5
  MaxRepeated = 3
  Signature <- MCSignature
  FreeSignature <- MCFreeSignature
  MaxPlan = 3
  MaxCrashes = 2
  Content <- MCContent
  Patches <- MCPatches
  Script <- MCScript
  Looks = 1
  Proposals <- MCProposals
  Criterion = {1, 2}
  MaxItems = 2
  PortCrashes = 1
SPECIFICATION FairProfileSpec
CHECK_DEADLOCK FALSE
INVARIANTS
  EngineInv
  EvidenceInTurn
  CompletedOnEvidence
  PatchesExplained
PROPERTIES
  ResumedInPlace
  StepsRunOut
  Terminates
