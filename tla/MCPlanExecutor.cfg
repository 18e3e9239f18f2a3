SPECIFICATION Spec
CONSTANTS
  N = 3
  Shapes <- MCShapes
  MaxCrashes = 2
  ResumeExecutes = TRUE
INVARIANTS
  TypeOK
  DependenciesFirst
  ApprovedFirst
  WriteAhead
  VerdictMatchesSteps
  RetriesAreCrashes
PROPERTIES
  SettledForGood
  KeepsPlanContract
  ResumedPlansFinish
CHECK_DEADLOCK FALSE
