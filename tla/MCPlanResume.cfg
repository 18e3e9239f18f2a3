SPECIFICATION Spec
CONSTANTS
  N = 3
  Shapes <- MCShapes
  MaxCrashes = 2
  ResumeExecutes = FALSE
PROPERTY
  ResumedPlansFinish
CHECK_DEADLOCK FALSE
