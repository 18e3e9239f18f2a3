SPECIFICATION Spec
CONSTANTS
  e1 = e1
  e2 = e2
  sysA = sysA
  Entity = {e1, e2}
  Failure = {down, slow}
  Recovered = up
  System = {sysA}
  SystemOf <- MCSystemOf
  Threshold = 2
  Window = 1
  MaxEvents = 4
  MaxTime = 2
SYMMETRY Symmetry
INVARIANTS
  TypeOK
  FollowersHaveALeader
  OneLeaderPerWindow
  SuppressionIsExact
  CountedOnce
CHECK_DEADLOCK FALSE
