SPECIFICATION Spec
CONSTANTS
  Key = {k1, k2}
  NoKey = NoKey
  Putter = {p1, p2}
  Never = Never
  MaxSize = 3
  Window = 3
  PruneInterval = 2
  MaxTime = 6
SYMMETRY MCSymmetry
INVARIANTS
  TypeOK
  DictRemembersTheWindow
  WarningIsHysteresis
CHECK_DEADLOCK FALSE
