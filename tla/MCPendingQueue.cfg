SPECIFICATION Spec
CONSTANTS
  a1 = a1
  a2 = a2
  Action = {a1, a2}
  Request = {r1, r2}
  Loop = Loop
  Stopper = Stopper
  None = None
  Operation <- MCOperation
  Target <- MCTarget
  Entity <- MCEntity
INVARIANTS
  TypeOK
  AtMostOneDispatch
  SqliteFirst
  CacheLagIsInFlight
  NoStaleKey
PROPERTIES
  KeepsContract
  DueEntriesSettle
