\* Adapters that connect before they poll.
SPECIFICATION Spec
CONSTANTS
  Unknown = Unknown
  Absent = Absent
  Watch <- MCConnecting
  Window = 2
  MaxDelay = 4
  MaxRefusals = 3
  CleanScans = 2
INVARIANT
  Reconnects
CHECK_DEADLOCK FALSE
