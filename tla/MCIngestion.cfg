\* A window of two polls, so that a change can fall within it and after it.
SPECIFICATION Spec
CONSTANTS
  Unknown = Unknown
  Absent = Absent
  Watch <- MCWatch
  Window = 2
  MaxDelay = 4
  MaxRefusals = 3
  CleanScans = 2
INVARIANTS
  TypeOK
  PictureTrue
PROPERTY
  Noticed
\* An adapter can end.
CHECK_DEADLOCK FALSE
