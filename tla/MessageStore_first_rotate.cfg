\* One call that only records until the disk is low.
SPECIFICATION Spec
CONSTANTS
  Callers = {c1}
  MaxMessages = 5
  PLAYBACK_LIMIT = 2
  Room = 3
  Block = 5
PROPERTY RotateReclaims
CHECK_DEADLOCK FALSE
