\* One call that listens, one that records.
SPECIFICATION LSpec
CONSTANTS
  Callers = {c1, c2}
  Listeners = {c1}
  MaxMessages = 4
  PLAYBACK_LIMIT = 2
  Room = 4
  Block = 4
PROPERTY DeletesCurrent
CHECK_DEADLOCK FALSE
