\* One call that listens, one that records, rotates and archives.
SPECIFICATION LFairSpec
CONSTANTS
  Callers = {c1, c2}
  Listeners = {c1}
  MaxMessages = 4
  PLAYBACK_LIMIT = 2
  Room = 3
  Block = 4
INVARIANT LTypeOK
PROPERTIES NoneSkipped DeletesNoOlder SilentSessionEnds
CHECK_DEADLOCK FALSE
