\* Two calls, five messages, a window of three and room for two.
SPECIFICATION FairSpec
CONSTANTS
  Callers = {c1, c2}
  MaxMessages = 5
  PLAYBACK_LIMIT = 3
  Room = 2
  Block = 3
INVARIANTS TypeOK Conserved
PROPERTIES SparesWindow ErasesForRoom RotateEnds
CHECK_DEADLOCK FALSE
