SPECIFICATION FairSpec
CONSTANTS
  MaxAttempts = 2
  FifoSize = 3
  Long = 2
  Text = 0
  Frames = 1
INVARIANTS
  EveryByteTaken
  TickInOnePiece
PROPERTIES
  CallsEnd
CHECK_DEADLOCK FALSE
