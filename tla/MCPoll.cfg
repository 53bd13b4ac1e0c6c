SPECIFICATION PollSpec
CONSTANTS
  MILLI = 3
  I32_MAX = 3
  MaxTimeout = 14
  Never = Never
INVARIANTS
  NoEarlyDeadline
PROPERTIES
  WaitEnds
