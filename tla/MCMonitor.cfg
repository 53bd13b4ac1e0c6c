SPECIFICATION Spec
CONSTANTS
  INITIAL_DELAY = 1
  MAX_DELAY = 3
  EVENT_RESET = 4
  RECONCILE = 4
  GENERATIONS = 3
  None = None
  Links = {good, bad}
  ValidLinks = {good}
  MaxTime = 7
  BackoffCap = 3
INVARIANTS
  TypeOK
  NoForgottenEvent
  WakeIsExact
  BoundedStaleness
  TableTracksContinuity
PROPERTIES
  FailureFloor
  EventBackoff
  AttemptSpacing
  ImplementsPublication
CHECK_DEADLOCK FALSE
