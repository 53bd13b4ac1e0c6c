SPECIFICATION LiveSpec
CONSTANTS
  INITIAL_DELAY = 1
  MAX_DELAY = 2
  EVENT_RESET = 3
  RECONCILE = 3
  GENERATIONS = 2
  None = None
  Links = {good, bad}
  ValidLinks = {good}
  MaxTime = 4
  BackoffCap = 1
PROPERTIES
  KeepsTrying
  TableReturns
