SPECIFICATION LiveSpec
CONSTANTS
  INITIAL_DELAY = 1
  MAX_DELAY = 2
  EVENT_RESET = 2
  RECONCILE = 4
  GENERATIONS = 2
  None = None
  MaxVersion = 2
  QueueLimit = 1
  INVENTORY_TIMEOUT = 1
  Links <- Inventories
  ValidLinks <- Inventories
  MaxTime = 3
  BackoffCap = 1
PROPERTIES
  TableCatchesUp
