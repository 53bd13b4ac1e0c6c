SPECIFICATION NetSpec
CONSTANTS
  INITIAL_DELAY = 1
  MAX_DELAY = 2
  EVENT_RESET = 2
  RECONCILE = 2
  GENERATIONS = 2
  None = None
  MaxVersion = 2
  QueueLimit = 2
  INVENTORY_TIMEOUT = 1
  Links <- Inventories
  ValidLinks <- Inventories
  MaxTime = 3
  BackoffCap = 1
INVARIANTS
  NetTypeOK
  SubscriptionIsReal
  NoTornTable
  NoSilentStaleness
PROPERTIES
  ImplementsMonitor
CHECK_DEADLOCK FALSE
