SPECIFICATION Spec
CONSTANTS
  IO_TIMEOUT = 2
  SessionIds = {1, 2}
  ValidLinks = {good}
  GENERATIONS = 1
  None = None
  INITIAL_BACKOFF = 1
  MAX_BACKOFF = 3
  LONG_SESSION = 2
  RunCap = 3
INVARIANTS
  SessionTypeOK
  IdleTimeoutRestored
  AnswersEveryRequest
  AnswersAreCurrent
PROPERTIES
  RegistrationIsReal
  ReconnectBackoff
  NeverHangs
  ServesAgain
