SPECIFICATION Spec
CONSTANTS
  None = None
  DEFAULT_PATH = "/etc/agentx-ifstack.toml"
  TimeoutStartSec = 2
  RestartSec = 1
  StartLimitIntervalSec = 10
  StartLimitBurst = 3
  Configurations <- MCConfigurations
PROPERTIES
  StartsEnd
  BecomesActive
