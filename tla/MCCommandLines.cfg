SPECIFICATION Spec
CONSTANTS
  None = None
  DEFAULT_PATH = "/etc/agentx-ifstack.toml"
  MaxArguments = 4
  Paths <- MCPaths
  Contents <- MCContents
INVARIANTS
  CommandLineIsAnEdit
CHECK_DEADLOCK FALSE
