SPECIFICATION Spec
CONSTANTS
  NETLINK_HEADER_LENGTH = 16
  SEQUENCES = 4
  Duplicate = Duplicate
  None = None
  MaxMessages = 3
  Payloads = {0, 1, 3, 4}
  MaxAttributes = 4
  Indexes = {1, 2}
  KindsSent = {"Bond", "Bridge", "Vlan", "MacVlan", "IpVlan", "MacVtap", "Vxlan", "Veth", "dummy"}
INVARIANTS
  FramingIsExact
  DecodeAdvances
  FieldsAreTheAttributes
CHECK_DEADLOCK FALSE
