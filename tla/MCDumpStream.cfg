SPECIFICATION Spec
CONSTANTS
  NETLINK_HEADER_LENGTH = 16
  SEQUENCES = 4
  Duplicate = Duplicate
  None = None
  MAX_DATAGRAM = 60
  MAX_INVENTORY_BYTES = 80
  MaxLinks = 5
  MaxWire = 2
INVARIANTS
  CompleteIsWhole
  RequestsAreTold
