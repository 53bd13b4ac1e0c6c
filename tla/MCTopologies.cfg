SPECIFICATION Spec
CONSTANTS
  None = None
  NoName = NoName
  Null = Null
  MAX_INDEX = 3
  MAX_BULK_BINDINGS = 4
  MaxLinks = 3
  MaxReferences = 3
  Indexes = {1, 2, 3}
  Names = {1, NoName}
  KindsSeen = {"Bridge", "Vlan", "Vxlan"}
INVARIANTS
  OrderIndependent
  RowsAreAStack
CHECK_DEADLOCK FALSE
