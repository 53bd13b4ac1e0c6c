SPECIFICATION WalkSpec
CONSTANTS
  Null = Null
  Unavailable = Unavailable
  MAX_BULK_BINDINGS = 5
  MaxRepetitions = 3
  Tables <- MCTables
INVARIANTS
  WalkIsComplete
  LookupsAgree
PROPERTIES
  WalkEnds
