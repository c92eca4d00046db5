CONSTANTS
  Clients = {"a", "b"}
  Tables = {"t", "u"}
  Start <- MCStart
  Values <- MCValues
  Bits32 = 4
  Bits64 = 8
  MaxRows = 3
  MaxCrashes = 2
  MaxOpens = 4
SPECIFICATION Spec
INVARIANTS
  AttributedUntilRefused
  InsertedIsKept
  CatalogueComplete
CHECK_DEADLOCK FALSE
