CONSTANTS
  Radix = 32
  W16 = 1
  W32 = 2
  W64 = 4
  SYNC_BYTE = 21
  Mant = 11
  BIG_L = 8
  Rows <- MCRows
  nfields <- MCnfields
  MaxRows = 3
  Cuts = {0, 1}
  Readers = {"server", "proxy"}
SPECIFICATION Spec
INVARIANTS
  DecodedWasSent
  NothingLost
  ProxyStoresSent
CHECK_DEADLOCK FALSE
