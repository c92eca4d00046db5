CONSTANTS
  Bits32 = 8
  Bits64 = 16
  Fine = 10
  DBL_DIG = 3
  DBL_MIN = 3
  DBL_MAX = 99990
  Lines <- MCLines
  InvalidNames = {"9"}
  Rows <- MCRows
  Renamed <- MCRenamed
  MAX_TABLE_RENAME = 3
  DEF_NUM_VALUES = 7
  MaxLines = 3
  MaxRows = 2
  MaxRestarts = 1
  MaxRefused = 1
  Cuts = {0, 4}
  Readers = {"server", "proxy"}
SPECIFICATION Spec
INVARIANTS
  TextDecodedWasSent
  EveryLineInserted
  TableFoundAgain
CHECK_DEADLOCK FALSE
