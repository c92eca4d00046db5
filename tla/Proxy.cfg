SPECIFICATION Spec
CONSTANTS
  p1 = p1
  p2 = p2
  NoClient = NoClient
  Stray = Stray
  Clients = {p1, p2}
  Cases <- MCCases
  Faults = {"connect", "headers", "send", "short", "command"}
  PageSize = 3
  SizeMod = 256
  MaxRecv = 2
INVARIANTS
  QueuedIntact
  ReplayedUntilPageEnd
PROPERTIES
  EventuallyForwarded
CHECK_DEADLOCK FALSE
