SPECIFICATION Spec
CONSTANTS
  Conns = {c1, c2}
  c1 = c1
  c2 = c2
  L = L
  Owner = "server"
  Faults = {"reset", "refused", "invalid", "notsock", "accept", "protocol", "sigterm", "stop"}
  Timeout = 1
  Period = 2
  MaxRecv = 1
  Cases <- MCCases
  MaxTime = 3
  MaxLuck = 1
INVARIANTS
  ChannelMemory
PROPERTIES
  ConnectionsBehave
  IdleMeansSilent
  PeerCloseNoticed
  StopsUnlessMissed
CHECK_DEADLOCK FALSE
