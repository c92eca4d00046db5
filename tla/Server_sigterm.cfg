SPECIFICATION Spec
CONSTANTS
  c1 = c1
  c2 = c2
  d1 = d1
  NoOne = NoOne
  NoDb = NoDb
  Conns = {c1, c2}
  Domains = {d1}
  Scripts <- TextOnly
  MetaTable <- Meta0
  MaxRename = 3
  Faults = {"sigterm"}
  MaxRecv = 3
  MaxConns = 1
  MaxLuck = 2
PROPERTIES
  GracefulTermination
CHECK_DEADLOCK FALSE
