SPECIFICATION Spec
CONSTANTS
  c1 = c1
  c2 = c2
  d1 = d1
  NoOne = NoOne
  NoDb = NoDb
  Conns = {c1, c2}
  Domains = {d1}
  Scripts <- MCScripts
  MetaTable <- Meta0
  MaxRename = 3
  Faults = {"open", "create", "insert", "sender", "socket", "kill", "sigterm"}
  MaxRecv = 3
  MaxConns = 2
  MaxLuck = 2
INVARIANTS
  NoDanglingPointers
  RowsRebased
  RowsAttributed
PROPERTIES
  CommittedIsPermanent
SYMMETRY Slots
CHECK_DEADLOCK FALSE
