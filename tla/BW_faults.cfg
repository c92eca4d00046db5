SPECIFICATION Spec
CONSTANTS
  w1 = w1
  w2 = w2
  Reader = Reader
  NoOne = NoOne
  Writers = {w1}
  FilterThreads = {}
  Schema0 = {}
  NChunks = 2
  TargetSize = 3
  HeaderLines = 1
  Oom = {"start", "cols", "end"}
  Spurious = TRUE
  EarlyRows = FALSE
  Signals = TRUE
  MaxMsgs = 4
  MaxLuck = 3
  BackoffMod = 256
  StreamKinds = {"net", "file"}
  Faults = {"refused", "closed", "short"}
INVARIANTS
  NothingVanishes
  FifoUntilLoss
  DrainedUntilLoss
  LossesReported
  WellFramed
CHECK_DEADLOCK FALSE
