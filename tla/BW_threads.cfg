SPECIFICATION FairSpec
CONSTANTS
  w1 = w1
  w2 = w2
  Reader = Reader
  NoOne = NoOne
  Writers = {w1, w2}
  FilterThreads = {w2}
  Schema0 = {w2}
  NChunks = 3
  TargetSize = 3
  HeaderLines = 1
  Oom = {}
  Spurious = FALSE
  EarlyRows = FALSE
  Signals = FALSE
  MaxMsgs = 5
  MaxLuck = 1
  BackoffMod = 256
  StreamKinds = {"net"}
  Faults = {"refused", "closed"}
INVARIANTS
  NeverDropWhileReading
  DrainIsExclusive
  LockDiscipline
  MetadataReplayed
PROPERTIES
  WritersKeepCommitted
  CloseReturnsUnlessSignalMissed
CHECK_DEADLOCK FALSE
