SPECIFICATION Spec
CONSTANTS
  MPDefs <- MCMPDefs
  IllegalNames = {"c d"}
  Samples <- MCSamples
  Settings <- MCSettings
  FileURIs = {"file:f", "file:default"}
  BadURIs = {"none"}
INVARIANTS RowsAggregate RowsDeclared SamplesReported MemorySafe
PROPERTY SamplersStop
