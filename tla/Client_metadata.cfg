SPECIFICATION Spec
CONSTANTS
  MPDefs <- MCMPDefs
  IllegalNames = {"c d"}
  Samples <- MCSamples
  Settings <- MCFileSettings
  FileURIs = {"file:f", "file:default"}
  BadURIs = {"none"}
INVARIANT MetadataSent
