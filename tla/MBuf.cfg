SPECIFICATION Spec
CONSTANTS
  Byte = {1, 2}
  InitLength = 2
  MinResize = 2
  MaxLength = 6
  MaxWrite = 2
INVARIANTS
  Inv
PROPERTIES
  ReaderRefinement
  WriterRefinement
