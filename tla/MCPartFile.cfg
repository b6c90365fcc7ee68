SPECIFICATION Spec
CONSTANTS
  Blocks = {1, 2}
  Parts = {1}
  PartOf <- PartOfTwo
  BufferLimit = 1
  UseICH = TRUE
  MaxBad = 1
  MaxFaults = 1
  MaxCrashes = 1
  MaxImports = 0
INVARIANTS
  TypeOK
  ServeSafe
  MetSafe
  CompletesWhole
  ErrorIsResumable
PROPERTIES
  JudgedWhenWritable
