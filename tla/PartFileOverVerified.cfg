SPECIFICATION Spec
CONSTANTS
  Blocks = {1, 2, 3}
  Parts = {1}
  PartOf <- PartOfThree
  BufferLimit = 1
  UseICH = TRUE
  MaxBad = 1
  MaxFaults = 0
  MaxCrashes = 0
  MaxImports = 0
PROPERTY NeverOverVerified
