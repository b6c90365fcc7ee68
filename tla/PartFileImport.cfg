SPECIFICATION FairSpec
CONSTANTS
  Blocks = {1, 2}
  Parts = {1, 2}
  PartOf <- PartOfTwoTwo
  BufferLimit = 1
  UseICH = TRUE
  MaxBad = 0
  MaxFaults = 0
  MaxCrashes = 0
  MaxImports = 1
PROPERTY GaplessCompletes
