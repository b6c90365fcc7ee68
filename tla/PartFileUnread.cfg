SPECIFICATION FairSpec
CONSTANTS
  Blocks = {1, 2}
  Parts = {1}
  PartOf <- PartOfTwo
  BufferLimit = 1
  UseICH = FALSE
  MaxBad = 1
  MaxFaults = 1
  MaxCrashes = 0
  MaxImports = 0
PROPERTY UnreadIsCheckedAgain
