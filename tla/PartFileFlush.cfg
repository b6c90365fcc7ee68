SPECIFICATION Spec
CONSTANTS
  Blocks = {1, 2}
  Parts = {1}
  PartOf <- PartOfTwo
  BufferLimit = 1
  UseICH = TRUE
  MaxBad = 0
  MaxFaults = 0
  MaxCrashes = 0
  MaxImports = 0
PROPERTY CancelLeavesNoFiles
PROPERTY FlushLeavesNothingInFlight
