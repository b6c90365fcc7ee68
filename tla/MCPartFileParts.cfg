SPECIFICATION Spec
CONSTANTS
  Blocks = {1, 2, 3}
  Parts = {1, 2}
  PartOf <- PartOfTwoOne
  BufferLimit = 1
  UseICH = TRUE
  MaxBad = 1
  MaxFaults = 0
  MaxCrashes = 1
  MaxImports = 1
INVARIANT VerdictsAreTrue
