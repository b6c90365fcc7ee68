SPECIFICATION Spec
CONSTANTS
  Peers = {p1}
  Rogues = {}
  Webs = {w}
  Offers <- MCOffers
  NParts = 1
  PartBlocks = 1
  BlockLen = 2
  LateCells = 1
  Counts = {1}
  Shorts = {1}
  PerPacket = 1
  BufferLimit = 0
  MaxUnmatched = 2
  MaxMishaps = 1
CHECK_DEADLOCK FALSE
INVARIANT HttpBlockAlive
