SPECIFICATION Spec
CONSTANTS
  Peers = {p1, p2}
  Rogues = {}
  Webs = {}
  Offers <- MCOffers
  NParts = 1
  PartBlocks = 1
  BlockLen = 3
  LateCells = 1
  Counts = {1}
  Shorts = {1}
  PerPacket = 1
  BufferLimit = 1
  MaxUnmatched = 2
  MaxMishaps = 1
CHECK_DEADLOCK FALSE
INVARIANT HonestAreNeverBlamed
