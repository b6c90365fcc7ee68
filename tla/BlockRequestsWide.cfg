SPECIFICATION Spec
CONSTANTS
  Peers = {p1, p2}
  Rogues = {}
  Webs = {}
  Offers <- MCOffers
  NParts = 2
  PartBlocks = 1
  BlockLen = 2
  LateCells = 2
  Counts = {1, 2}
  Shorts = {1}
  PerPacket = 1
  BufferLimit = 1
  MaxUnmatched = 2
  MaxMishaps = 1
CHECK_DEADLOCK FALSE
INVARIANTS
  TypeOK
  ReservationsAreOwned
  AtMostTwoHolders
  HonestAreNotBlamed
  IdleAwaitsVerdict
