SPECIFICATION FairSpec
CONSTANTS
  Peers = {p1, p2}
  Rogues = {p2}
  Webs = {w}
  Offers <- MCOffers
  NParts = 1
  PartBlocks = 1
  BlockLen = 2
  LateCells = 1
  Counts = {1}
  Shorts = {}
  PerPacket = 1
  BufferLimit = 0
  MaxUnmatched = 2
  MaxMishaps = 1
CHECK_DEADLOCK FALSE
INVARIANTS
  TypeOK
  ReservationsAreOwned
  AtMostTwoHolders
  HonestAreNotBlamed
  IdleAwaitsVerdict
PROPERTIES
  DownloadEnds
