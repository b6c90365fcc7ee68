CONSTANTS
  c1 = c1
  c2 = c2
  shared = shared
  part = part
  Clients = {c1, c2}
  Paths = {shared, part}
  PartPaths = {part}
  NoPath = NoPath
  MaxQueue = 2
SPECIFICATION Spec
INVARIANTS
  TypeOK
  ReadersAreCurrent
  SleeperIsNotified
PROPERTIES
  RequestsAreRead
CHECK_DEADLOCK FALSE
