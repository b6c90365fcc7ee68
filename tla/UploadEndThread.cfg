CONSTANTS
  c1 = c1
  c2 = c2
  shared = shared
  part = part
  Clients = {c1, c2}
  Paths = {shared, part}
  PartPaths = {part}
  NoPath = NoPath
  MaxQueue = 1
SPECIFICATION Spec
PROPERTIES
  EndThreadReturns
CHECK_DEADLOCK FALSE
