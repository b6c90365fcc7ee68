CONSTANTS
  c1 = c1
  f1 = f1
  f2 = f2
  b1 = b1
  b2 = b2
  Clients = {c1}
  Files = {f1}
  Blocks = {b1, b2}
  FileOf <- OneFile
  Limit = 1
  MaxPending = 2
  MaxDone = 2
  MaxDeliveries = 2
  MaxSlots = 1
  MaxRehomes = 1
  MaxFaults = 0
  MaxBadParts = 0
SPECIFICATION Spec
INVARIANT PayloadIsBuffered
INVARIANT DuplicateIsInFlight
