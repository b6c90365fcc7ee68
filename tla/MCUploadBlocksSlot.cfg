CONSTANTS
  c1 = c1
  f1 = f1
  f2 = f2
  b1 = b1
  b2 = b2
  Clients = {c1}
  Files = {f1, f2}
  Blocks = {b1, b2}
  FileOf <- TwoFiles
  Limit = 2
  MaxPending = 2
  MaxDone = 1
  MaxDeliveries = 1
  MaxSlots = 1
  MaxRehomes = 0
  MaxFaults = 0
  MaxBadParts = 0
SPECIFICATION Spec
PROPERTIES
  SlotAccountsAreTrue
  ReadsAreSound
  AcceptedIsServed
