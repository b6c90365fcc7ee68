CONSTANTS
  f1 = f1
  u1 = u1
  v1 = v1
  FileSockets = {f1}
  ClientUDP = {u1}
  ServerUDP = {v1}
  SlotLimit = 1
  MaxBudget = 1
  MaxQueued = 1
  MaxEntries = 2
SPECIFICATION Spec
INVARIANTS
  TypeOK
  NoWorkStranded
  OnlyLiveSockets
PROPERTIES
  EverySocketIsServed
CHECK_DEADLOCK FALSE
