CONSTANTS
  MaxPackets = 3
  PacketLen = 2
  MaxQueue = 2
  OwnerLimit = 1
  BusyThreshold = 3
  KernelRoom = 2
SPECIFICATION Spec
INVARIANTS
  TypeOK
  StreamIntact
  SenderKeepsBuffer
PROPERTIES
  QueuedLeaves
CHECK_DEADLOCK FALSE
