CONSTANTS
  MaxPackets = 2
  PacketLen = 2
  MaxQueue = 2
  OwnerLimit = 1
  BusyThreshold = 3
  KernelRoom = 2
SPECIFICATION Spec
CHECK_DEADLOCK FALSE
INVARIANT DescriptorIsOwn
PROPERTY QueuesAreLocked
