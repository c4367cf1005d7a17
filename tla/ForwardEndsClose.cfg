SPECIFICATION FairSpec
CONSTANTS
  MaxChannels = 1
  InitialWindow = 1
  Chunks = {1}
  GuestBytes = 1
  HostBytes = 1
  QueueDepth = 4
  SenderDepth = 4
  Faults = {"refused", "detach"}
PROPERTIES
  CloseReturns
CHECK_DEADLOCK FALSE
