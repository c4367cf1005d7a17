SPECIFICATION FairSpec
CONSTANTS
  MaxChannels = 1
  InitialWindow = 2
  Chunks = {1, 2}
  GuestBytes = 1
  HostBytes = 3
  QueueDepth = 2
  SenderDepth = 2
  Faults = {"refused", "eof", "detach", "guest lost", "share ends"}
INVARIANTS
  TypeOK
  CreditKept
  EofComesLast
  EndReachesBoth
PROPERTIES
  SendersGoOn
CHECK_DEADLOCK FALSE
