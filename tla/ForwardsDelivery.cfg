SPECIFICATION FairSpec
CONSTANTS
  Guests = {g1}
  Viewers = {}
  Channels = {c1}
  MaxChannels = 1
  QueueDepth = 1
  MaxForwards = 1
  MaxData = 3
  MaxWire = 1
  Faults = {"host breaks", "bridge closes", "guest write", "guest leaves"}
  NoGuest = NoGuest
  NoChannel = NoChannel
INVARIANTS
  TypeOK
  InOrder
  EndedIsToldToHost
  StoppedIsFlushed
  HostReaderNeverWaits
PROPERTIES
  WritersEnd
CHECK_DEADLOCK FALSE
