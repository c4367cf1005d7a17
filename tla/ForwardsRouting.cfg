SPECIFICATION Spec
CONSTANTS
  Guests = {g1, g2}
  Viewers = {}
  Channels = {c1}
  MaxChannels = 2
  QueueDepth = 1
  MaxForwards = 2
  MaxData = 0
  MaxWire = 1
  Faults = {"guest leaves"}
  NoGuest = NoGuest
  NoChannel = NoChannel
INVARIANTS
  RoutesMatch
  StoppedOnce
  NoCrossTalk
SYMMETRY Symmetry
CHECK_DEADLOCK FALSE
