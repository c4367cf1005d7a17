SPECIFICATION FairSpec
CONSTANTS
  Guests = {g1}
  Viewers = {}
  SshGuests = {}
  QueueDepth = 1
  RingBytes = 2
  Lengths = {1}
  Windows = {}
  MaxFrames = 2
  MaxTyped = 1
  Faults = {"host lost", "close all", "guest lost", "guest closes", "send fails"}
INVARIANTS
  EndReachesEveryone
PROPERTIES
  GuestsAreReleased
CHECK_DEADLOCK FALSE
