SPECIFICATION Spec
CONSTANTS
  Guests = {v1}
  Viewers = {v1}
  SshGuests = {v1}
  QueueDepth = 2
  RingBytes = 2
  Lengths = {0, 1, 3}
  Windows = {1}
  MaxFrames = 3
  MaxTyped = 0
  Faults = {}
INVARIANTS
  TypeOK
  RingIsRecent
  NoGap
  SizeAgrees
PROPERTIES
  ImplementsTerminal
CHECK_DEADLOCK FALSE
