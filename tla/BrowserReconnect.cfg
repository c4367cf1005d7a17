SPECIFICATION Spec
CONSTANTS
  MaxConns = 2
  MaxOutput = 1
  MaxControl = 0
  MaxKeys = 1
  Faults = {"blocked", "refused", "lost", "garbage", "corrupt", "early ack"}
INVARIANTS
  StatusIsTrue
CHECK_DEADLOCK FALSE
