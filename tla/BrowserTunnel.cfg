SPECIFICATION FairSpec
CONSTANTS
  MaxConns = 1
  MaxOutput = 2
  MaxControl = 1
  MaxKeys = 2
  Faults = {"blocked", "refused", "lost", "garbage", "corrupt", "early ack"}
INVARIANTS
  TypeOK
  DrawnAsReceived
  KeysInOrder
  MismatchShowsNothing
  NarrowerWins
PROPERTIES
  ChainDrains
  EndIsTold
CHECK_DEADLOCK FALSE
