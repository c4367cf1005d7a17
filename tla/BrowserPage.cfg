SPECIFICATION Spec
CONSTANTS
  KeySize = 2
  Word = 16384
  Base = 16
  MaxPayloadLen = 32
  Roots <- MCRoots
  Misread <- MCMisread
  HostReads <- MCHostReads
  Pastes <- MCPastes
  Channels <- MCChannels
  Grids <- MCGrids
  Windows <- MCWindows
INVARIANTS
  KeyIsTheHosts
  TicketArrives
  PageFollowsURL
  ReadAsWritten
  FontNearlyBest
CHECK_DEADLOCK FALSE
