SPECIFICATION Spec
CONSTANTS
  Sessions = {s1, s2}
  Requests = {r1, r2}
  Hosts = {h1, h2}
  Encrypting = {h1}
  Guests = {g1}
  SshGuests = {}
  MaxSessions = 1
  Events = {"expiry", "shutdown", "handshake fails"}
  None = None
INVARIANTS
  TypeOK
  CapHolds
  RegistryMatches
  NobodyLeftOnClosed
  FinishedSessionIsGone
SYMMETRY Symmetry
CHECK_DEADLOCK FALSE
