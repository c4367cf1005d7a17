SPECIFICATION FairSpec
CONSTANTS
  Sessions = {s1}
  Requests = {r1}
  Hosts = {h1, h2}
  Encrypting = {}
  Guests = {g1, g2}
  SshGuests = {g2}
  MaxSessions = 0
  Events = {"shutdown", "handshake fails"}
  None = None
PROPERTIES
  ShutdownCompletes
CHECK_DEADLOCK FALSE
