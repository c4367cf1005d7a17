SPECIFICATION Spec
CONSTANTS
  Sessions = {s1}
  Requests = {r1}
  Hosts = {h1, h2}
  Encrypting = {}
  Guests = {}
  SshGuests = {}
  MaxSessions = 0
  Events = {}
  None = None
PROPERTIES
  DeleteLeavesNothingToJoin
CHECK_DEADLOCK FALSE
