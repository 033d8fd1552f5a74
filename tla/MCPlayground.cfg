\* One client and two commands, two playgrounds; or a second client that claims.
CONSTANTS
  Client = {c1, c2}
  Path = {p1}
  None = None
  Lease = 0
  MaxMembers = 2
  MaxRooms = 1
  MaxRedirects = 0
  MaxActive = 0
  Revision = {}
  Pollers = {}
  Command = {1, 2}
  Kinds = {"Modify", "Execute", "Interrupt"}
  Activities = {"close", "run", "claim", "edit"}
  MaxSeen = 2
  Expiry = 0
  MaxOpens = 2
  MaxUpdates = 1
  MaxEdits = 1
  Claimer = c2
SPECIFICATION MCSpec
CHECK_DEADLOCK FALSE
INVARIANTS PlaygroundInv
PROPERTIES PlaygroundAdvances
