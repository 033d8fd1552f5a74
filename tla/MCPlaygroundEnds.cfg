\* One client whose lease lapses, one playground, a change of the document,
\* deletions that fail.
CONSTANTS
  Client = {c1}
  Path = {p1}
  None = None
  Lease = 1
  MaxMembers = 1
  MaxRooms = 1
  MaxRedirects = 0
  MaxActive = 0
  Revision = {}
  Pollers = {}
  Command = {k1}
  Kinds = {"Execute"}
  Activities = {"time", "look", "close", "run", "edit"}
  MaxSeen = 1
  Expiry = 2
  MaxOpens = 1
  MaxUpdates = 1
  MaxEdits = 1
  Claimer = c1
SPECIFICATION FairPlaygroundSpec
CHECK_DEADLOCK FALSE
PROPERTIES PlaygroundsEnd
