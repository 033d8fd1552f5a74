\* Two commands of any kind on two paths, while the driver comes and goes; three
\* changes of one notebook; one command of a driver that falls silent.
CONSTANTS
  Client = {c1}
  Path = {p1, p2}
  None = None
  Lease = 0
  MaxMembers = 1
  MaxRooms = 2
  MaxRedirects = 2
  MaxActive = 2
  Revision = {1, 2, 3, 4, 5, 6}
  Pollers = {}
  Command = {1, 2, 3}
  MaxLedger = 3
  MaxEmits = 2
  Kinds = {"Query", "Modify", "Execute", "Interrupt", "Restart", "Rename", "Setup"}
  Requests = {"join", "leave", "ask", "poll", "tick"}
  Existing = {p1}
  Pairs = 2
  Many = 3
SPECIFICATION MCSpec
CHECK_DEADLOCK FALSE
INVARIANTS DispatchInv AtMostOnce
PROPERTIES RefinesCollaboration RenameKeepsSubscriptions NoLostUpdate SnapshotsFollowWrites ExecutesOnKnownKernel AcceptedSettles
