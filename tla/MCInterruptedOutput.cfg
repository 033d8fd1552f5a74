\* An interrupt that reads the notebook while an execution writes it.
CONSTANTS
  Client = {c1}
  Path = {p1}
  None = None
  Lease = 0
  MaxMembers = 1
  MaxRooms = 2
  MaxRedirects = 2
  MaxActive = 2
  Revision = {1, 2, 3, 4, 5, 6, 7, 8, 9}
  Pollers = {}
  Command = {1, 2}
  MaxLedger = 2
  MaxEmits = 2
  Kinds = {"Execute", "Interrupt"}
  Requests = {"join"}
  Existing = {p1}
  Pairs = 2
  Many = 2
SPECIFICATION MCSpec
PROPERTIES NoResurrection
CHECK_DEADLOCK FALSE
