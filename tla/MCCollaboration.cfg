\* Three clients of one notebook, leases of two ticks: who drives, and when.
CONSTANTS
  Client = {c1, c2, c3}
  Path = {p1, p2}
  None = None
  Lease = 1
  MaxMembers = 3
  MaxRooms = 2
  MaxRedirects = 1
  MaxActive = 1
  Revision = {1}
  Pollers = {c1}
  Third = c3
  First = p1
SPECIFICATION MCSpec
CHECK_DEADLOCK FALSE
INVARIANTS RolesInv UpToDateKnowsDriver
PROPERTIES  OldestSurvivorSucceeds LeaseHonoured SilentDriverReplaced
