\* Two tabs open, write and rename notebooks; one dies.
CONSTANTS
  Tab = {t1, t2}
  Path = {p1, p2}
  NoTab = NoTab
  Absent = Absent
  MaxOpens = 4
  MaxWrites = 2
  MaxRenames = 2
  MaxDeaths = 1
SPECIFICATION LeaseSpec
SYMMETRY Symmetry
CHECK_DEADLOCK FALSE
INVARIANTS LeaseInv
PROPERTIES NoConflictingWrites
