\* One command of each kind, with a stop, a reload and an error of the storage.
CONSTANTS
  Command <- Commands
  MaxCache = 1
  Isolated = TRUE
  MaxRuns = 3
  MaxRequests = 7
  MaxStops = 1
  MaxReloads = 1
  MaxErrors = 1
SPECIFICATION FairSpec
CHECK_DEADLOCK FALSE
INVARIANTS RuntimeInv
PROPERTIES NeverStranded
