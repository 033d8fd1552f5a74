\* Several sessions of a user, each with its own gestures; one fault.
CONSTANTS
  CellId = {c1, c2, c3}
  Source = {s1, s2}
  Kind = {code, markdown}
  Ref = {}
  Code = code
  Keep = Keep
  MaxCells = 3
  MaxChanges = 3
  MaxRefs = 0
  Sessions <- AllSessions
  MaxFaults = 1
SPECIFICATION PageSpec
SYMMETRY CellSymmetry
CHECK_DEADLOCK FALSE
INVARIANTS  ShowsCommitted UndoApplies
PROPERTIES CommitsOnSeen QueueAdvances
