\* Batches of two changes on up to three cells; two completions in two editors.
SPECIFICATION Spec
CONSTANTS
  CellId = {c1, c2, c3, c4}
  Source = {s1, s2}
  Kind = {code, markdown}
  Ref = {r1}
  Code = code
  Keep = Keep
  MaxCells = 8
  MaxChanges = 4
  MaxRefs = 1
  MaxBatch = 2
  MaxBase = 3
  Field = {"a", "b"}
  Bytes = {1, 2}
  Match = 0
  MaxLength = 2
  MaxAsked = 2
CHECK_DEADLOCK FALSE
SYMMETRY CellSymmetry
INVARIANTS BatchInv IntentSurvives   ReplacesKernelRange
