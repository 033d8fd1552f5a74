\* Two cells whose files have the same names; every request may go wrong.
CONSTANTS
  CellId = {c1, c2}
  MicroscopeId = {m1}
  Locator <- Colliding
  Artifact = {a1, a2}
  Source = {s1, s2}
  Absent = Absent
  Alien = Alien
  MaxItems = 1
  MaxRevision = 2
  MaxFaults = 3
  MaxForeign = 1
SPECIFICATION Spec
SYMMETRY BundleSymmetry
INVARIANTS BundleInv
PROPERTIES OthersKept ImplementsStore
