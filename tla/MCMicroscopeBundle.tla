-------------------------- MODULE MCMicroscopeBundle --------------------------
(* Small instances of the microscope files for TLC. *)
EXTENDS MicroscopeBundle, TLC

\* All cells have one hash: their microscopes share the names of their files.
Colliding == [c \in CellId |-> "h"]
BundleSymmetry == Permutations(CellId) \cup Permutations(Source)
=============================================================================
