--------------------------- MODULE MCBrowserLeases ---------------------------
(* Small instances of the browser's notebook leases for TLC. *)
EXTENDS BrowserLeases, TLC

Symmetry == Permutations(Tab) \cup Permutations(Path)
=============================================================================
