--------------------------- MODULE MCPageOperations ---------------------------
(***************************************************************************)
(* Two parts of the editor that share no state, batches of cell changes and *)
(* completions, on small instances.  Only one of them moves.               *)
(***************************************************************************)
EXTENDS CellChanges, Completion, TLC

Init == ChangesInit /\ CompletionInit
Next ==
  \/ ChangesNext /\ CompletionInit /\ UNCHANGED completionVars
  \/ CompletionNext /\ base = <<>> /\ batch = <<>> /\ UNCHANGED changeVars
Spec == Init /\ [][Next]_<<changeVars, completionVars>>

CellSymmetry == Permutations(CellId)
=============================================================================
