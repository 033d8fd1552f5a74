---------------------------- MODULE MicroscopeStore ----------------------------
(***************************************************************************)
(* What the gateway promises of microscopes: each is one thing, its         *)
(* reference in the notebook and its content, and a command changes it as a *)
(* whole or not at all.  MicroscopeBundle keeps it in several files that    *)
(* are written one by one.  The promise ends when a second request goes     *)
(* wrong or another program touches the files.                              *)
(***************************************************************************)
EXTENDS Naturals

CONSTANTS CellId, MicroscopeId, Walkthrough, MaxRevision

VARIABLES
  docs,   \* the microscopes of the notebook
  intact  \* the promise holds still

Doc(cell, id, rev, w) == [cell |-> cell, id |-> id, rev |-> rev, w |-> w]
Docs == [cell : CellId, id : MicroscopeId, rev : 0..MaxRevision, w : Walkthrough]

StoreInit == docs = {} /\ intact = TRUE

Create(d) ==
  /\ d.rev = 0
  /\ \A o \in docs : <<o.cell, o.id>> # <<d.cell, d.id>>
  /\ docs' = docs \cup {d}
SetWalkthrough(d, w) ==
  /\ d \in docs /\ d.rev < MaxRevision
  /\ docs' = (docs \ {d}) \cup {Doc(d.cell, d.id, d.rev + 1, w)}
Remove(d) == d \in docs /\ docs' = docs \ {d}

Kept == \E d \in Docs : Create(d) \/ Remove(d) \/ \E w \in Walkthrough : SetWalkthrough(d, w)
StoreNext ==
  \/ intact' /\ (UNCHANGED docs \/ Kept)
  \/ ~intact'
StoreSpec == StoreInit /\ [][StoreNext]_<<docs, intact>>
=============================================================================
