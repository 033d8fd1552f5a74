------------------------------ MODULE CellChanges ------------------------------
(***************************************************************************)
(* Every short batch of cell changes over every small notebook: the batch  *)
(* grows one change at a time, as the editor's commands build it, and each *)
(* reachable state is one input of the operators of NotebookCells.         *)
(***************************************************************************)
EXTENDS NotebookCells

CONSTANTS
  MaxBatch,   \* bound of the model: changes in one batch
  MaxBase     \* bound of the model: cells of the notebook it is made for

ASSUME ChangesAssumption == MaxBatch \in Nat /\ MaxBase \in Nat \ {0}

VARIABLES
  base,    \* the cells the editor shows
  batch,   \* the changes of one command, positions still absolute
  other    \* a change another client committed before the command arrives, or none

changeVars == <<base, batch, other>>

\* The microscopes of a cell, no more than its metadata may list.
Refs == {r \in SUBSET Ref : Cardinality(r) <= MaxRefs}

\* Notebooks of cells with different ids: every cell has been run, or the last
\* one varies in everything.
RunNotebooks ==
  UNION {{s \in [1..n -> [id : CellId, src : {Start}, kind : {Code}, refs : {{}}, out : {1}]] :
            UniqueIds(s)} : n \in 0..(MaxBase - 1)}
VariedNotebooks ==
  {c \in {Append(s, last) :
       s \in [1..(MaxBase - 1) -> [id : CellId, src : Source, kind : {Code}, refs : {{}}, out : {NoOutput}]],
       last \in [id : CellId, src : {Start}, kind : Kind, refs : Refs, out : {NoOutput}]} :
     UniqueIds(c)}
Notebooks == RunNotebooks \cup VariedNotebooks

\* The ids a batch has brought into the notebook; a new cell gets a fresh id.
Inserted(changes) == {changes[i].cell.id : i \in {j \in DOMAIN changes : changes[j].op = "insert"}}
Known == Ids(base) \cup Inserted(batch)

AtPositions ==
  {InsertChange(i, NewCell(id)) : i \in 0..(Len(base) + 1), id \in CellId \ Known}
  \cup {MoveChange(id, i) : i \in 0..Len(base), id \in Known}
InPlace ==
  {UpdateChange(id, s, k, Keep) : id \in Known, s \in Source \cup {Keep}, k \in Kind \cup {Keep}}
  \cup {UpdateChange(id, Keep, Keep, r) : id \in Known, r \in Refs}
  \cup {DeleteChange(id) : id \in Known} \cup {ClearChange(id) : id \in Known}

ChangesInit == base \in Notebooks /\ batch = <<>> /\ other = <<>>

Extend ==
  /\ Len(batch) < MaxBatch /\ other = <<>>
  /\ \E ch \in AtPositions \cup InPlace : batch' = Append(batch, ch)
  /\ UNCHANGED <<base, other>>

\* Another client's insertion, deletion or move is committed first.
Overtake ==
  /\ other = <<>> /\ Len(batch) = 1
  /\ \E ch \in AtPositions \cup {DeleteChange(id) : id \in Known} :
       /\ Apply(base, <<ch>>).ok
       /\ other' = <<ch>>
  /\ UNCHANGED <<base, batch>>

ChangesNext == Extend \/ Overtake
ChangesSpec == ChangesInit /\ [][ChangesNext]_changeVars

-----------------------------------------------------------------------------
(* Properties. *)

ChangesTypeOK ==
  /\ base \in Notebooks
  /\ Len(batch) <= MaxBatch
  /\ LET r == Apply(base, batch) IN r.ok => \A i \in DOMAIN r.cells : r.cells[i] \in Cell

\* "Reversible insert, update, delete, and move history"
\* (docs/frontend-parity.md): whenever the editor keeps an inverse the batch
\* applies, and the inverse brings back the very same cells; the inverse of an
\* accepted batch is accepted.
InverseRestores ==
  LET inverse == Inverted(base, batch)
      after == Apply(base, batch)
  IN inverse.ok =>
       /\ after.ok
       /\ Apply(after.cells, inverse.changes) = [ok |-> TRUE, cells |-> base]
       /\ batch # <<>> /\ Proposal(base, batch).ok =>
            Proposal(after.cells, inverse.changes).ok

\* Nothing undoable is forgotten: a batch of insertions, updates, deletions
\* and moves that is accepted has an inverse.
AcceptedIsInvertible ==
  (Apply(base, batch).ok /\ \A i \in DOMAIN batch : batch[i].op # "clearOutputs")
  => Inverted(base, batch).ok

\* Replacing positions by neighbours does not change what a batch means for
\* the cells it was made for, over all of a batch's intermediate lists.
AnchoringAgrees == Apply(base, Anchored(base, batch)) = Apply(base, batch)

\* "Capture positional intent when the UI emits it" (notebook-egui): a cell put
\* next to a neighbour is put next to that neighbour even when another client
\* changed the list first; if the neighbour is gone the command is refused.
Neighbours(cells, id) ==
  {cells[i].id : i \in {PositionOf(cells, id) - 1, PositionOf(cells, id) + 1} \cap DOMAIN cells}
IntentSurvives ==
  (other # <<>> /\ batch[1].op \in {"insert", "move"} /\ Len(base) > 1) =>
    LET placed == IF batch[1].op = "insert" THEN batch[1].cell.id ELSE batch[1].id
        now == Apply(base, other).cells
        shown == Apply(base, batch)
        result == Apply(now, Anchored(base, batch))
    IN (shown.ok /\ result.ok /\ placed \notin Inserted(other)) =>
         Neighbours(result.cells, placed) \cap Neighbours(shown.cells, placed) # {}

\* A dragged cell is dropped on the side of the cell under the pointer that the
\* editor shows, upwards and downwards, also with a batch already pending.
DropLandsBeside ==
  LET cells == Apply(base, batch).cells
      At(i) == cells[i + 1].id
  IN (Apply(base, batch).ok /\ UniqueIds(cells)) =>
       \A s, h \in 0..(Len(cells) - 1), before \in BOOLEAN : s # h =>
         LET moved == Effect(cells, MoveChange(At(s), DropIndex(s, h, before)))
         IN PositionOf(moved, At(s)) = PositionOf(moved, At(h)) + (IF before THEN -1 ELSE 1)

\* A batch of the editor's commands never makes two cells share an id.
BatchKeepsIdsUnique ==
  LET r == Apply(base, Anchored(base, batch)) IN r.ok => UniqueIds(r.cells)

\* What the editor, the replica and the gateway each make of a batch, on their
\* own copies of the cells, is the same and can be undone.
BatchInv ==
  /\ ChangesTypeOK /\ InverseRestores /\ AcceptedIsInvertible
  /\ AnchoringAgrees /\ DropLandsBeside /\ BatchKeepsIdsUnique

\* "Ordinary cell edits cannot forge references or orphan sidecars" (the comment
\* of preserve_references, microscope.rs). Whatever a batch inserts, deletes, rewrites
\* and inserts again, an accepted one leaves each microscope with its cell.
Owners(cells) == UNION {{<<r, cells[i].id>> : r \in cells[i].refs} : i \in DOMAIN cells}
MicroscopesStayPut ==
  LET result == Proposal(base, batch) IN result.ok => Owners(result.cells) = Owners(base)

\* A cell that is not code loses its outputs when a proposal is written, and
\* one that is code never has outputs that neither file nor proposal had; an
\* edit alone brings back no outputs that were cleared.
MergeKeepsOutputs ==
  LET result == Proposal(base, batch)
      file == Merged(base, result.cells)
  IN result.ok =>
       \A i \in DOMAIN file :
         /\ file[i].kind # Code => file[i].out = NoOutput
         /\ ClearChange(file[i].id) \in ToSet(batch) => file[i].out = NoOutput
         /\ file[i].out # result.cells[i].out => file[i].id \in Ids(base)
=============================================================================
