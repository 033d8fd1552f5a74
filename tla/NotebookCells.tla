----------------------------- MODULE NotebookCells -----------------------------
(***************************************************************************)
(* The cells of a notebook and what a modify_cells command does to them:   *)
(* how the replica and the gateway apply the changes (notebook-core), what *)
(* the protocol refuses (notebook-protocol), how the editor rewrites       *)
(* positions as neighbours and how it computes the inverse it keeps for    *)
(* undo (notebook-egui), and how an accepted proposal is merged into the   *)
(* notebook file (native/jupyter.rs).                                      *)
(*                                                                         *)
(* A cell is its id, its source, its type, the microscopes its metadata    *)
(* refers to and a token for its outputs (0: none).  Indices count from 0, *)
(* as in the code.                                                         *)
(***************************************************************************)
EXTENDS Integers, Sequences, SequencesExt

CONSTANTS
  CellId, Source, Kind, Ref,
  Code,        \* the kind that has outputs
  Keep,        \* a field an update leaves alone
  MaxCells,    \* cells of a notebook (2000)
  MaxChanges,  \* changes of one command (256)
  MaxRefs      \* microscopes of one cell (16)

ASSUME CellsAssumption ==
  /\ Code \in Kind
  /\ Keep \notin Source \cup Kind /\ \A refs \in SUBSET Ref : refs # Keep
  /\ Source # {}
  /\ MaxCells \in Nat /\ MaxChanges \in Nat /\ MaxRefs \in Nat

NoOutput == 0
Cell == [id : CellId, src : Source, kind : Kind, refs : SUBSET Ref, out : Nat]

\* A cell that is new: the empty text, no outputs.
Start == CHOOSE s \in Source : TRUE
NewCell(id) == [id |-> id, src |-> Start, kind |-> Code, refs |-> {}, out |-> NoOutput]

InsertChange(index, cell) == [op |-> "insert", index |-> index, cell |-> cell]
InsertBeside(anchor, after, cell) ==
  [op |-> "insertRelative", anchor |-> anchor, after |-> after, cell |-> cell]
UpdateChange(id, src, kind, refs) ==
  [op |-> "update", id |-> id, src |-> src, kind |-> kind, refs |-> refs]
DeleteChange(id) == [op |-> "delete", id |-> id]
MoveChange(id, index) == [op |-> "move", id |-> id, index |-> index]
MoveBeside(id, anchor, after) ==
  [op |-> "moveRelative", id |-> id, anchor |-> anchor, after |-> after]
ClearChange(id) == [op |-> "clearOutputs", id |-> id]

-----------------------------------------------------------------------------
(* Reading a list of cells. Lookups find the first cell with an id: nothing *)
(* in the code forbids that there are two.                                  *)

Ids(cells) == {cells[i].id : i \in DOMAIN cells}
PositionOf(cells, id) == SelectInSeq(cells, LAMBDA c : c.id = id)
CellOf(cells, id) == cells[PositionOf(cells, id)]
Lesser(m, n) == IF m < n THEN m ELSE n

\* The elements of a list that are in a set, in their order (filter, retain).
Only(list, kept) == FoldLeft(LAMBDA r, x : IF x \in kept THEN Append(r, x) ELSE r, <<>>, list)

Without(cells, id) == RemoveAt(cells, PositionOf(cells, id))

-----------------------------------------------------------------------------
(* apply_optimistic_changes *)

\* Insert at an index, which an index past the end leaves at the end.
Put(list, index, item) == InsertAt(list, Lesser(index, Len(list)) + 1, item)

Beside(cells, anchor, after, cell) ==
  InsertAt(cells, PositionOf(cells, anchor) + (IF after THEN 1 ELSE 0), cell)

Chosen(new, old) == IF new = Keep THEN old ELSE new

Rewritten(cell, ch) ==
  [cell EXCEPT !.src = Chosen(ch.src, @), !.kind = Chosen(ch.kind, @),
               !.refs = Chosen(ch.refs, @)]

\* The cells a change names; it fails when one of them is not there.
Named(ch) ==
  CASE ch.op = "insert" -> {}
    [] ch.op = "insertRelative" -> {ch.anchor}
    [] ch.op = "moveRelative" -> {ch.id, ch.anchor}
    [] OTHER -> {ch.id}

Effect(cells, ch) ==
  CASE ch.op = "insert" -> Put(cells, ch.index, ch.cell)
    [] ch.op = "insertRelative" -> Beside(cells, ch.anchor, ch.after, ch.cell)
    [] ch.op = "update" ->
         [cells EXCEPT ![PositionOf(cells, ch.id)] = Rewritten(@, ch)]
    [] ch.op = "delete" -> Without(cells, ch.id)
    [] ch.op = "move" -> Put(Without(cells, ch.id), ch.index, CellOf(cells, ch.id))
    [] ch.op = "moveRelative" ->
         Beside(Without(cells, ch.id), ch.anchor, ch.after, CellOf(cells, ch.id))
    [] ch.op = "clearOutputs" ->
         [cells EXCEPT ![PositionOf(cells, ch.id)].out = NoOutput]

\* All changes in order; the first that fails refuses the command.
ApplyOne(r, ch) ==
  IF r.ok /\ Named(ch) \subseteq Ids(r.cells)
  THEN [r EXCEPT !.cells = Effect(@, ch)] ELSE [r EXCEPT !.ok = FALSE]
Apply(cells, changes) == FoldLeft(ApplyOne, [ok |-> TRUE, cells |-> cells], changes)

-----------------------------------------------------------------------------
(* What the protocol refuses. *)

\* validate_mutation
WellFormed(ch) ==
  /\ ch.op = "moveRelative" => ch.id # ch.anchor
  /\ ch.op \in {"insert", "insertRelative"} => Cardinality(ch.cell.refs) <= MaxRefs

\* validate_command, of the changes of a modify_cells
ValidChanges(changes) ==
  /\ Len(changes) \in 1..MaxChanges
  /\ \A i \in DOMAIN changes : WellFormed(changes[i])

\* validate_snapshot
ValidCells(cells) ==
  /\ Len(cells) <= MaxCells
  /\ \A i \in DOMAIN cells : Cardinality(cells[i].refs) <= MaxRefs

\* Jupyter::snapshot, which reading and saving a notebook go through: what the
\* gateway serves and stores has no two cells with one id.
UniqueIds(cells) == \A i, j \in DOMAIN cells : cells[i].id = cells[j].id => i = j
Storable(cells) == ValidCells(cells) /\ UniqueIds(cells)

\* Mutant: only the cells there were before are compared.
PreservesOld(before, after) ==
  \A i \in DOMAIN before :
    before[i].refs = IF before[i].id \in Ids(after)
                     THEN CellOf(after, before[i].id).refs ELSE {}

\* microscope::preserve_references: ordinary changes neither forge, copy nor
\* orphan a microscope.
PreservesReferences(before, after) ==
  /\ \A i \in DOMAIN before :
       before[i].refs = IF before[i].id \in Ids(after)
                        THEN CellOf(after, before[i].id).refs ELSE {}
  /\ \A i \in DOMAIN after : after[i].id \notin Ids(before) => after[i].refs = {}

\* NotebookState::prepare of modify_cells.
Proposal(cells, changes) ==
  LET applied == Apply(cells, changes) IN
  [ok |-> /\ ValidChanges(changes) /\ applied.ok
          /\ PreservesReferences(cells, applied.cells),
   cells |-> applied.cells]

-----------------------------------------------------------------------------
(* What the editor derives from its own snapshot. *)

\* move_index_for_drop: the index of a move that drops the cell at `source` on
\* one side of the cell at `hovered`.
DropIndex(source, hovered, before) ==
  LET boundary == IF before THEN hovered ELSE hovered + 1
  IN IF source < boundary THEN boundary - 1 ELSE boundary

\* The neighbour an index names, and on which side of it.
Anchor(ids, index) == <<ids[Lesser(index + 1, Len(ids))], index = Len(ids)>>

\* Mutant: the positions of the editor's snapshot are sent as they are.
AnchoredNot(cells, changes) == changes

\* anchor_cell_changes: positions become neighbours, so that they still mean
\* the same place when other changes were committed in the meantime.
Track(r, ch) ==
  CASE ch.op = "insert" ->
         LET at == Lesser(ch.index, Len(r.ids))
             a == Anchor(r.ids, at)
         IN [ids |-> Put(r.ids, at, ch.cell.id),
             out |-> Append(r.out, IF r.ids = <<>> THEN ch
                                   ELSE InsertBeside(a[1], a[2], ch.cell))]
    [] ch.op = "move" /\ Contains(r.ids, ch.id) ->
         LET rest == RemoveFirst(r.ids, ch.id)
             at == Lesser(ch.index, Len(rest))
             a == Anchor(rest, at)
         IN [ids |-> Put(rest, at, ch.id),
             out |-> Append(r.out, IF rest = <<>> THEN ch
                                   ELSE MoveBeside(ch.id, a[1], a[2]))]
    [] ch.op = "delete" ->
         [ids |-> Only(r.ids, ToSet(r.ids) \ {ch.id}), out |-> Append(r.out, ch)]
    [] OTHER -> [r EXCEPT !.out = Append(@, ch)]
Listed(cells) == [i \in DOMAIN cells |-> cells[i].id]
Anchored(cells, changes) == FoldLeft(Track, [ids |-> Listed(cells), out |-> <<>>], changes).out

\* The change that takes `ch` back, on the cells it is about to change.
Former(new, old) == IF new = Keep THEN Keep ELSE old
InverseOf(cells, ch) ==
  CASE ch.op = "insert" -> DeleteChange(ch.cell.id)
    [] ch.op = "update" ->
         LET old == CellOf(cells, ch.id) IN
         UpdateChange(ch.id, Former(ch.src, old.src), Former(ch.kind, old.kind),
                      Former(ch.refs, old.refs))
    [] ch.op = "delete" ->
         InsertChange(PositionOf(cells, ch.id) - 1, CellOf(cells, ch.id))
    [] ch.op = "move" -> MoveChange(ch.id, PositionOf(cells, ch.id) - 1)

Invertible == {"insert", "update", "delete", "move"}

\* Mutant: the inverses are kept in the order of the changes.
CollectUnreversed(r, ch) ==
  IF r.ok /\ ch.op \in Invertible /\ Named(ch) \subseteq Ids(r.cells)
  THEN [r EXCEPT !.cells = Effect(@, ch), !.inverse = Append(@, InverseOf(r.cells, ch))]
  ELSE [r EXCEPT !.ok = FALSE]

\* inverse_cell_changes: the inverses of the changes, the last one first; none
\* when a change has none or names a cell the editor does not know.
Collect(r, ch) ==
  IF r.ok /\ ch.op \in Invertible /\ Named(ch) \subseteq Ids(r.cells)
  THEN [ok |-> TRUE, cells |-> Effect(r.cells, ch),
        inverse |-> <<InverseOf(r.cells, ch)>> \o r.inverse]
  ELSE [r EXCEPT !.ok = FALSE]
Inverted(cells, changes) ==
  LET all == FoldLeft(Collect, [ok |-> TRUE, cells |-> cells, inverse |-> <<>>], changes)
  IN [ok |-> all.ok, changes |-> all.inverse]

-----------------------------------------------------------------------------
\* Mutant: the outputs of the file are kept whatever the proposal says.
MergedStale(file, proposed) ==
  [i \in DOMAIN proposed |->
     [proposed[i] EXCEPT !.out = IF proposed[i].kind = Code /\ proposed[i].id \in Ids(file)
                                 THEN CellOf(file, proposed[i].id).out ELSE @]]

(* merge_cells: what the notebook file holds once a proposal is written: only *)
(* code cells have outputs, and those the file has are kept as they are.      *)
Merged(file, proposed) ==
  LET Kept(cell) ==
        IF cell.kind # Code \/ cell.out = NoOutput THEN NoOutput
        ELSE IF cell.id \in Ids(file) /\ CellOf(file, cell.id).kind = Code
             THEN CellOf(file, cell.id).out
        ELSE cell.out
  IN [i \in DOMAIN proposed |-> [proposed[i] EXCEPT !.out = Kept(proposed[i])]]
=============================================================================
