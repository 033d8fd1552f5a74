---------------------------- MODULE NotebookEditor ----------------------------
(***************************************************************************)
(* The notebook editor (notebook-egui, NotebookEguiApp) as a data type: its *)
(* state is a record and each gesture of the user an operator on it.  A    *)
(* gesture emits commands; what the widget shows changes only when a       *)
(* snapshot arrives (replace_state).  Layout, selection, focus and colours *)
(* are left out: a gesture is given the cell it is about.                  *)
(*                                                                         *)
(*   cells, rev, sync  the state shown (NotebookState)                     *)
(*   editors           the text in the editor of each cell                 *)
(*   dirty             the cells whose text was not emitted yet            *)
(*   undo, redo        batches of changes                                  *)
(*   outbound          commands emitted in this frame                      *)
(*   readOnly          another client drives, or the connection is lost    *)
(*   busy              a tool transaction runs (external_command_active)   *)
(***************************************************************************)
EXTENDS NotebookReplica

NoCell == "no cell"

Texts(cells) == [id \in Ids(cells) |-> CellOf(cells, id).src]
NewEditor(snap, readOnly) ==
  [cells |-> snap.cells, rev |-> snap.rev, sync |-> "Synchronized",
   editors |-> Texts(snap.cells), dirty |-> {}, undo |-> <<>>, redo |-> <<>>,
   outbound |-> <<>>, readOnly |-> readOnly, busy |-> FALSE]

\* Buttons are enabled when nothing is pending.
Idle(e) == e.sync \notin Busy
\* external_commands_ready
ReadyForTools(e) == e.dirty = {} /\ Idle(e)

-----------------------------------------------------------------------------
(* emit: a read-only page emits nothing. A batch with an inverse is recorded *)
(* for undo (unless it is itself an undo or redo), and sent by neighbours.   *)
EmitAs(e, record, kind, changes, cell) ==
  LET inverse == Inverted(e.cells, changes)
      recorded == record /\ kind = "modify" /\ inverse.ok
      cmd == [by |-> "user", kind |-> kind, changes |-> Anchored(e.cells, changes),
              cell |-> cell, expected |-> e.rev, n |-> 0]
  IN IF e.readOnly THEN e
     ELSE [e EXCEPT !.undo = IF recorded THEN Append(@, inverse.changes) ELSE @,
                    !.redo = IF recorded THEN <<>> ELSE @,
                    !.outbound = Append(@, cmd)]
Modify(e, changes) == EmitAs(e, TRUE, "modify", changes, NoCell)
Command(e, kind, cell) == EmitAs(e, TRUE, kind, <<>>, cell)

\* What a keystroke, a completion or the replace dialog puts into an editor.
Write(e, id, text) == [e EXCEPT !.editors[id] = text, !.dirty = @ \cup {id}]

\* flush_editor
Flush(e, id) ==
  IF id \notin e.dirty THEN e
  ELSE Modify([e EXCEPT !.dirty = @ \ {id}],
              <<UpdateChange(id, e.editors[id], CellOf(e.cells, id).kind, Keep)>>)

\* save_visible_edits: also what autosave does.
SaveEdits(e) == FoldLeft(LAMBDA f, cell : Flush(f, cell.id), e, e.cells)

InsertCell(e, index, cell) == Modify(e, <<InsertChange(index, cell)>>)
IndexOf(e, id) == PositionOf(e.cells, id) - 1
\* insert_cell_after_selection
InsertBelow(e, id, cell) == InsertCell(Flush(e, id), IndexOf(e, id) + 1, cell)
\* duplicate_selected
Duplicate(e, id, newId) ==
  InsertBelow(e, id, [id |-> newId, src |-> e.editors[id], kind |-> CellOf(e.cells, id).kind,
                      refs |-> {}, out |-> NoOutput])
\* delete_selected, cut_selected
DeleteCell(e, id) == Modify(Flush(e, id), <<DeleteChange(id)>>)
\* paste_below_selected of a copied cell
Paste(e, id, copied, newId) ==
  InsertCell(e, IndexOf(e, id) + 1, [copied EXCEPT !.id = newId, !.out = NoOutput])
\* move_selected, and a drop
MoveCell(e, id, index) ==
  IF IndexOf(e, id) = index THEN e ELSE Modify(Flush(e, id), <<MoveChange(id, index)>>)
\* set_selected_cell_type
SetKind(e, id, kind) ==
  IF CellOf(e.cells, id).kind = kind THEN e
  ELSE Modify(Flush(e, id), <<UpdateChange(id, e.editors[id], kind, Keep)>>)
\* clear_all_outputs
ClearAll(e) ==
  LET code == Only(e.cells, {c \in ToSet(e.cells) : c.kind = Code})
  IN IF code = <<>> THEN e
     ELSE Modify(e, [i \in DOMAIN code |-> ClearChange(code[i].id)])
\* replace_all of one text by another; the editors are not marked dirty.
ReplaceText(e, old, new) ==
  LET hit == Only(e.cells, {c \in ToSet(e.cells) : e.editors[c.id] = old})
      shown == [e EXCEPT !.editors = [id \in DOMAIN @ |-> IF @[id] = old THEN new ELSE @[id]]]
  IN IF hit = <<>> THEN e
     ELSE Modify(shown, [i \in DOMAIN hit |-> UpdateChange(hit[i].id, new, Keep, Keep)])
\* execute_selected, execute_cell
Run(e, id) ==
  LET f == Flush(e, id)
  IN IF CellOf(e.cells, id).kind = Code THEN Command(f, "execute", id) ELSE f

\* Mutant: the batch that is replayed stays on its stack.
ReplayKeeps(e, undoing) ==
  LET from == IF undoing THEN e.undo ELSE e.redo
  IN IF from = <<>> THEN e ELSE EmitAs(e, FALSE, "modify", Last(from), NoCell)

\* replay_history: the batch on top of one stack is emitted, its inverse on the
\* cells shown now, or an empty batch, is pushed on the other.
Replay(e, undoing) ==
  LET from == IF undoing THEN e.undo ELSE e.redo
      changes == Last(from)
      inverse == Inverted(e.cells, changes)
      back == IF inverse.ok THEN inverse.changes ELSE <<>>
      f == IF undoing THEN [e EXCEPT !.undo = Front(@), !.redo = Append(@, back)]
           ELSE [e EXCEPT !.redo = Front(@), !.undo = Append(@, back)]
  IN IF from = <<>> THEN e ELSE EmitAs(f, FALSE, "modify", changes, NoCell)

-----------------------------------------------------------------------------
(* What the page tells the editor. *)

\* The state a command puts the editor in when the frame is over.
Marked(sync, kind) ==
  CASE kind = "execute" -> "Executing"
    [] kind = "complete" -> sync
    [] OTHER -> "Dirty"
\* drain_commands in MountedApp::update
Drained(e) ==
  [e EXCEPT !.outbound = <<>>,
            !.sync = FoldLeft(LAMBDA sync, cmd : Marked(sync, cmd.kind), @, e.outbound)]

\* replace_state: every editor shows the snapshot's text.
ReplaceState(e, snap, sync) ==
  [e EXCEPT !.cells = snap.cells, !.rev = snap.rev, !.sync = sync,
            !.editors = Texts(snap.cells), !.dirty = {}]

\* A snapshot older than the one shown is refused, and nothing changes.
ShowSnapshot(e, snap, sync) == IF snap.rev < e.rev THEN e ELSE ReplaceState(e, snap, sync)

\* set_visible_error
ShowError(e, sync) == [e EXCEPT !.sync = sync]
=============================================================================
