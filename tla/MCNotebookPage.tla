---------------------------- MODULE MCNotebookPage ----------------------------
(* Small instances of the notebook page for TLC. *)
EXTENDS NotebookPage, TLC

Session(gestures, opened, commands, changes) ==
  [gestures |-> gestures, opened |-> opened, commands |-> commands, changes |-> changes]

\* Which gestures, and how many, come together.
Writing == Session({"type", "save", "insert", "delete", "undo", "reconnect"}, 1, 3, 0)
Tools == Session({"type", "save", "tool", "foreign"}, 1, 4, 1)
Execution == Session({"type", "run", "insert", "interrupt"}, 1, 3, 0)
Observing == Session({"type", "save", "observe"}, 1, 2, 4)
Menus == Session({"insert", "move", "kind", "replace", "clear", "duplicate", "paste", "undo",
                  "complete"}, 2, 3, 0)
Mixed == Session({"run", "tool", "insert", "reconnect"}, 1, 3, 0)
AllSessions == {Writing, Tools, Execution, Observing, Menus, Mixed}

CellSymmetry == Permutations(CellId)
=============================================================================
