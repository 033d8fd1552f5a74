----------------------------- MODULE PageProofs -----------------------------
(***************************************************************************)
(* Proofs about a notebook page at work (NotebookPage), about completions  *)
(* in it (Completion), and about the leases under which the pages of a     *)
(* browser hold their notebooks (BrowserLeases), for any sessions, faults, *)
(* texts, tabs and bounds.  CellProofs has the lemmas on cells.            *)
(*                                                                         *)
(* First the page.  Its invariant says what the editor, the queue, the     *)
(* command under way and the gateway know of each other's revisions: each  *)
(* holds cells that were committed at the revision it claims, and nothing  *)
(* of a session outlives it.                                               *)
(*                                                                         *)
(* Then the history, whose batches say which cells they need and leave:    *)
(* while nothing failed, undo and redo can be replayed where the queue     *)
(* leads from the file.                                                    *)
(*                                                                         *)
(* Then completions: bytes of a text are counted by a fold as well.        *)
(*                                                                         *)
(* Last the leases.  A lease is live from the callback of its lock to its  *)
(* release.  The invariant says that every live lease and every granted    *)
(* one holds the lock of the path it was taken for, that a granted lease   *)
(* is nobody else's, and, as long as nothing was renamed, that every       *)
(* notebook is opened under a lease of its own path, and shows what is     *)
(* stored.                                                                 *)
(***************************************************************************)
EXTENDS NotebookPage, Completion, BrowserLeases, CellProofs

-----------------------------------------------------------------------------
(* The editor's folds: drafts that are emitted, and the state shown. *)

\* The editor e when the drafts of the cells in a list were emitted.
Flushed(e, cells) == FoldLeft(LAMBDA f, cell : Flush(f, cell.id), e, cells)

SavingChain(e, cells, n, V) ==
  \E chain \in [0..n -> V] :
    /\ chain[0] = e
    /\ chain[n] = Flushed(e, cells)
    /\ \A k \in 1..n : chain[k] = Flush(chain[k - 1], cells[k].id)

LEMMA SavedChain ==
  ASSUME NEW e, NEW cells, NEW n \in Nat, DOMAIN cells = 1..n, NEW V,
         e \in V,
         \A k \in 1..n : \A r \in V : Flush(r, cells[k].id) \in V
  PROVE  SavingChain(e, cells, n, V)
<1> DEFINE start == e
           Body(r, x) == Flush(r, x.id)
           step == [k \in 1..n |-> [r \in V |-> Body(r, cells[k])]]
           Eq(g) == g = [s \in SUBSET DOMAIN cells |->
                           IF s = {} THEN start
                           ELSE LET x == Max(s) IN Body(g[s \ {x}], cells[x])]
           iter == CHOOSE g : Eq(g)
<1>1. step \in [1..n -> [V -> V]] /\ start \in V
  OBVIOUS
<1>2. \A k \in 1..n : \A r \in V : step[k][r] = Body(r, cells[k])
  OBVIOUS
<1>3. \A s \in SUBSET (1..n) : s # {} => Max(s) \in 1..n /\ s \ {Max(s)} \in SUBSET (1..n)
  BY LastIndex
<1> HIDE DEF step, start, Body
<1>4. PICK h : h \in [SUBSET (1..n) -> V] /\ IsFold(h, n, V, start, step)
  BY <1>1, FoldExists
<1>5. \A s \in SUBSET (1..n) :
        h[s] = IF s = {} THEN start ELSE Body(h[s \ {Max(s)}], cells[Max(s)])
  BY <1>2, <1>3, <1>4 DEF IsFold
<1>6. Eq(h)
  BY <1>4, <1>5
<1> HIDE DEF Eq
<1>7. Eq(iter)
  BY <1>6
<1> HIDE DEF iter
<1>8. \A s \in SUBSET (1..n) :
        iter[s] = IF s = {} THEN start ELSE Body(iter[s \ {Max(s)}], cells[Max(s)])
  BY <1>7 DEF Eq
<1>9. IsFold(iter, n, V, start, step)
  BY <1>2, <1>3, <1>8 DEF IsFold
<1>10. PICK chain : IsChain(chain, n, V, start, step, iter[1..n])
  BY <1>1, <1>9, FoldChain
<1>11. iter[DOMAIN cells] = Flushed(e, cells)
  BY DEF iter, Eq, Body, start, Flushed, FoldLeft, MapThenFoldSet
<1>12. chain \in [0..n -> V] /\ chain[0] = start /\ chain[n] = iter[1..n]
  BY <1>10 DEF IsChain
<1>13. \A k \in 1..n : chain[k] = Body(chain[k - 1], cells[k])
  <2> TAKE k \in 1..n
  <2>1. chain[k - 1] \in V
    BY <1>12
  <2>2. chain[k] = step[k][chain[k - 1]]
    BY <1>10 DEF IsChain
  <2> QED
    BY <1>2, <2>1, <2>2
<1> QED
  BY <1>11, <1>12, <1>13 DEF Body, start, SavingChain

\* The state the commands of a list put an editor in.
MarkedBy(sync, sent) == FoldLeft(LAMBDA s, cmd : Marked(s, cmd.kind), sync, sent)

MarkingChain(sync, sent, n, V) ==
  \E chain \in [0..n -> V] :
    /\ chain[0] = sync
    /\ chain[n] = MarkedBy(sync, sent)
    /\ \A k \in 1..n : chain[k] = Marked(chain[k - 1], sent[k].kind)

LEMMA MarkedChain ==
  ASSUME NEW sync, NEW sent, NEW n \in Nat, DOMAIN sent = 1..n, NEW V,
         sync \in V,
         \A k \in 1..n : \A r \in V : Marked(r, sent[k].kind) \in V
  PROVE  MarkingChain(sync, sent, n, V)
<1> DEFINE start == sync
           Body(r, x) == Marked(r, x.kind)
           step == [k \in 1..n |-> [r \in V |-> Body(r, sent[k])]]
           Eq(g) == g = [s \in SUBSET DOMAIN sent |->
                           IF s = {} THEN start
                           ELSE LET x == Max(s) IN Body(g[s \ {x}], sent[x])]
           iter == CHOOSE g : Eq(g)
<1>1. step \in [1..n -> [V -> V]] /\ start \in V
  OBVIOUS
<1>2. \A k \in 1..n : \A r \in V : step[k][r] = Body(r, sent[k])
  OBVIOUS
<1>3. \A s \in SUBSET (1..n) : s # {} => Max(s) \in 1..n /\ s \ {Max(s)} \in SUBSET (1..n)
  BY LastIndex
<1> HIDE DEF step, start, Body
<1>4. PICK h : h \in [SUBSET (1..n) -> V] /\ IsFold(h, n, V, start, step)
  BY <1>1, FoldExists
<1>5. \A s \in SUBSET (1..n) :
        h[s] = IF s = {} THEN start ELSE Body(h[s \ {Max(s)}], sent[Max(s)])
  BY <1>2, <1>3, <1>4 DEF IsFold
<1>6. Eq(h)
  BY <1>4, <1>5
<1> HIDE DEF Eq
<1>7. Eq(iter)
  BY <1>6
<1> HIDE DEF iter
<1>8. \A s \in SUBSET (1..n) :
        iter[s] = IF s = {} THEN start ELSE Body(iter[s \ {Max(s)}], sent[Max(s)])
  BY <1>7 DEF Eq
<1>9. IsFold(iter, n, V, start, step)
  BY <1>2, <1>3, <1>8 DEF IsFold
<1>10. PICK chain : IsChain(chain, n, V, start, step, iter[1..n])
  BY <1>1, <1>9, FoldChain
<1>11. iter[DOMAIN sent] = MarkedBy(sync, sent)
  BY DEF iter, Eq, Body, start, MarkedBy, FoldLeft, MapThenFoldSet
<1>12. chain \in [0..n -> V] /\ chain[0] = start /\ chain[n] = iter[1..n]
  BY <1>10 DEF IsChain
<1>13. \A k \in 1..n : chain[k] = Body(chain[k - 1], sent[k])
  <2> TAKE k \in 1..n
  <2>1. chain[k - 1] \in V
    BY <1>12
  <2>2. chain[k] = step[k][chain[k - 1]]
    BY <1>10 DEF IsChain
  <2> QED
    BY <1>2, <2>1, <2>2
<1> QED
  BY <1>11, <1>12, <1>13 DEF Body, start, MarkingChain

-----------------------------------------------------------------------------
(* The editor, between two frames and in the middle of one. *)

UserKind == {"modify", "execute", "reconnect", "interrupt", "complete"}
Emitted == [by : {"user"}, kind : UserKind, changes : Changes, cell : CellId \cup {NoCell},
            expected : Nat, n : Int]

\* What a gesture can leave of the editor d: it shows the same cells, no draft
\* was added, and commands of the user were emitted.
Frames(d) ==
  [cells : {d.cells}, rev : {d.rev}, sync : {d.sync}, editors : [Ids(d.cells) -> Source],
   dirty : SUBSET d.dirty, undo : Seq(Changes), redo : Seq(Changes), outbound : Seq(Emitted),
   readOnly : {d.readOnly}, busy : {d.busy}]

EditorOK(e) ==
  /\ e \in Frames(e)
  /\ e.cells \in Cells /\ e.rev \in Nat /\ e.sync \in SyncStates
  /\ e.dirty \subseteq Ids(e.cells)
  /\ e.readOnly \in BOOLEAN /\ e.busy \in BOOLEAN

LEMMA FramesOf ==
  ASSUME NEW d, NEW e \in Frames(d)
  PROVE  /\ e.cells = d.cells /\ e.rev = d.rev /\ e.sync = d.sync
         /\ e.editors \in [Ids(d.cells) -> Source] /\ e.dirty \subseteq d.dirty
         /\ e.undo \in Seq(Changes) /\ e.redo \in Seq(Changes) /\ e.outbound \in Seq(Emitted)
         /\ e.readOnly = d.readOnly /\ e.busy = d.busy
BY DEF Frames

LEMMA EmitTyped ==
  ASSUME NEW d, EditorOK(d), NEW e \in Frames(d), NEW kept \in BOOLEAN, NEW kind \in UserKind,
         NEW changes \in Changes, NEW cell \in CellId \cup {NoCell}
  PROVE  EmitAs(e, kept, kind, changes, cell) \in Frames(d)
<1> DEFINE inverse == Inverted(e.cells, changes)
           recorded == kept /\ kind = "modify" /\ inverse.ok
           cmd == [by |-> "user", kind |-> kind, changes |-> Anchored(e.cells, changes),
                   cell |-> cell, expected |-> e.rev, n |-> 0]
           undo == IF recorded THEN Append(e.undo, inverse.changes) ELSE e.undo
           redo == IF recorded THEN <<>> ELSE e.redo
           outbound == Append(e.outbound, cmd)
<1>1. d.cells \in Cells /\ d.rev \in Nat
  BY DEF EditorOK
<1>2. e.cells = d.cells /\ e.rev = d.rev /\ e.undo \in Seq(Changes) /\ e.redo \in Seq(Changes)
        /\ e.outbound \in Seq(Emitted)
  BY FramesOf
<1>3. inverse.changes \in Changes
  BY <1>1, <1>2, InvertedTyped
<1>4. cmd \in Emitted
  <2>1. Anchored(e.cells, changes) \in Changes
    BY <1>1, <1>2, AnchoredTyped
  <2> QED
    BY <1>1, <1>2, <2>1 DEF Emitted
<1>5. undo \in Seq(Changes) /\ redo \in Seq(Changes) /\ outbound \in Seq(Emitted)
  <2> HIDE DEF inverse, cmd
  <2> QED
    BY <1>2, <1>3, <1>4
<1>6. EmitAs(e, kept, kind, changes, cell) =
        IF e.readOnly THEN e
        ELSE [e EXCEPT !.undo = undo, !.redo = redo, !.outbound = outbound]
  BY DEF EmitAs
<1> HIDE DEF undo, redo, outbound
<1>7. [e EXCEPT !.undo = undo, !.redo = redo, !.outbound = outbound] \in Frames(d)
  BY <1>5 DEF Frames
<1> QED
  BY <1>6, <1>7

LEMMA ModifyTyped ==
  ASSUME NEW d, EditorOK(d), NEW e \in Frames(d), NEW ch \in Change
  PROVE  Modify(e, <<ch>>) \in Frames(d)
<1> DEFINE changes == <<ch>>
<1>1. changes \in Changes
  BY DEF Changes
<1> HIDE DEF changes
<1>2. Modify(e, changes) \in Frames(d)
  BY <1>1, EmitTyped DEF Modify, UserKind
<1> QED
  BY <1>2 DEF changes

LEMMA CommandTyped ==
  ASSUME NEW d, EditorOK(d), NEW e \in Frames(d), NEW kind \in UserKind,
         NEW cell \in CellId \cup {NoCell}
  PROVE  Command(e, kind, cell) \in Frames(d)
<1> DEFINE changes == <<>>
<1>1. changes \in Changes
  BY DEF Changes
<1> HIDE DEF changes
<1>2. EmitAs(e, TRUE, kind, changes, cell) \in Frames(d)
  BY <1>1, EmitTyped
<1> QED
  BY <1>2 DEF changes, Command

\* The changes the editor emits of one of its cells.
LEMMA CellChanged ==
  ASSUME NEW id \in CellId
  PROVE  /\ \A s \in Source \cup {Keep}, k \in Kind \cup {Keep} : UpdateChange(id, s, k, Keep) \in Change
         /\ DeleteChange(id) \in Change /\ ClearChange(id) \in Change
         /\ \A i \in Nat : MoveChange(id, i) \in Change
         /\ \A i \in Nat, c \in Cell : InsertChange(i, c) \in Change
BY DEF UpdateChange, DeleteChange, ClearChange, MoveChange, InsertChange, Change

LEMMA Shown ==
  ASSUME NEW d, EditorOK(d), NEW e \in Frames(d), NEW id \in Ids(d.cells)
  PROVE  /\ id \in CellId /\ e.editors[id] \in Source
         /\ CellOf(e.cells, id) \in Cell /\ CellOf(e.cells, id).kind \in Kind
         /\ IndexOf(e, id) \in Nat
<1>1. d.cells \in Cells /\ e.cells = d.cells /\ e.editors \in [Ids(d.cells) -> Source]
  BY FramesOf DEF EditorOK
<1>2. CellOf(d.cells, id) \in Cell /\ id \in CellId
  BY <1>1, IdsTyped
<1>3. PositionOf(d.cells, id) - 1 \in Nat
  BY <1>1, PositionFound DEF Cells
<1> QED
  BY <1>1, <1>2, <1>3 DEF IndexOf, Cell

LEMMA FlushTyped ==
  ASSUME NEW d, EditorOK(d), NEW e \in Frames(d), NEW id \in Ids(d.cells)
  PROVE  Flush(e, id) \in Frames(d)
<1>1. CASE id \notin e.dirty
  BY <1>1 DEF Flush
<1>2. CASE id \in e.dirty
  <2> DEFINE f == [e EXCEPT !.dirty = e.dirty \ {id}]
             ch == UpdateChange(id, e.editors[id], CellOf(e.cells, id).kind, Keep)
  <2>1. f \in Frames(d)
    BY DEF Frames
  <2>2. ch \in Change
    BY Shown, CellChanged
  <2>3. Flush(e, id) = Modify(f, <<ch>>)
    BY <1>2 DEF Flush
  <2> HIDE DEF f, ch
  <2> QED
    BY <2>1, <2>2, <2>3, ModifyTyped
<1> QED
  BY <1>1, <1>2

LEMMA SaveTyped ==
  ASSUME NEW d, EditorOK(d)
  PROVE  SaveEdits(d) \in Frames(d)
<1> DEFINE n == Len(d.cells)
           V == Frames(d)
           cells == d.cells
<1>1. n \in Nat /\ DOMAIN cells = 1..n /\ cells = d.cells /\ d \in V
  BY DEF EditorOK, Cells
<1>2. \A k \in 1..n : cells[k].id \in Ids(d.cells)
  BY <1>1 DEF Ids
<1> HIDE DEF cells, n
<1>3. \A k \in 1..n : \A r \in V : Flush(r, cells[k].id) \in V
  BY <1>2, FlushTyped
<1> HIDE DEF V
<1>4. n \in Nat /\ DOMAIN cells = 1..n
  BY <1>1
<1>5. d \in V
  BY <1>1
<1>6. cells = d.cells
  BY <1>1
<1>60. SavingChain(d, cells, n, V)
  BY <1>3, <1>4, <1>5, SavedChain
<1>7. PICK chain \in [0..n -> V] :
        /\ chain[0] = d /\ chain[n] = Flushed(d, cells)
        /\ \A k \in 1..n : chain[k] = Flush(chain[k - 1], cells[k].id)
  BY <1>60 DEF SavingChain
<1>8. Flushed(d, cells) = SaveEdits(d)
  BY <1>6 DEF Flushed, SaveEdits
<1> QED
  BY <1>1, <1>7, <1>8 DEF V

LEMMA GestureTyped ==
  ASSUME NEW d, EditorOK(d), NEW id \in Ids(d.cells)
  PROVE  /\ \A i \in Nat : MoveCell(d, id, i) \in Frames(d)
         /\ \A c \in Cell : InsertBelow(d, id, c) \in Frames(d)
         /\ \A new \in CellId : /\ Duplicate(d, id, new) \in Frames(d)
                                /\ Paste(d, id, CellOf(d.cells, id), new) \in Frames(d)
         /\ DeleteCell(d, id) \in Frames(d)
         /\ \A k \in Kind : SetKind(d, id, k) \in Frames(d)
         /\ Run(d, id) \in Frames(d)
<1> DEFINE f == Flush(d, id)
<1>1. d \in Frames(d) /\ f \in Frames(d)
  BY FlushTyped DEF EditorOK
<1>2. id \in CellId /\ d.editors[id] \in Source /\ CellOf(d.cells, id) \in Cell
        /\ IndexOf(d, id) \in Nat
  BY <1>1, Shown
<1> HIDE DEF f
<1>3. ASSUME NEW i \in Nat PROVE MoveCell(d, id, i) \in Frames(d)
  <2>1. MoveChange(id, i) \in Change
    BY <1>2, CellChanged
  <2> QED
    BY <1>1, <2>1, ModifyTyped DEF MoveCell, f
<1>4. ASSUME NEW c \in Cell PROVE InsertBelow(d, id, c) \in Frames(d)
  <2>1. InsertChange(IndexOf(d, id) + 1, c) \in Change
    BY <1>2, CellChanged
  <2> QED
    BY <1>1, <2>1, ModifyTyped DEF InsertBelow, InsertCell, f
<1>5. ASSUME NEW new \in CellId PROVE Duplicate(d, id, new) \in Frames(d)
  <2>1. [id |-> new, src |-> d.editors[id], kind |-> CellOf(d.cells, id).kind,
         refs |-> {}, out |-> NoOutput] \in Cell
    BY <1>2 DEF Cell, NoOutput
  <2> QED
    BY <1>4, <2>1 DEF Duplicate
<1>6. ASSUME NEW new \in CellId PROVE Paste(d, id, CellOf(d.cells, id), new) \in Frames(d)
  <2> DEFINE c == [CellOf(d.cells, id) EXCEPT !.id = new, !.out = NoOutput]
  <2>1. c \in Cell
    BY <1>2 DEF Cell, NoOutput
  <2>2. Paste(d, id, CellOf(d.cells, id), new) = Modify(d, <<InsertChange(IndexOf(d, id) + 1, c)>>)
    BY DEF Paste, InsertCell
  <2> HIDE DEF c
  <2>3. InsertChange(IndexOf(d, id) + 1, c) \in Change
    BY <1>2, <2>1, CellChanged
  <2> QED
    BY <1>1, <2>2, <2>3, ModifyTyped
<1>7. DeleteCell(d, id) \in Frames(d)
  BY <1>1, <1>2, CellChanged, ModifyTyped DEF DeleteCell, f
<1>8. ASSUME NEW k \in Kind PROVE SetKind(d, id, k) \in Frames(d)
  <2>1. UpdateChange(id, d.editors[id], k, Keep) \in Change
    BY <1>2, CellChanged
  <2> QED
    BY <1>1, <2>1, ModifyTyped DEF SetKind, f
<1>9. Run(d, id) \in Frames(d)
  BY <1>1, <1>2, CommandTyped DEF Run, f, UserKind
<1> QED
  BY <1>3, <1>4, <1>5, <1>6, <1>7, <1>8, <1>9

\* A batch of one change for each cell of a list.
LEMMA ChangeEach ==
  ASSUME NEW n \in Nat, NEW changes, DOMAIN changes = 1..n, changes = [i \in 1..n |-> changes[i]],
         \A i \in 1..n : changes[i] \in Change
  PROVE  changes \in Changes
<1>1. changes \in [1..n -> Change]
  OBVIOUS
<1> QED
  BY <1>1 DEF Changes

LEMMA ClearTyped ==
  ASSUME NEW d, EditorOK(d)
  PROVE  ClearAll(d) \in Frames(d)
<1> DEFINE code == Only(d.cells, {c \in ToSet(d.cells) : c.kind = Code})
           changes == [i \in DOMAIN code |-> ClearChange(code[i].id)]
           n == Len(code)
<1>1. code \in Cells /\ d \in Frames(d)
  BY OnlySeq DEF EditorOK, Cells
<1>2. ClearAll(d) = IF code = <<>> THEN d ELSE EmitAs(d, TRUE, "modify", changes, NoCell)
  BY DEF ClearAll, Modify
<1> HIDE DEF code
<1>3. n \in Nat /\ DOMAIN code = 1..n /\ \A i \in 1..n : code[i] \in Cell
  BY <1>1 DEF Cells
<1>4. \A i \in 1..n : ClearChange(code[i].id) \in Change
  BY <1>3, CellChanged DEF Cell
<1>5. DOMAIN changes = 1..n /\ changes = [i \in 1..n |-> changes[i]] /\ \A i \in 1..n : changes[i] \in Change
  BY <1>3, <1>4
<1> HIDE DEF changes, n
<1>6. changes \in Changes
  BY <1>3, <1>5, ChangeEach
<1> QED
  BY <1>1, <1>2, <1>6, EmitTyped DEF UserKind

LEMMA ReplaceTyped ==
  ASSUME NEW d, EditorOK(d), NEW old \in Source, NEW new \in Source
  PROVE  ReplaceText(d, old, new) \in Frames(d)
<1> DEFINE hit == Only(d.cells, {c \in ToSet(d.cells) : d.editors[c.id] = old})
           shown == [d EXCEPT !.editors = [id \in DOMAIN d.editors |->
                                             IF d.editors[id] = old THEN new ELSE d.editors[id]]]
           changes == [i \in DOMAIN hit |-> UpdateChange(hit[i].id, new, Keep, Keep)]
           n == Len(hit)
<1>1. hit \in Cells /\ d \in Frames(d)
  BY OnlySeq DEF EditorOK, Cells
<1>2. ReplaceText(d, old, new) =
        IF hit = <<>> THEN d ELSE EmitAs(shown, TRUE, "modify", changes, NoCell)
  BY DEF ReplaceText, Modify
<1> HIDE DEF hit
<1>3. n \in Nat /\ DOMAIN hit = 1..n /\ \A i \in 1..n : hit[i] \in Cell
  BY <1>1 DEF Cells
<1>4. \A i \in 1..n : UpdateChange(hit[i].id, new, Keep, Keep) \in Change
  BY <1>3, CellChanged DEF Cell
<1>5. DOMAIN changes = 1..n /\ changes = [i \in 1..n |-> changes[i]] /\ \A i \in 1..n : changes[i] \in Change
  BY <1>3, <1>4
<1>6. shown \in Frames(d)
  BY <1>1 DEF Frames
<1> HIDE DEF changes, n, shown
<1>7. changes \in Changes
  BY <1>3, <1>5, ChangeEach
<1> QED
  BY <1>1, <1>2, <1>6, <1>7, EmitTyped DEF UserKind

LEMMA ReplayTyped ==
  ASSUME NEW d, EditorOK(d), NEW undoing \in BOOLEAN
  PROVE  Replay(d, undoing) \in Frames(d)
<1> DEFINE from == IF undoing THEN d.undo ELSE d.redo
           changes == Last(from)
           inverse == Inverted(d.cells, changes)
           back == IF inverse.ok THEN inverse.changes ELSE <<>>
           undo == IF undoing THEN Front(d.undo) ELSE Append(d.undo, back)
           redo == IF undoing THEN Append(d.redo, back) ELSE Front(d.redo)
           f == [d EXCEPT !.undo = undo, !.redo = redo]
<1>1. d \in Frames(d) /\ d.cells \in Cells /\ d.undo \in Seq(Changes) /\ d.redo \in Seq(Changes)
  BY FramesOf DEF EditorOK
<1> SUFFICES ASSUME from # <<>> PROVE Replay(d, undoing) \in Frames(d)
  BY <1>1 DEF Replay
<1>2. from \in Seq(Changes)
  BY <1>1
<1>3. changes \in Changes
  <2> HIDE DEF from
  <2> QED
    BY <1>2 DEF Last
<1>4. back \in Changes
  <2>1. inverse.changes \in Changes
    BY <1>1, <1>3, InvertedTyped
  <2> HIDE DEF inverse
  <2> QED
    BY <2>1 DEF Changes
<1>5. undo \in Seq(Changes) /\ redo \in Seq(Changes)
  <2> HIDE DEF back
  <2>1. CASE undoing
    <3>1. Front(d.undo) \in Seq(Changes)
      BY <1>1, <2>1 DEF Front
    <3> QED
      BY <1>1, <1>4, <2>1, <3>1
  <2>2. CASE ~undoing
    <3>1. Front(d.redo) \in Seq(Changes)
      BY <1>1, <2>2 DEF Front
    <3> QED
      BY <1>1, <1>4, <2>2, <3>1
  <2> QED
    BY <2>1, <2>2
<1>6. Replay(d, undoing) = EmitAs(f, FALSE, "modify", changes, NoCell)
  <2> HIDE DEF back, changes
  <2>1. CASE undoing
    <3>1. f = [d EXCEPT !.undo = Front(@), !.redo = Append(@, back)]
      BY <1>1, <2>1 DEF Frames
    <3> QED
      BY <2>1, <3>1 DEF Replay, back, changes
  <2>2. CASE ~undoing
    <3>1. f = [d EXCEPT !.redo = Front(@), !.undo = Append(@, back)]
      BY <1>1, <2>2 DEF Frames
    <3> QED
      BY <2>2, <3>1 DEF Replay, back, changes
  <2> QED
    BY <2>1, <2>2
<1> HIDE DEF undo, redo
<1>7. f \in Frames(d)
  BY <1>1, <1>5 DEF Frames
<1> HIDE DEF f, changes
<1> QED
  BY <1>3, <1>6, <1>7, EmitTyped DEF UserKind

\* When the frame is over the editor is as it was but for its drafts and its
\* history, and it is busy only if it was or a command that ends it was sent.
LEMMA DrainedTyped ==
  ASSUME NEW d, EditorOK(d), NEW e \in Frames(d)
  PROVE  /\ EditorOK(Drained(e)) /\ Drained(e).outbound = <<>>
         /\ Drained(e).cells = d.cells /\ Drained(e).rev = d.rev
         /\ Drained(e).dirty \subseteq d.dirty
         /\ Drained(e).readOnly = d.readOnly /\ Drained(e).busy = d.busy
         /\ Drained(e).sync \in Busy =>
              d.sync \in Busy \/ \E i \in 1..Len(e.outbound) : e.outbound[i].kind # "complete"
<1> DEFINE n == Len(e.outbound)
           sent == e.outbound
           sync == e.sync
           V == {s \in SyncStates :
                   s \in Busy => d.sync \in Busy \/ \E i \in 1..n : sent[i].kind # "complete"}
           left == MarkedBy(sync, sent)
<1>1. /\ e.cells = d.cells /\ e.rev = d.rev /\ e.sync = d.sync /\ e.outbound \in Seq(Emitted)
      /\ e.readOnly = d.readOnly /\ e.busy = d.busy /\ e.dirty \subseteq d.dirty
  BY FramesOf
<1>2. d.sync \in SyncStates /\ d.cells \in Cells /\ d.rev \in Nat /\ d.dirty \subseteq Ids(d.cells)
        /\ d.readOnly \in BOOLEAN /\ d.busy \in BOOLEAN
  BY DEF EditorOK
<1>3. n \in Nat /\ DOMAIN sent = 1..n
  BY <1>1
<1>4. sync \in V
  BY <1>1, <1>2
<1>5. Drained(e) = [e EXCEPT !.outbound = <<>>, !.sync = left]
  BY DEF Drained, MarkedBy
<1> HIDE DEF n, sent, sync
<1>6. \A k \in 1..n : \A r \in V : Marked(r, sent[k].kind) \in V
  BY DEF Marked, SyncStates, Busy
<1> HIDE DEF V, left
<1>70. left = MarkedBy(sync, sent)
  BY DEF left
<1>60. MarkingChain(sync, sent, n, V)
  BY <1>3, <1>4, <1>6, MarkedChain
<1>7. PICK chain \in [0..n -> V] :
        /\ chain[0] = sync /\ chain[n] = MarkedBy(sync, sent)
        /\ \A k \in 1..n : chain[k] = Marked(chain[k - 1], sent[k].kind)
  BY <1>60 DEF MarkingChain
<1>8. left \in V
  BY <1>3, <1>7, <1>70
<1>9. left \in SyncStates /\ (left \in Busy => d.sync \in Busy \/ \E i \in 1..n : sent[i].kind # "complete")
  BY <1>8 DEF V
<1>10. PICK f : f = [e EXCEPT !.outbound = <<>>, !.sync = left]
  OBVIOUS
<1>11. /\ f.outbound = <<>> /\ f.sync = left /\ f.cells = d.cells /\ f.rev = d.rev
       /\ f.dirty = e.dirty /\ f.readOnly = d.readOnly /\ f.busy = d.busy
       /\ f.editors = e.editors /\ f.undo = e.undo /\ f.redo = e.redo
       /\ f = [cells |-> f.cells, rev |-> f.rev, sync |-> f.sync, editors |-> f.editors,
               dirty |-> f.dirty, undo |-> f.undo, redo |-> f.redo, outbound |-> f.outbound,
               readOnly |-> f.readOnly, busy |-> f.busy]
  BY <1>1, <1>10 DEF Frames
<1>12. e.editors \in [Ids(d.cells) -> Source] /\ e.undo \in Seq(Changes) /\ e.redo \in Seq(Changes)
  BY FramesOf
<1>13. f \in Frames(f) /\ Drained(e) = f
  <2>1. f.editors \in [Ids(f.cells) -> Source] /\ f.undo \in Seq(Changes) /\ f.redo \in Seq(Changes)
    BY <1>11, <1>12
  <2>2. f.outbound \in Seq(Emitted)
    BY <1>11
  <2>3. f \in Frames(f)
    BY <1>11, <2>1, <2>2 DEF Frames
  <2> QED
    BY <1>5, <1>10, <2>3
<1>14. EditorOK(f)
  BY <1>1, <1>2, <1>9, <1>11, <1>13 DEF EditorOK
<1> QED
  BY <1>1, <1>9, <1>11, <1>13, <1>14 DEF n, sent

-----------------------------------------------------------------------------
(* The queue. *)

ItemKind == UserKind \cup {"query", "adopt"}
Item == [by : {"user", "tool", "watch"}, kind : ItemKind, changes : Changes,
         cell : CellId \cup {NoCell}, expected : Nat, n : Int]

\* Who asks for what: what a tool queries has a negative number.
ItemOK(m) ==
  \/ m.by = "user" /\ m.kind \in UserKind /\ m.n > 0
  \/ m.by = "tool" /\ m.kind = "query" /\ m.n < 0
  \/ m.by = "tool" /\ m.kind = "modify" /\ m.n > 0
  \/ m.by = "watch" /\ m.kind = "adopt" /\ m.n = 0

IsQuery(m) == m.by = "tool" /\ m.kind = "query"
IsToolChange(m) == m.by = "tool" /\ m.kind = "modify"

\* The number of a command, of a tool's query and of the change that follows it.
Num(m) == IF m.n < 0 THEN -m.n ELSE m.n

\* The items of a queue are numbered up to n, in their order; only the head is
\* the change of a tool.
Numbered(q, n) ==
  /\ q \in Seq(Item) /\ n \in Nat
  /\ \A i \in 1..Len(q) : ItemOK(q[i]) /\ Num(q[i]) <= n
  /\ \A i, j \in 1..Len(q) :
       i < j /\ q[i].by # "watch" /\ q[j].by # "watch" => Num(q[i]) < Num(q[j])
  /\ \A i \in 1..Len(q) : IsToolChange(q[i]) => i = 1

\* The numbers used before, of results (applied) and of modifications that were
\* committed (done), are not those of the queue: but a tool's change follows its
\* query, and the head may be committed while its answer is open.
Used(q, n, applied, done, open) ==
  /\ applied \in SUBSET Int /\ done \in Seq(Nat)
  /\ \A m \in applied : -n <= m /\ m <= n
  /\ \A m \in applied, i \in 1..Len(q) : q[i].by # "watch" =>
       \/ m < Num(q[i]) /\ -m < Num(q[i])
       \/ IsToolChange(q[i]) /\ m = -q[i].n
  /\ \A k \in 1..Len(done) : done[k] <= n
  /\ \A k \in 1..Len(done), i \in 1..Len(q) : q[i].by # "watch" =>
       \/ done[k] < Num(q[i])
       \/ open /\ i = 1 /\ q[i].kind = "modify" /\ done[k] = q[i].n
  /\ \A i, j \in 1..Len(done) : i < j => done[i] < done[j]

QueueOK(q, n, applied, done, open) == Numbered(q, n) /\ Used(q, n, applied, done, open)

LEMMA TailSeq ==
  ASSUME NEW S, NEW q \in Seq(S), q # <<>>
  PROVE  /\ Tail(q) \in Seq(S) /\ Len(Tail(q)) = Len(q) - 1 /\ Len(q) \in Nat /\ Len(q) >= 1
         /\ \A i \in 1..(Len(q) - 1) : Tail(q)[i] = q[i + 1]
OBVIOUS

LEMMA HeadSeq ==
  ASSUME NEW S, NEW q \in Seq(S), q # <<>>, NEW x \in S
  PROVE  /\ <<x>> \o Tail(q) \in Seq(S) /\ Len(<<x>> \o Tail(q)) = Len(q)
         /\ (<<x>> \o Tail(q))[1] = x
         /\ \A i \in 2..Len(q) : (<<x>> \o Tail(q))[i] = q[i]
<1> DEFINE h == <<x>>
           t == Tail(q)
           r == h \o t
<1>1. /\ t \in Seq(S) /\ Len(t) = Len(q) - 1 /\ Len(q) \in Nat /\ Len(q) >= 1
      /\ \A i \in 1..(Len(q) - 1) : t[i] = q[i + 1]
  BY TailSeq
<1>2. h \in Seq(S) /\ Len(h) = 1 /\ h[1] = x
  OBVIOUS
<1> HIDE DEF h, t
<1>30. r \in Seq(S) /\ Len(r) = Len(h) + Len(t)
  BY <1>1, <1>2, JoinedSeq
<1>3. \A j \in 1..Len(q) : r[j] = IF j <= 1 THEN h[j] ELSE t[j - 1]
  <2>1. \A j \in 1..(Len(h) + Len(t)) : r[j] = IF j <= Len(h) THEN h[j] ELSE t[j - Len(h)]
    <3>1. h \in Seq(S) /\ t \in Seq(S)
      BY <1>1, <1>2
    <3> QED
      BY <3>1
  <2>2. Len(h) + Len(t) = Len(q)
    BY <1>1, <1>2
  <2> QED
    BY <1>2, <2>1, <2>2
<1> HIDE DEF r
<1>4. Len(r) = Len(q) /\ r[1] = x
  BY <1>1, <1>2, <1>3, <1>30
<1>5. ASSUME NEW i \in 2..Len(q) PROVE r[i] = q[i]
  <2>1. i \in Nat /\ i - 1 \in 1..(Len(q) - 1) /\ ~(i <= 1) /\ i \in 1..(1 + Len(t)) /\ (i - 1) + 1 = i
    BY <1>1
  <2> QED
    BY <1>1, <1>2, <1>3, <2>1
<1> QED
  BY <1>30, <1>4, <1>5 DEF r, h, t

Extends(r, q, items) ==
  /\ q # <<>> => r # <<>> /\ r[1] = q[1]
  /\ Len(r) = Len(q) + Len(items)
  /\ \A i \in 1..Len(q) : r[i] = q[i]
  /\ \A i \in 1..Len(items) : r[Len(q) + i] = items[i]

\* A frame or a tool adds what nobody had a number of.
LEMMA QueueGrown ==
  ASSUME NEW q, NEW n, NEW applied, NEW done, NEW open \in BOOLEAN, QueueOK(q, n, applied, done, open),
         NEW items \in Seq(Item),
         \A i \in 1..Len(items) : /\ ItemOK(items[i]) /\ items[i].by # "watch"
                                  /\ ~IsToolChange(items[i]) /\ Num(items[i]) = n + i
  PROVE  QueueOK(q \o items, n + Len(items), applied, done, open) /\ Extends(q \o items, q, items)
<1> DEFINE r == q \o items
           l == Len(q)
           k == Len(items)
<1>1. q \in Seq(Item) /\ n \in Nat /\ l \in Nat /\ k \in Nat
  BY DEF QueueOK, Numbered
<1>2. /\ r \in Seq(Item) /\ Len(r) = l + k
      /\ \A j \in 1..(l + k) : r[j] = IF j <= l THEN q[j] ELSE items[j - l]
  BY <1>1, JoinedSeq
<1> HIDE DEF r
<1>3. \A i \in 1..l : r[i] = q[i]
  BY <1>1, <1>2
<1>4. \A i \in 1..k : r[l + i] = items[i]
  <2> TAKE i \in 1..k
  <2>1. l + i \in 1..(l + k) /\ ~(l + i <= l) /\ (l + i) - l = i
    BY <1>1
  <2> QED
    BY <1>2, <2>1
<1>5. \A j \in 1..(l + k) : j \in 1..l \/ \E i \in 1..k : j = l + i /\ r[j] = items[i]
  <2> TAKE j \in 1..(l + k)
  <2>1. j \in 1..l \/ (j - l \in 1..k /\ j = l + (j - l))
    BY <1>1
  <2> QED
    BY <1>4, <2>1
<1> DEFINE Old(j) == j \in 1..l /\ r[j] = q[j]
           New(j) == ItemOK(r[j]) /\ r[j].by # "watch" /\ ~IsToolChange(r[j]) /\ j > l
                     /\ Num(r[j]) > n /\ Num(r[j]) <= n + k /\ Num(r[j]) = n + (j - l)
<1>6. \A j \in 1..Len(r) : Old(j) \/ New(j)
  <2> TAKE j \in 1..Len(r)
  <2>1. j \in 1..l \/ \E i \in 1..k : j = l + i /\ r[j] = items[i]
    BY <1>2, <1>5
  <2>2. CASE j \in 1..l
    BY <1>3, <2>2
  <2>3. CASE \E i \in 1..k : j = l + i /\ r[j] = items[i]
    <3>1. PICK i \in 1..k : j = l + i /\ r[j] = items[i]
      BY <2>3
    <3>2. i > 0 /\ i <= k /\ i = j - l /\ j > l
      BY <1>1, <3>1
    <3> QED
      BY <1>1, <3>1, <3>2
  <2> QED
    BY <2>1, <2>2, <2>3
<1> HIDE DEF l, k
<1>7. /\ \A i \in 1..l : ItemOK(q[i]) /\ Num(q[i]) <= n
      /\ \A i, j \in 1..l : i < j /\ q[i].by # "watch" /\ q[j].by # "watch" => Num(q[i]) < Num(q[j])
      /\ \A i \in 1..l : IsToolChange(q[i]) => i = 1
  BY DEF QueueOK, Numbered, l
<1>8. \A i \in 1..l : Num(q[i]) \in Int
  <2>1. \A i \in 1..l : q[i] \in Item
    BY <1>1 DEF l
  <2> QED
    BY <2>1 DEF Num, Item
<1>9. Numbered(r, n + k)
  <2>1. \A i \in 1..Len(r) : ItemOK(r[i]) /\ Num(r[i]) <= n + k
    <3> TAKE i \in 1..Len(r)
    <3>1. CASE Old(i)
      <4>1. ItemOK(q[i]) /\ Num(q[i]) <= n /\ Num(q[i]) \in Int
        BY <1>7, <1>8, <3>1
      <4> QED
        BY <1>1, <3>1, <4>1
    <3>2. CASE New(i)
      BY <3>2
    <3> QED
      BY <1>6, <3>1, <3>2
  <2>2. ASSUME NEW i \in 1..Len(r), NEW j \in 1..Len(r), i < j, r[i].by # "watch", r[j].by # "watch"
        PROVE  Num(r[i]) < Num(r[j])
    <3>1. CASE Old(i) /\ Old(j)
      BY <1>7, <2>2, <3>1
    <3>2. CASE Old(i) /\ New(j)
      <4>1. Num(q[i]) <= n /\ Num(q[i]) \in Int
        BY <1>7, <1>8, <3>2
      <4> QED
        BY <1>1, <3>2, <4>1
    <3>3. CASE New(i) /\ New(j)
      BY <1>1, <1>2, <2>2, <3>3
    <3>4. CASE New(i) /\ Old(j)
      BY <1>1, <1>2, <2>2, <3>4
    <3> QED
      BY <1>6, <3>1, <3>2, <3>3, <3>4
  <2>3. \A i \in 1..Len(r) : IsToolChange(r[i]) => i = 1
    BY <1>6, <1>7
  <2> QED
    BY <1>1, <1>2, <2>1, <2>2, <2>3 DEF Numbered
<1>10. Used(r, n + k, applied, done, open)
  <2>1. /\ applied \in SUBSET Int /\ done \in Seq(Nat)
        /\ \A m \in applied : -n <= m /\ m <= n
        /\ \A m \in applied, i \in 1..l : q[i].by # "watch" =>
             \/ m < Num(q[i]) /\ -m < Num(q[i])
             \/ IsToolChange(q[i]) /\ m = -q[i].n
        /\ \A h \in 1..Len(done) : done[h] <= n
        /\ \A h \in 1..Len(done), i \in 1..l : q[i].by # "watch" =>
             \/ done[h] < Num(q[i])
             \/ open /\ i = 1 /\ q[i].kind = "modify" /\ done[h] = q[i].n
        /\ \A i, j \in 1..Len(done) : i < j => done[i] < done[j]
    BY DEF QueueOK, Used, l
  <2>2. \A m \in applied : -(n + k) <= m /\ m <= n + k
    BY <1>1, <2>1
  <2>3. \A h \in 1..Len(done) : done[h] \in Nat /\ done[h] <= n + k
    BY <1>1, <2>1
  <2>4. ASSUME NEW m \in applied, NEW i \in 1..Len(r), r[i].by # "watch"
        PROVE  \/ m < Num(r[i]) /\ -m < Num(r[i])
               \/ IsToolChange(r[i]) /\ m = -r[i].n
    <3>1. CASE Old(i)
      BY <2>1, <2>4, <3>1
    <3>2. CASE New(i)
      <4>1. m \in Int /\ -n <= m /\ m <= n /\ n + (i - l) > n
        BY <1>1, <1>2, <2>1, <3>2
      <4> QED
        BY <1>1, <1>2, <3>2, <4>1
    <3> QED
      BY <1>6, <3>1, <3>2
  <2>5. ASSUME NEW h \in 1..Len(done), NEW i \in 1..Len(r), r[i].by # "watch"
        PROVE  \/ done[h] < Num(r[i])
               \/ open /\ i = 1 /\ r[i].kind = "modify" /\ done[h] = r[i].n
    <3>1. CASE Old(i)
      BY <2>1, <2>5, <3>1
    <3>2. CASE New(i)
      <4>1. done[h] <= n /\ n + (i - l) > n
        BY <1>1, <1>2, <2>1, <3>2
      <4> QED
        BY <1>1, <1>2, <2>3, <3>2, <4>1
    <3> QED
      BY <1>6, <3>1, <3>2
  <2> QED
    BY <2>1, <2>2, <2>3, <2>4, <2>5 DEF Used
<1>11. q # <<>> => 1 \in 1..l
  BY <1>1 DEF l
<1> QED
  BY <1>1, <1>2, <1>3, <1>4, <1>9, <1>10, <1>11 DEF QueueOK, Extends, r, l, k

Behind(r, q, m) ==
  /\ r # <<>> /\ (q # <<>> => r[1] = q[1])
  /\ Len(r) = Len(q) + 1 /\ r[Len(q) + 1] = m
  /\ \A i \in 1..Len(q) : r[i] = q[i]

\* A watch asks for a reconciliation, which has no number.
LEMMA QueueWatched ==
  ASSUME NEW q, NEW n, NEW applied, NEW done, NEW open \in BOOLEAN, QueueOK(q, n, applied, done, open),
         NEW m \in Item, m.by = "watch", m.kind = "adopt", m.n = 0
  PROVE  QueueOK(Append(q, m), n, applied, done, open) /\ Behind(Append(q, m), q, m)
<1> DEFINE r == Append(q, m)
           l == Len(q)
<1>1. q \in Seq(Item) /\ n \in Nat /\ l \in Nat
  BY DEF QueueOK, Numbered
<1>2. /\ r \in Seq(Item) /\ Len(r) = l + 1 /\ r[l + 1] = m /\ r # <<>>
      /\ \A i \in 1..l : r[i] = q[i]
  BY <1>1
<1> HIDE DEF r
<1>3. \A j \in 1..Len(r) : (j \in 1..l /\ r[j] = q[j]) \/ r[j] = m
  <2> TAKE j \in 1..Len(r)
  <2>1. j \in 1..l \/ j = l + 1
    BY <1>1, <1>2
  <2> QED
    BY <1>2, <2>1
<1>4. ItemOK(m) /\ Num(m) = 0 /\ ~IsToolChange(m)
  BY DEF ItemOK, Num, IsToolChange
<1>5. q # <<>> => 1 \in 1..l
  BY <1>1
<1> HIDE DEF l
<1>6. Numbered(r, n)
  <2>1. /\ \A i \in 1..l : ItemOK(q[i]) /\ Num(q[i]) <= n
        /\ \A i, j \in 1..l : i < j /\ q[i].by # "watch" /\ q[j].by # "watch" => Num(q[i]) < Num(q[j])
        /\ \A i \in 1..l : IsToolChange(q[i]) => i = 1
    BY DEF QueueOK, Numbered, l
  <2>2. \A i \in 1..Len(r) : ItemOK(r[i]) /\ Num(r[i]) <= n
    BY <1>1, <1>3, <1>4, <2>1
  <2>3. \A i, j \in 1..Len(r) : i < j /\ r[i].by # "watch" /\ r[j].by # "watch" => Num(r[i]) < Num(r[j])
    BY <1>3, <2>1
  <2>4. \A i \in 1..Len(r) : IsToolChange(r[i]) => i = 1
    BY <1>3, <1>4, <2>1
  <2> QED
    BY <1>1, <1>2, <2>2, <2>3, <2>4 DEF Numbered
<1>7. Used(r, n, applied, done, open)
  <2>1. /\ applied \in SUBSET Int /\ done \in Seq(Nat)
        /\ \A x \in applied : -n <= x /\ x <= n
        /\ \A k \in 1..Len(done) : done[k] <= n
        /\ \A i, j \in 1..Len(done) : i < j => done[i] < done[j]
    BY DEF QueueOK, Used
  <2>2. \A x \in applied, i \in 1..l : q[i].by # "watch" =>
             \/ x < Num(q[i]) /\ -x < Num(q[i])
             \/ IsToolChange(q[i]) /\ x = -q[i].n
    BY DEF QueueOK, Used, l
  <2>3. \A h \in 1..Len(done), i \in 1..l : q[i].by # "watch" =>
             \/ done[h] < Num(q[i])
             \/ open /\ i = 1 /\ q[i].kind = "modify" /\ done[h] = q[i].n
    BY DEF QueueOK, Used, l
  <2>4. \A x \in applied, i \in 1..Len(r) : r[i].by # "watch" =>
             \/ x < Num(r[i]) /\ -x < Num(r[i])
             \/ IsToolChange(r[i]) /\ x = -r[i].n
    BY <1>3, <2>2
  <2>5. \A h \in 1..Len(done), i \in 1..Len(r) : r[i].by # "watch" =>
             \/ done[h] < Num(r[i])
             \/ open /\ i = 1 /\ r[i].kind = "modify" /\ done[h] = r[i].n
    BY <1>3, <2>3
  <2> QED
    BY <2>1, <2>4, <2>5 DEF Used
<1> QED
  BY <1>1, <1>2, <1>5, <1>6, <1>7 DEF QueueOK, Behind, r, l

\* The number of the head, and of what is behind it.
LEMMA HeadNumber ==
  ASSUME NEW q, NEW n, Numbered(q, n), q # <<>>
  PROVE  /\ 1 \in 1..Len(q) /\ q[1] \in Item /\ ItemOK(q[1])
         /\ Num(q[1]) \in Nat /\ Num(q[1]) <= n /\ q[1].n \in Int /\ n \in Nat
         /\ q[1].n <= Num(q[1]) /\ -q[1].n <= Num(q[1])
         /\ q[1].by # "watch" =>
              \A i \in 1..Len(q) : i # 1 /\ q[i].by # "watch" => Num(q[1]) < Num(q[i])
         /\ \A i \in 1..Len(q) : Num(q[i]) \in Nat
<1>1. q \in Seq(Item) /\ n \in Nat /\ 1 \in 1..Len(q) /\ Len(q) \in Nat
  BY DEF Numbered
<1>2. \A i \in 1..Len(q) : q[i] \in Item
  BY <1>1
<1>3. \A i \in 1..Len(q) : Num(q[i]) \in Nat /\ q[i].n \in Int
                             /\ q[i].n <= Num(q[i]) /\ -q[i].n <= Num(q[i])
  <2> TAKE i \in 1..Len(q)
  <2>1. q[i].n \in Int
    BY <1>2 DEF Item
  <2> QED
    BY <2>1 DEF Num
<1>4. ItemOK(q[1]) /\ Num(q[1]) <= n
  BY <1>1 DEF Numbered
<1>5. ASSUME q[1].by # "watch", NEW i \in 1..Len(q), i # 1, q[i].by # "watch"
      PROVE  Num(q[1]) < Num(q[i])
  <2>1. 1 < i
    BY <1>1, <1>5
  <2> QED
    BY <1>1, <1>5, <2>1 DEF Numbered
<1> QED
  BY <1>1, <1>2, <1>3, <1>4, <1>5

Settles(now, applied, m) ==
  now \subseteq applied \/ (m.by # "watch" /\ now \subseteq applied \cup {m.n})
Follows(r, q) ==
  /\ \A i \in 1..Len(r) : ~IsToolChange(r[i])
  /\ \A i \in 2..Len(q) : \E j \in 1..Len(r) : r[j] = q[i]

\* The head is done.
LEMMA QueueDone ==
  ASSUME NEW q, NEW n, NEW applied, NEW done, NEW open \in BOOLEAN, QueueOK(q, n, applied, done, open),
         q # <<>>, NEW now \in SUBSET Int, Settles(now, applied, q[1]),
         NEW still \in BOOLEAN
  PROVE  QueueOK(Tail(q), n, now, done, still) /\ Follows(Tail(q), q)
<1> DEFINE r == Tail(q)
           l == Len(q)
<1>0. Numbered(q, n) /\ Used(q, n, applied, done, open)
  BY DEF QueueOK
<1>1. q \in Seq(Item) /\ n \in Nat
  BY <1>0 DEF Numbered
<1>2. r \in Seq(Item) /\ Len(r) = l - 1 /\ l \in Nat /\ l >= 1 /\ \A i \in 1..(l - 1) : r[i] = q[i + 1]
  BY <1>1, TailSeq
<1> HIDE DEF r
<1>3. \A j \in 1..Len(r) : j + 1 \in 1..l /\ r[j] = q[j + 1] /\ j + 1 # 1
  BY <1>2
<1>4. /\ \A i \in 1..l : ItemOK(q[i]) /\ Num(q[i]) <= n
      /\ \A i, j \in 1..l : i < j /\ q[i].by # "watch" /\ q[j].by # "watch" => Num(q[i]) < Num(q[j])
      /\ \A i \in 1..l : IsToolChange(q[i]) => i = 1
  BY <1>0 DEF Numbered
<1>5. Numbered(r, n)
  <2>1. \A i \in 1..Len(r) : ItemOK(r[i]) /\ Num(r[i]) <= n
    BY <1>3, <1>4
  <2>2. ASSUME NEW i \in 1..Len(r), NEW j \in 1..Len(r), i < j, r[i].by # "watch", r[j].by # "watch"
        PROVE  Num(r[i]) < Num(r[j])
    <3>1. i + 1 < j + 1
      BY <1>2, <2>2
    <3> QED
      BY <1>3, <1>4, <2>2, <3>1
  <2>3. \A i \in 1..Len(r) : ~IsToolChange(r[i])
    BY <1>3, <1>4
  <2> QED
    BY <1>1, <1>2, <2>1, <2>2, <2>3 DEF Numbered
<1>6. /\ Num(q[1]) \in Nat /\ Num(q[1]) <= n /\ q[1].n \in Int
      /\ q[1].n <= Num(q[1]) /\ -q[1].n <= Num(q[1])
      /\ \A i \in 1..l : Num(q[i]) \in Nat
  BY <1>0, HeadNumber
<1>7. ASSUME q[1].by # "watch", NEW i \in 1..l, i # 1, q[i].by # "watch" PROVE Num(q[1]) < Num(q[i])
  BY <1>0, <1>7, HeadNumber
<1>8. Used(r, n, now, done, still)
  <2>1. /\ applied \in SUBSET Int /\ done \in Seq(Nat)
        /\ \A x \in applied : -n <= x /\ x <= n
        /\ \A k \in 1..Len(done) : done[k] <= n
        /\ \A i, j \in 1..Len(done) : i < j => done[i] < done[j]
    BY <1>0 DEF Used
  <2>2. \A x \in applied, i \in 1..l : q[i].by # "watch" =>
             \/ x < Num(q[i]) /\ -x < Num(q[i])
             \/ IsToolChange(q[i]) /\ x = -q[i].n
    BY <1>0 DEF Used
  <2>3. \A h \in 1..Len(done), i \in 1..l : q[i].by # "watch" =>
             \/ done[h] < Num(q[i])
             \/ open /\ i = 1 /\ q[i].kind = "modify" /\ done[h] = q[i].n
    BY <1>0 DEF Used
  <2>4. \A x \in now : x \in applied \/ (q[1].by # "watch" /\ x = q[1].n)
    BY DEF Settles
  <2>5. -n <= q[1].n /\ q[1].n <= n
    BY <1>1, <1>6
  <2>6. \A x \in now : -n <= x /\ x <= n
    BY <2>1, <2>4, <2>5
  <2>7. ASSUME NEW x \in now, NEW j \in 1..Len(r), r[j].by # "watch"
        PROVE  x < Num(r[j]) /\ -x < Num(r[j])
    <3> DEFINE i == j + 1
    <3>1. i \in 1..l /\ i # 1 /\ r[j] = q[i] /\ ~IsToolChange(q[i])
      BY <1>3, <1>4
    <3> HIDE DEF i
    <3>2. CASE x \in applied
      BY <2>2, <2>7, <3>1, <3>2
    <3>3. CASE q[1].by # "watch" /\ x = q[1].n
      <4>1. Num(q[1]) < Num(q[i]) /\ Num(q[i]) \in Nat
        BY <1>6, <1>7, <2>7, <3>1, <3>3
      <4> QED
        BY <1>6, <3>1, <3>3, <4>1
    <3> QED
      BY <2>4, <3>2, <3>3
  <2>8. ASSUME NEW h \in 1..Len(done), NEW j \in 1..Len(r), r[j].by # "watch"
        PROVE  done[h] < Num(r[j])
    BY <1>3, <2>3, <2>8
  <2> QED
    BY <2>1, <2>6, <2>7, <2>8 DEF Used
<1>9. \A i \in 1..Len(r) : ~IsToolChange(r[i])
  BY <1>3, <1>4
<1>10. \A i \in 2..l : \E j \in 1..Len(r) : r[j] = q[i]
  <2> TAKE i \in 2..l
  <2>1. i - 1 \in 1..Len(r) /\ (i - 1) + 1 = i
    BY <1>2
  <2> QED
    BY <1>3, <2>1
<1> QED
  BY <1>5, <1>8, <1>9, <1>10 DEF QueueOK, Follows, r, l

\* The head is stamped, or a tool's query is followed by its change.
Succeeds(m, now, head, applied) ==
  \/ m.by = head.by /\ m.kind = head.kind /\ m.n = head.n /\ now = applied
  \/ IsQuery(head) /\ IsToolChange(m) /\ m.n = -head.n /\ now \subseteq applied \cup {head.n}

LEMMA QueueHead ==
  ASSUME NEW q, NEW n, NEW applied, NEW done, NEW open \in BOOLEAN, QueueOK(q, n, applied, done, open),
         q # <<>>, NEW m \in Item, NEW now \in SUBSET Int, q[1].by # "watch",
         Succeeds(m, now, q[1], applied)
  PROVE  QueueOK(<<m>> \o Tail(q), n, now, done, open)
<1> DEFINE r == <<m>> \o Tail(q)
           l == Len(q)
<1> USE DEF Succeeds
<1>0. Numbered(q, n) /\ Used(q, n, applied, done, open)
  BY DEF QueueOK
<1>1. q \in Seq(Item) /\ n \in Nat
  BY <1>0 DEF Numbered
<1>2. r \in Seq(Item) /\ Len(r) = l /\ r[1] = m /\ \A i \in 2..l : r[i] = q[i]
  BY <1>1, HeadSeq
<1>20. l \in Nat
  BY <1>1
<1> HIDE DEF r
<1>3. \A j \in 1..l : j = 1 \/ (r[j] = q[j] /\ j # 1)
  <2> TAKE j \in 1..l
  <2>1. j = 1 \/ j \in 2..l
    BY <1>20
  <2> QED
    BY <1>2, <2>1
<1>4. /\ \A i \in 1..l : ItemOK(q[i]) /\ Num(q[i]) <= n
      /\ \A i, j \in 1..l : i < j /\ q[i].by # "watch" /\ q[j].by # "watch" => Num(q[i]) < Num(q[j])
      /\ \A i \in 1..l : IsToolChange(q[i]) => i = 1
  BY <1>0 DEF Numbered
<1>5. /\ 1 \in 1..l /\ ItemOK(q[1]) /\ q[1].n \in Int /\ Num(q[1]) <= n
      /\ q[1].n <= Num(q[1]) /\ -q[1].n <= Num(q[1])
  BY <1>0, HeadNumber
<1>6. m.by = q[1].by /\ Num(m) = Num(q[1]) /\ ItemOK(m)
  <2>1. CASE m.by = q[1].by /\ m.kind = q[1].kind /\ m.n = q[1].n
    BY <1>5, <2>1 DEF ItemOK, Num
  <2>2. CASE IsQuery(q[1]) /\ IsToolChange(m) /\ m.n = -q[1].n
    BY <1>5, <2>2 DEF ItemOK, Num, IsQuery, IsToolChange
  <2> QED
    BY <2>1, <2>2
<1>7. \A j \in 1..l : r[j].by = q[j].by /\ Num(r[j]) = Num(q[j]) /\ ItemOK(r[j])
  BY <1>2, <1>3, <1>4, <1>6
<1>8. Numbered(r, n)
  <2>1. \A j \in 1..l : IsToolChange(r[j]) => j = 1
    BY <1>3, <1>4
  <2> QED
    BY <1>1, <1>2, <1>4, <1>7, <2>1 DEF Numbered
<1>9. Used(r, n, now, done, open)
  <2>1. /\ applied \in SUBSET Int /\ done \in Seq(Nat)
        /\ \A x \in applied : -n <= x /\ x <= n
        /\ \A k \in 1..Len(done) : done[k] <= n
        /\ \A i, j \in 1..Len(done) : i < j => done[i] < done[j]
    BY <1>0 DEF Used
  <2>2. \A x \in applied, i \in 1..l : q[i].by # "watch" =>
             \/ x < Num(q[i]) /\ -x < Num(q[i])
             \/ IsToolChange(q[i]) /\ x = -q[i].n
    BY <1>0 DEF Used
  <2>3. \A h \in 1..Len(done), i \in 1..l : q[i].by # "watch" =>
             \/ done[h] < Num(q[i])
             \/ open /\ i = 1 /\ q[i].kind = "modify" /\ done[h] = q[i].n
    BY <1>0 DEF Used
  <2>4. \A x \in now : x \in applied \/ x = q[1].n
    OBVIOUS
  <2>5. Num(q[1]) \in Nat
    BY <1>0, HeadNumber
  <2>50. -n <= q[1].n /\ q[1].n <= n
    BY <1>1, <1>5, <2>5
  <2>6. \A x \in now : -n <= x /\ x <= n
    BY <2>1, <2>4, <2>50
  <2>7. ASSUME NEW x \in now, NEW j \in 1..l, r[j].by # "watch"
        PROVE  \/ x < Num(r[j]) /\ -x < Num(r[j])
               \/ IsToolChange(r[j]) /\ x = -r[j].n
    <3>1. CASE j # 1 /\ x \in applied
      BY <1>3, <2>2, <2>7, <3>1
    <3>2. CASE j = 1 /\ x \in applied
      <4>1. \/ x < Num(q[1]) /\ -x < Num(q[1])
            \/ IsToolChange(q[1]) /\ x = -q[1].n
        BY <1>5, <2>2, <3>2
      <4>2. CASE m.kind = q[1].kind /\ m.n = q[1].n
        BY <1>2, <1>6, <3>2, <4>1, <4>2 DEF IsToolChange
      <4>3. CASE IsQuery(q[1])
        BY <1>2, <1>6, <3>2, <4>1, <4>3 DEF IsToolChange, IsQuery
      <4> QED
        BY <4>2, <4>3
    <3>3. CASE x \notin applied
      <4>1. IsQuery(q[1]) /\ IsToolChange(m) /\ m.n = -q[1].n /\ x = q[1].n
        BY <2>4, <3>3
      <4>2. CASE j = 1
        BY <1>2, <1>5, <4>1, <4>2
      <4>3. CASE j # 1
        <5>1. Num(q[1]) < Num(q[j]) /\ Num(q[j]) \in Nat /\ r[j] = q[j]
          BY <1>0, <1>3, <1>7, <2>7, <4>3, HeadNumber
        <5> QED
          BY <1>5, <2>5, <4>1, <5>1
      <4> QED
        BY <4>2, <4>3
    <3> QED
      BY <3>1, <3>2, <3>3
  <2>8. ASSUME NEW h \in 1..Len(done), NEW j \in 1..l, r[j].by # "watch"
        PROVE  \/ done[h] < Num(r[j])
               \/ open /\ j = 1 /\ r[j].kind = "modify" /\ done[h] = r[j].n
    <3>1. CASE j # 1
      BY <1>3, <2>3, <2>8, <3>1
    <3>2. CASE j = 1
      <4>1. \/ done[h] < Num(q[1])
            \/ open /\ q[1].kind = "modify" /\ done[h] = q[1].n
        BY <1>5, <2>3, <3>2
      <4>2. CASE m.kind = q[1].kind /\ m.n = q[1].n
        BY <1>2, <1>6, <3>2, <4>1, <4>2
      <4>3. CASE IsQuery(q[1])
        BY <1>2, <1>6, <3>2, <4>1, <4>3 DEF IsQuery
      <4> QED
        BY <4>2, <4>3
    <3> QED
      BY <3>1, <3>2
  <2> QED
    BY <1>2, <2>1, <2>6, <2>7, <2>8 DEF Used
<1> QED
  BY <1>8, <1>9 DEF QueueOK, r

\* An answer that opens says nothing of numbers; the modification at the head is
\* committed after all that were committed before.
LEMMA QueueOpens ==
  ASSUME NEW q, NEW n, NEW applied, NEW done, NEW open \in BOOLEAN, QueueOK(q, n, applied, done, open),
         NEW still \in BOOLEAN, open => still
  PROVE  QueueOK(q, n, applied, done, still)
<1>1. \A k \in 1..Len(done), i \in 1..Len(q) : q[i].by # "watch" =>
       \/ done[k] < Num(q[i])
       \/ still /\ i = 1 /\ q[i].kind = "modify" /\ done[k] = q[i].n
  BY DEF QueueOK, Used
<1> QED
  BY <1>1 DEF QueueOK, Used

LEMMA QueueServed ==
  ASSUME NEW q, NEW n, NEW applied, NEW done, NEW open \in BOOLEAN, QueueOK(q, n, applied, done, open),
         ~open, q # <<>>, q[1].kind = "modify", NEW still \in BOOLEAN, still
  PROVE  QueueOK(q, n, applied, Append(done, q[1].n), still)
<1> DEFINE x == q[1].n
           d == Append(done, x)
<1>0. Numbered(q, n) /\ Used(q, n, applied, done, open)
  BY DEF QueueOK
<1>1. /\ 1 \in 1..Len(q) /\ ItemOK(q[1]) /\ x \in Int /\ Num(q[1]) <= n /\ n \in Nat
      /\ q[1].by # "watch" =>
           \A i \in 1..Len(q) : i # 1 /\ q[i].by # "watch" => Num(q[1]) < Num(q[i])
  BY <1>0, HeadNumber
<1>2. q[1].by # "watch" /\ x > 0 /\ Num(q[1]) = x /\ x \in Nat
  BY <1>1 DEF ItemOK, Num
<1>3. /\ applied \in SUBSET Int /\ done \in Seq(Nat)
      /\ \A m \in applied : -n <= m /\ m <= n
      /\ \A k \in 1..Len(done) : done[k] <= n
      /\ \A i, j \in 1..Len(done) : i < j => done[i] < done[j]
  BY <1>0 DEF Used
<1>4. \A m \in applied, i \in 1..Len(q) : q[i].by # "watch" =>
             \/ m < Num(q[i]) /\ -m < Num(q[i])
             \/ IsToolChange(q[i]) /\ m = -q[i].n
  BY <1>0 DEF Used
<1>5. \A k \in 1..Len(done), i \in 1..Len(q) : q[i].by # "watch" => done[k] < Num(q[i])
  BY <1>0 DEF Used
<1>6. \A k \in 1..Len(done) : done[k] < x
  BY <1>1, <1>2, <1>5
<1>7. /\ d \in Seq(Nat) /\ Len(d) = Len(done) + 1 /\ Len(done) \in Nat /\ d[Len(done) + 1] = x
      /\ \A k \in 1..Len(done) : d[k] = done[k]
  BY <1>2, <1>3
<1> HIDE DEF d, x
<1>8. \A k \in 1..Len(d) : (k \in 1..Len(done) /\ d[k] = done[k]) \/ (k = Len(done) + 1 /\ d[k] = x)
  <2> TAKE k \in 1..Len(d)
  <2>1. k \in 1..Len(done) \/ k = Len(done) + 1
    BY <1>7
  <2> QED
    BY <1>7, <2>1
<1>9. \A k \in 1..Len(d) : d[k] <= n
  BY <1>1, <1>2, <1>3, <1>8
<1>10. ASSUME NEW i \in 1..Len(d), NEW j \in 1..Len(d), i < j PROVE d[i] < d[j]
  <2>1. i \in 1..Len(done) /\ d[i] = done[i]
    BY <1>7, <1>8, <1>10
  <2> QED
    BY <1>3, <1>6, <1>8, <1>10, <2>1
<1>11. ASSUME NEW k \in 1..Len(d), NEW i \in 1..Len(q), q[i].by # "watch"
       PROVE  d[k] < Num(q[i]) \/ (i = 1 /\ q[i].kind = "modify" /\ d[k] = q[i].n)
  <2>1. CASE k \in 1..Len(done) /\ d[k] = done[k]
    BY <1>5, <1>11, <2>1
  <2>2. CASE d[k] = x /\ i = 1
    BY <2>2 DEF x
  <2>3. CASE d[k] = x /\ i # 1
    BY <1>1, <1>2, <1>11, <2>3
  <2> QED
    BY <1>8, <2>1, <2>2, <2>3
<1>12. Used(q, n, applied, d, still)
  BY <1>3, <1>4, <1>7, <1>9, <1>10, <1>11 DEF Used
<1> QED
  BY <1>0, <1>12 DEF QueueOK, d, x

\* No result has the number of a head that is about to start.
LEMMA HeadIsNew ==
  ASSUME NEW q, NEW n, NEW applied, NEW done, NEW open \in BOOLEAN, QueueOK(q, n, applied, done, open),
         q # <<>>, q[1].by # "watch"
  PROVE  q[1].n \notin applied
<1>1. Numbered(q, n) /\ Used(q, n, applied, done, open)
  BY DEF QueueOK
<1>2. 1 \in 1..Len(q) /\ ItemOK(q[1]) /\ q[1].n \in Int
  BY <1>1, HeadNumber
<1>3. ASSUME q[1].n \in applied PROVE FALSE
  <2>1. \/ q[1].n < Num(q[1]) /\ -q[1].n < Num(q[1])
        \/ IsToolChange(q[1]) /\ q[1].n = -q[1].n
    BY <1>1, <1>2, <1>3 DEF Used
  <2> QED
    BY <1>2, <2>1 DEF Num, ItemOK, IsToolChange
<1> QED
  BY <1>3

-----------------------------------------------------------------------------
(* The inductive invariant of the page. *)

Replica ==
  [cells : Cells, rev : Nat, sync : SyncStates, pending : SUBSET Int, applied : SUBSET Int]

DataOK ==
  /\ file \in Cells /\ log \in Seq(Cells)
  /\ EditorOK(ed) /\ ed.outbound = <<>>
  /\ replica \in Replica

\* The page shows, holds and falls back on what the gateway committed.
IsCommitted(snap) == snap.rev \in 1..Rev /\ snap.cells = log[snap.rev]
SeenOK ==
  /\ IsCommitted(ed) /\ replica.rev \in 1..Rev /\ replica.rev <= ed.rev
  /\ IsCommitted(before)
  /\ news # <<>> => IsCommitted(news[1])

Ended == flight.at \in {"answered", "lost"}
NumbersOK == QueueOK(queue, issued, replica.applied, served, Ended)

\* A tool is at work from its query to its change.
ToolOK == queue # <<>> /\ IsToolChange(First) => ed.busy

\* The head is out: it was prepared for the revision of the replica, and an
\* answer is as new as anything the page has.
AnswerOK(f) ==
  /\ f.at = "answered" /\ f.ok \in BOOLEAN
  /\ f.rev \in Nat /\ ed.rev <= f.rev /\ f.rev <= Rev /\ f.cells = log[f.rev]
  /\ f.ok => f.base = replica.rev
  /\ f.ok /\ First.kind = "complete" => f.rev = replica.rev
OutOK ==
  /\ queue # <<>> /\ First.by # "watch" /\ First.expected = replica.rev
  /\ before.rev = replica.rev
  /\ replica.pending = {First.n} /\ First.n \notin replica.applied
  /\ First.by = "tool" => ed.busy
FlightOK ==
  \/ flight = NoFlight /\ replica.cells = log[replica.rev] /\ replica.pending = {}
  \/ OutOK /\ \/ flight = Waiting
              \/ flight = Running /\ First.kind = "execute"
              \/ flight = [at |-> "lost"]
              \/ AnswerOK(flight)

\* The page is marked busy for something a user's command will end.
Marking ==
  ed.sync \in Busy =>
    \E i \in 1..Len(queue) : queue[i].by = "user" /\ queue[i].kind # "complete"

PageInvariant ==
  DataOK /\ SeenOK /\ NumbersOK /\ ToolOK /\ FlightOK /\ Marking /\ ToolsSpareDrafts

USE DEF IsCommitted, Rev, First, Ended

LEMMA InitOK ==
  ASSUME PageInit
  PROVE  PageInvariant
<1> USE CellsAssumption, PageAssumption
<1> DEFINE snap == Snapshot(file, 1)
<1>1. session.opened \in Nat /\ file \in [1..session.opened -> {NewCell(id) : id \in CellId}]
  BY DEF PageInit
<1>2. \A id \in CellId : NewCell(id) \in Cell
  <2>1. Start \in Source
    BY DEF Start
  <2> QED
    BY <2>1 DEF NewCell, Cell, NoOutput
<1>3. {NewCell(id) : id \in CellId} \subseteq Cell
  BY <1>2
<1>4. file \in [1..session.opened -> Cell]
  BY <1>1, <1>3
<1>5. file \in Cells
  BY <1>1, <1>4 DEF Cells
<1>6. log = <<file>> /\ log \in Seq(Cells) /\ Len(log) = 1 /\ log[1] = file
  BY <1>5 DEF PageInit
<1>7. snap.cells = file /\ snap.rev = 1
  BY DEF Snapshot
<1>8. /\ replica \in Replica /\ replica.rev = 1 /\ replica.cells = file
      /\ replica.pending = {} /\ replica.applied = {}
  BY <1>5, <1>7 DEF PageInit, NewReplica, Replica, SyncStates
<1>9. /\ ed.cells = file /\ ed.rev = 1 /\ ed.sync = "Synchronized" /\ ed.editors = Texts(file) /\ ed.dirty = {}
      /\ ed.undo = <<>> /\ ed.redo = <<>> /\ ed.outbound = <<>> /\ ed.readOnly = FALSE /\ ed.busy = FALSE
      /\ ed = [cells |-> ed.cells, rev |-> ed.rev, sync |-> ed.sync, editors |-> ed.editors,
               dirty |-> ed.dirty, undo |-> ed.undo, redo |-> ed.redo, outbound |-> ed.outbound,
               readOnly |-> ed.readOnly, busy |-> ed.busy]
  BY <1>7 DEF PageInit, NewEditor
<1>10. Texts(file) \in [Ids(file) -> Source]
  <2>1. PICK c : c = file
    OBVIOUS
  <2>2. \A id \in Ids(c) : CellOf(c, id).src \in Source
    BY <1>5, <2>1, IdsTyped DEF Cell
  <2> QED
    BY <2>1, <2>2 DEF Texts
<1>11. EditorOK(ed)
  <2>1. ed.editors \in [Ids(ed.cells) -> Source]
    BY <1>9, <1>10
  <2>2. ed.undo \in Seq(Changes) /\ ed.redo \in Seq(Changes) /\ ed.outbound \in Seq(Emitted)
    BY <1>9
  <2>3. ed \in Frames(ed)
    BY <1>9, <2>1, <2>2 DEF Frames
  <2>4. /\ ed.cells \in Cells /\ ed.rev \in Nat /\ ed.sync \in SyncStates /\ ed.dirty \subseteq Ids(ed.cells)
        /\ ed.readOnly \in BOOLEAN /\ ed.busy \in BOOLEAN
    <3>1. ed.cells \in Cells /\ ed.rev \in Nat /\ ed.dirty \subseteq Ids(ed.cells)
      BY <1>5, <1>9
    <3>2. ed.sync \in SyncStates
      BY <1>9 DEF SyncStates
    <3>3. ed.readOnly \in BOOLEAN /\ ed.busy \in BOOLEAN
      BY <1>9
    <3> QED
      BY <3>1, <3>2, <3>3
  <2> QED
    BY <2>3, <2>4 DEF EditorOK
<1>12. DataOK
  BY <1>5, <1>6, <1>8, <1>9, <1>11 DEF DataOK
<1>15. before.rev = 1 /\ before.cells = file /\ news = <<>>
  BY <1>7 DEF PageInit
<1>16. SeenOK
  BY <1>6, <1>8, <1>9, <1>15 DEF SeenOK
<1>13. NumbersOK
  BY <1>8 DEF NumbersOK, QueueOK, Numbered, Used, PageInit, NoFlight
<1>14. ToolOK /\ FlightOK /\ Marking /\ ToolsSpareDrafts
  BY <1>6, <1>8, <1>9 DEF ToolOK, FlightOK, Marking, ToolsSpareDrafts, PageInit, Busy
<1> QED
  BY <1>12, <1>13, <1>14, <1>16 DEF PageInvariant

-----------------------------------------------------------------------------
(* The gestures of the user. *)

\* Every gesture but typing and a tool's request is a frame of the editor.
LEMMA GestureIsFrame ==
  ASSUME DataOK, Gesture
  PROVE  Type \/ RequestTool \/ \E e \in Frames(ed) : Frame(e) /\ Untouched
<1> PICK d : d = ed
  OBVIOUS
<1>1. EditorOK(d) /\ d.cells \in Cells
  BY DEF DataOK, EditorOK
<1>2. /\ \A id \in Ids(d.cells) : id \in CellId
      /\ Fresh \subseteq CellId
  BY <1>1, IdsTyped DEF Fresh
<1>3. CASE Save
  BY <1>1, <1>3, SaveTyped DEF Save, Act
<1>4. CASE Insert
  <2>1. PICK id \in Ids(d.cells), new \in Fresh : Act("insert", InsertBelow(ed, id, NewCell(new)))
    BY <1>4 DEF Insert
  <2>2. NewCell(new) \in Cell
    <3>1. Start \in Source
      BY CellsAssumption DEF Start
    <3> QED
      BY <1>2, <3>1, CellsAssumption DEF NewCell, Cell, NoOutput
  <2>3. InsertBelow(d, id, NewCell(new)) \in Frames(d)
    BY <1>1, <2>2, GestureTyped
  <2> QED
    BY <2>1, <2>3 DEF Act
<1>5. CASE Copy
  <2>1. PICK id \in Ids(d.cells), new \in Fresh :
          \/ Act("duplicate", Duplicate(ed, id, new))
          \/ Act("paste", Paste(ed, id, CellOf(ed.cells, id), new))
    BY <1>5 DEF Copy
  <2>2. Duplicate(d, id, new) \in Frames(d) /\ Paste(d, id, CellOf(d.cells, id), new) \in Frames(d)
    BY <1>1, <1>2, GestureTyped
  <2> QED
    BY <2>1, <2>2 DEF Act
<1>6. CASE Delete
  <2>1. PICK id \in Ids(d.cells) : Act("delete", DeleteCell(ed, id))
    BY <1>6 DEF Delete
  <2>2. DeleteCell(d, id) \in Frames(d)
    BY <1>1, GestureTyped
  <2> QED
    BY <2>1, <2>2 DEF Act
<1>7. CASE Move
  <2>1. PICK id \in Ids(d.cells), i \in 0..(Len(d.cells) - 1) : Act("move", MoveCell(ed, id, i))
    BY <1>7 DEF Move
  <2>2. i \in Nat
    BY <1>1 DEF Cells
  <2>3. MoveCell(d, id, i) \in Frames(d)
    BY <1>1, <2>2, GestureTyped
  <2> QED
    BY <2>1, <2>3 DEF Act
<1>8. CASE Retype
  <2>1. PICK id \in Ids(d.cells), k \in Kind : Act("kind", SetKind(ed, id, k))
    BY <1>8 DEF Retype
  <2>2. SetKind(d, id, k) \in Frames(d)
    BY <1>1, GestureTyped
  <2> QED
    BY <2>1, <2>2 DEF Act
<1>9. CASE Clear
  BY <1>1, <1>9, ClearTyped DEF Clear, Act
<1>10. CASE Replace
  <2>1. PICK old \in Source, new \in Source : Act("replace", ReplaceText(ed, old, new))
    BY <1>10 DEF Replace
  <2>2. ReplaceText(d, old, new) \in Frames(d)
    BY <1>1, ReplaceTyped
  <2> QED
    BY <2>1, <2>2 DEF Act
<1>11. CASE Execute
  <2>1. PICK id \in Ids(d.cells) : Act("run", Run(ed, id))
    BY <1>11 DEF Execute
  <2>2. Run(d, id) \in Frames(d)
    BY <1>1, GestureTyped
  <2> QED
    BY <2>1, <2>2 DEF Act
<1>12. CASE UndoRedo
  <2>1. PICK undoing \in BOOLEAN : Act("undo", Replay(ed, undoing))
    BY <1>12 DEF UndoRedo
  <2>2. Replay(d, undoing) \in Frames(d)
    BY <1>1, ReplayTyped
  <2> QED
    BY <2>1, <2>2 DEF Act
<1>13. d \in Frames(d) /\ "reconnect" \in UserKind /\ "interrupt" \in UserKind /\ "complete" \in UserKind
  BY <1>1 DEF EditorOK, UserKind
<1>14. CASE Reconnect
  <2>1. Command(d, "reconnect", NoCell) \in Frames(d)
    BY <1>1, <1>13, CommandTyped
  <2> QED
    BY <1>14, <2>1 DEF Reconnect, Act
<1>15. CASE Interrupt
  <2>1. Command(d, "interrupt", NoCell) \in Frames(d)
    BY <1>1, <1>13, CommandTyped
  <2> QED
    BY <1>15, <2>1 DEF Interrupt, Act
<1>16. CASE Complete
  <2>1. PICK id \in Ids(d.cells) : Act("complete", Command(ed, "complete", id))
    BY <1>16 DEF Complete
  <2>2. Command(d, "complete", id) \in Frames(d)
    BY <1>1, <1>2, <1>13, CommandTyped
  <2> QED
    BY <2>1, <2>2 DEF Act
<1> QED
  BY <1>3, <1>4, <1>5, <1>6, <1>7, <1>8, <1>9, <1>10, <1>11, <1>12, <1>14, <1>15, <1>16 DEF Gesture

\* Typing is heard only while no tool is at work.
LEMMA TypeOK ==
  ASSUME PageInvariant, Type
  PROVE  PageInvariant'
<1>1. /\ ~ed.busy /\ UNCHANGED <<queue, issued, replica, before, flight, news, file, log, served>>
  BY DEF Type, Untouched, gatewayVars
<1>2. PICK id \in DOMAIN ed.editors, text \in Source : ed' = Write(ed, id, text)
  BY DEF Type
<1> PICK d : d = ed
  OBVIOUS
<1> PICK e : e = Write(d, id, text)
  OBVIOUS
<1>3. EditorOK(d) /\ d \in Frames(d) /\ d.outbound = <<>>
  BY DEF PageInvariant, DataOK, EditorOK
<1>4. d.editors \in [Ids(d.cells) -> Source] /\ id \in Ids(d.cells)
  BY <1>3, FramesOf
<1>5. /\ e = [d EXCEPT !.editors = [d.editors EXCEPT ![id] = text], !.dirty = d.dirty \cup {id}]
      /\ [d.editors EXCEPT ![id] = text] \in [Ids(d.cells) -> Source]
  BY <1>4 DEF Write
<1>6. /\ e.cells = d.cells /\ e.rev = d.rev /\ e.sync = d.sync /\ e.outbound = <<>>
      /\ e.readOnly = d.readOnly /\ e.busy = d.busy /\ e.dirty = d.dirty \cup {id}
      /\ e \in Frames(e)
  BY <1>3, <1>5 DEF Frames
<1>7. EditorOK(e)
  BY <1>3, <1>4, <1>6 DEF EditorOK
<1>8. ed' = e
  BY <1>2
<1>9. DataOK'
  BY <1>1, <1>6, <1>7, <1>8 DEF PageInvariant, DataOK
<1>10. SeenOK' /\ NumbersOK' /\ ToolOK'
  BY <1>1, <1>6, <1>8 DEF PageInvariant, SeenOK, NumbersOK, ToolOK
<1>11. FlightOK'
  BY <1>1, <1>6, <1>8 DEF PageInvariant, FlightOK, OutOK, AnswerOK
<1>12. Marking' /\ ToolsSpareDrafts'
  BY <1>1, <1>6, <1>8 DEF PageInvariant, Marking, ToolsSpareDrafts
<1> QED
  BY <1>9, <1>10, <1>11, <1>12 DEF PageInvariant

LEMMA FrameOK ==
  ASSUME PageInvariant, NEW e \in Frames(ed), Frame(e), Untouched
  PROVE  PageInvariant'
<1> DEFINE out == e.outbound
           items == [i \in DOMAIN out |-> [out[i] EXCEPT !.n = issued + i]]
           k == Len(out)
<1>1. /\ ed' = Drained(e) /\ queue' = queue \o items /\ issued' = issued + k
      /\ UNCHANGED <<replica, before, flight, news, file, log, served>>
  BY DEF Frame, Enqueue, Untouched, gatewayVars
<1> PICK d : d = ed
  OBVIOUS
<1> PICK f : f = Drained(e)
  OBVIOUS
<1> PICK q : q = queue
  OBVIOUS
<1> PICK n : n = issued
  OBVIOUS
<1> PICK applied : applied = replica.applied
  OBVIOUS
<1> PICK done : done = served
  OBVIOUS
<1> PICK open : open = Ended
  OBVIOUS
<1>2. QueueOK(q, n, applied, done, open) /\ open \in BOOLEAN /\ n \in Nat
  BY DEF PageInvariant, NumbersOK, QueueOK, Numbered
<1>3. EditorOK(d) /\ e \in Frames(d)
  BY DEF PageInvariant, DataOK
<1>4. /\ EditorOK(f) /\ f.outbound = <<>> /\ f.cells = d.cells /\ f.rev = d.rev
      /\ f.dirty \subseteq d.dirty /\ f.readOnly = d.readOnly /\ f.busy = d.busy
      /\ f.sync \in Busy => d.sync \in Busy \/ \E i \in 1..k : out[i].kind # "complete"
  BY <1>3, DrainedTyped
<1>5. out \in Seq(Emitted) /\ k \in Nat /\ DOMAIN out = 1..k /\ \A i \in 1..k : out[i] \in Emitted
  BY <1>3, FramesOf
<1> HIDE DEF out, k
<1>6. \A i \in 1..k : /\ items[i] \in Item /\ items[i].by = "user" /\ items[i].kind = out[i].kind
                      /\ items[i].kind \in UserKind /\ items[i].n = n + i
  <2> TAKE i \in 1..k
  <2>1. out[i] \in Emitted /\ items[i] = [out[i] EXCEPT !.n = n + i] /\ n + i \in Int
    BY <1>2, <1>5
  <2> QED
    BY <2>1 DEF Emitted, Item, ItemKind
<1>7. items \in Seq(Item) /\ Len(items) = k
  BY <1>5, <1>6
<1> HIDE DEF items
<1>8. \A i \in 1..Len(items) : /\ ItemOK(items[i]) /\ items[i].by # "watch"
                               /\ ~IsToolChange(items[i]) /\ Num(items[i]) = n + i
  BY <1>2, <1>5, <1>6, <1>7 DEF ItemOK, IsToolChange, Num
<1> DEFINE r == q \o items
<1>9. /\ QueueOK(r, n + k, applied, done, open)
      /\ q # <<>> => r # <<>> /\ r[1] = q[1]
      /\ Len(r) = Len(q) + k
      /\ \A i \in 1..Len(q) : r[i] = q[i]
      /\ \A i \in 1..k : r[Len(q) + i] = items[i]
  <2>1. QueueOK(r, n + Len(items), applied, done, open) /\ Extends(r, q, items)
    BY <1>2, <1>7, <1>8, QueueGrown
  <2> QED
    BY <1>7, <2>1 DEF Extends
<1> HIDE DEF r
<1>10. queue' = r /\ ed' = f /\ issued' = n + k
  BY <1>1 DEF r
<1>11. DataOK' /\ SeenOK'
  BY <1>1, <1>4, <1>10 DEF PageInvariant, DataOK, SeenOK
<1>12. NumbersOK'
  BY <1>1, <1>9, <1>10 DEF NumbersOK
<1>13. ToolOK'
  <2>1. CASE q # <<>>
    BY <1>4, <1>9, <1>10, <2>1 DEF PageInvariant, ToolOK
  <2>2. CASE q = <<>>
    <3>1. r # <<>> => r[1] = items[1] /\ 1 \in 1..k
      <4> SUFFICES ASSUME r # <<>> PROVE r[1] = items[1] /\ 1 \in 1..k
        OBVIOUS
      <4>1. Len(q) = 0 /\ r \in Seq(Item)
        BY <1>9, <2>2 DEF QueueOK, Numbered
      <4>2. k # 0
        BY <1>5, <1>9, <4>1
      <4> QED
        BY <1>5, <1>9, <4>1, <4>2
    <3> QED
      BY <1>7, <1>8, <1>10, <3>1 DEF ToolOK
  <2> QED
    BY <2>1, <2>2
<1>14. FlightOK'
  <2>1. CASE flight = NoFlight /\ replica.cells = log[replica.rev] /\ replica.pending = {}
    BY <1>1, <2>1 DEF FlightOK
  <2>2. CASE queue # <<>>
    <3>1. First' = First /\ queue' # <<>> /\ ed'.rev = ed.rev /\ ed'.busy = ed.busy
      BY <1>4, <1>9, <1>10, <2>2
    <3> QED
      BY <1>1, <3>1 DEF PageInvariant, FlightOK, OutOK, AnswerOK
  <2> QED
    BY <2>1, <2>2 DEF PageInvariant, FlightOK, OutOK
<1>15. Marking'
  <2> SUFFICES ASSUME f.sync \in Busy PROVE \E i \in 1..Len(r) : r[i].by = "user" /\ r[i].kind # "complete"
    BY <1>10 DEF Marking
  <2>0. Len(q) \in Nat
    BY <1>2 DEF QueueOK, Numbered
  <2>1. CASE d.sync \in Busy
    <3>1. PICK i \in 1..Len(q) : q[i].by = "user" /\ q[i].kind # "complete"
      BY <2>1 DEF PageInvariant, Marking
    <3>2. i \in 1..Len(r) /\ r[i] = q[i]
      BY <1>5, <1>9, <2>0
    <3> QED
      BY <3>1, <3>2
  <2>2. CASE \E i \in 1..k : out[i].kind # "complete"
    <3>1. PICK i \in 1..k : out[i].kind # "complete"
      BY <2>2
    <3>2. Len(q) + i \in 1..(Len(q) + k)
      BY <1>5, <2>0
    <3>3. Len(q) + i \in 1..Len(r) /\ r[Len(q) + i] = items[i]
      BY <1>9, <3>2
    <3> QED
      BY <1>6, <3>1, <3>3
  <2> QED
    BY <1>4, <2>1, <2>2
<1>16. ToolsSpareDrafts'
  BY <1>4, <1>10 DEF PageInvariant, ToolsSpareDrafts
<1> QED
  BY <1>11, <1>12, <1>13, <1>14, <1>15, <1>16 DEF PageInvariant

LEMMA RequestOK ==
  ASSUME PageInvariant, RequestTool
  PROVE  PageInvariant'
<1> DEFINE items == <<ToolQuery>>
<1>1. /\ queue' = queue \o items /\ issued' = issued + 1
      /\ UNCHANGED <<ed, replica, before, flight, news, file, log, served>>
  BY DEF RequestTool, Enqueue, Untouched, gatewayVars
<1> PICK q : q = queue
  OBVIOUS
<1> PICK n : n = issued
  OBVIOUS
<1> PICK applied : applied = replica.applied
  OBVIOUS
<1> PICK done : done = served
  OBVIOUS
<1> PICK open : open = Ended
  OBVIOUS
<1> PICK m : m = ToolQuery
  OBVIOUS
<1>2. QueueOK(q, n, applied, done, open) /\ open \in BOOLEAN /\ n \in Nat
  BY DEF PageInvariant, NumbersOK, QueueOK, Numbered
<1>3. /\ m.by = "tool" /\ m.kind = "query" /\ m.n = -(n + 1) /\ m \in Item
  <2>1. m = [by |-> "tool", kind |-> "query", changes |-> <<>>, cell |-> NoCell, expected |-> 0,
             n |-> -(n + 1)]
    BY DEF ToolQuery
  <2>2. <<>> \in Changes /\ -(n + 1) \in Int
    BY <1>2 DEF Changes
  <2> QED
    BY <2>1, <2>2 DEF Item, ItemKind
<1>4. items \in Seq(Item) /\ Len(items) = 1 /\ items[1] = m
  BY <1>3
<1> HIDE DEF items
<1>5. \A i \in 1..Len(items) : /\ ItemOK(items[i]) /\ items[i].by # "watch"
                               /\ ~IsToolChange(items[i]) /\ Num(items[i]) = n + i
  BY <1>2, <1>3, <1>4 DEF ItemOK, IsToolChange, Num
<1> DEFINE r == q \o items
<1>6. QueueOK(r, n + Len(items), applied, done, open) /\ Extends(r, q, items)
  BY <1>2, <1>4, <1>5, QueueGrown
<1> HIDE DEF r
<1>7. queue' = r /\ issued' = n + Len(items)
  BY <1>1, <1>4 DEF r
<1>8. DataOK' /\ SeenOK' /\ ToolsSpareDrafts'
  BY <1>1 DEF PageInvariant, DataOK, SeenOK, ToolsSpareDrafts
<1>9. NumbersOK'
  BY <1>1, <1>6, <1>7 DEF NumbersOK
<1>10. ToolOK'
  <2>1. CASE q # <<>>
    BY <1>1, <1>6, <1>7, <2>1 DEF PageInvariant, ToolOK, Extends
  <2>2. CASE q = <<>>
    BY <1>3, <1>4, <1>6, <1>7, <2>2 DEF ToolOK, Extends, IsToolChange
  <2> QED
    BY <2>1, <2>2
<1>11. FlightOK'
  <2>1. CASE flight = NoFlight /\ replica.cells = log[replica.rev] /\ replica.pending = {}
    BY <1>1, <2>1 DEF FlightOK
  <2>2. CASE queue # <<>>
    <3>1. First' = First /\ queue' # <<>>
      BY <1>6, <1>7, <2>2 DEF Extends
    <3> QED
      BY <1>1, <3>1 DEF PageInvariant, FlightOK, OutOK, AnswerOK
  <2> QED
    BY <2>1, <2>2 DEF PageInvariant, FlightOK, OutOK
<1>12. Marking'
  <2>1. \A i \in 1..Len(q) : i \in 1..Len(r) /\ r[i] = q[i]
    <3>1. Len(q) \in Nat /\ Len(items) \in Nat /\ Len(r) = Len(q) + Len(items)
      BY <1>2, <1>4, <1>6 DEF QueueOK, Numbered, Extends
    <3> QED
      BY <1>6, <3>1 DEF Extends
  <2> QED
    BY <1>1, <1>7, <2>1 DEF PageInvariant, Marking
<1> QED
  BY <1>8, <1>9, <1>10, <1>11, <1>12 DEF PageInvariant

-----------------------------------------------------------------------------
(* The queue moves on. *)

\* An editor that was told something but shows the same cells.
Told(e) ==
  [cells : {e.cells}, rev : {e.rev}, sync : SyncStates, editors : {e.editors}, dirty : {e.dirty},
   undo : {e.undo}, redo : {e.redo}, outbound : {e.outbound}, readOnly : BOOLEAN, busy : BOOLEAN]

LEMMA ToldOK ==
  ASSUME NEW e, EditorOK(e), NEW f \in Told(e)
  PROVE  /\ EditorOK(f) /\ f.cells = e.cells /\ f.rev = e.rev /\ f.dirty = e.dirty
         /\ f.outbound = e.outbound
<1>1. /\ e.editors \in [Ids(e.cells) -> Source] /\ e.undo \in Seq(Changes)
      /\ e.redo \in Seq(Changes) /\ e.outbound \in Seq(Emitted)
  BY FramesOf DEF EditorOK
<1>2. f \in Frames(f)
  BY <1>1 DEF Told, Frames
<1>3. /\ f.cells = e.cells /\ f.rev = e.rev /\ f.dirty = e.dirty /\ f.outbound = e.outbound
      /\ f.sync \in SyncStates /\ f.readOnly \in BOOLEAN /\ f.busy \in BOOLEAN
  BY DEF Told
<1> QED
  BY <1>2, <1>3 DEF EditorOK

LEMMA Telling ==
  ASSUME NEW e, EditorOK(e), NEW sync \in SyncStates, NEW busy \in BOOLEAN, NEW readOnly \in BOOLEAN
  PROVE  /\ [e EXCEPT !.sync = sync] \in Told(e) /\ [e EXCEPT !.busy = busy] \in Told(e)
         /\ [e EXCEPT !.readOnly = readOnly] \in Told(e)
<1>1. e.sync \in SyncStates /\ e.busy \in BOOLEAN /\ e.readOnly \in BOOLEAN
  BY DEF EditorOK
<1>2. e = [cells |-> e.cells, rev |-> e.rev, sync |-> e.sync, editors |-> e.editors,
           dirty |-> e.dirty, undo |-> e.undo, redo |-> e.redo, outbound |-> e.outbound,
           readOnly |-> e.readOnly, busy |-> e.busy]
  BY DEF EditorOK, Frames
<1> QED
  BY <1>1, <1>2 DEF Told

Freed(e) == [e EXCEPT !.busy = FALSE]
LEMMA FreedOK ==
  ASSUME NEW e, EditorOK(e)
  PROVE  /\ EditorOK(Freed(e)) /\ Freed(e).cells = e.cells /\ Freed(e).rev = e.rev
         /\ Freed(e).dirty = e.dirty /\ Freed(e).outbound = e.outbound /\ Freed(e).sync = e.sync
         /\ ~Freed(e).busy
<1> PICK b \in BOOLEAN : b = FALSE
  OBVIOUS
<1> PICK f : f = [e EXCEPT !.busy = b]
  OBVIOUS
<1>1. f \in Told(e)
  <2>1. e.sync \in SyncStates /\ e.readOnly \in BOOLEAN
    BY DEF EditorOK
  <2> QED
    BY <2>1, Telling
<1>2. e = [cells |-> e.cells, rev |-> e.rev, sync |-> e.sync, editors |-> e.editors,
           dirty |-> e.dirty, undo |-> e.undo, redo |-> e.redo, outbound |-> e.outbound,
           readOnly |-> e.readOnly, busy |-> e.busy]
  BY DEF EditorOK, Frames
<1>3. f.sync = e.sync /\ ~f.busy
  BY <1>2
<1>4. /\ EditorOK(f) /\ f.cells = e.cells /\ f.rev = e.rev /\ f.dirty = e.dirty
      /\ f.outbound = e.outbound
  BY <1>1, ToldOK
<1>5. f = Freed(e)
  BY DEF Freed
<1> QED
  BY <1>3, <1>4, <1>5

LEMMA ShownErrorOK ==
  ASSUME NEW e, EditorOK(e), NEW s \in SyncStates
  PROVE  /\ EditorOK(ShowError(e, s)) /\ ShowError(e, s).cells = e.cells /\ ShowError(e, s).rev = e.rev
         /\ ShowError(e, s).dirty = e.dirty /\ ShowError(e, s).outbound = e.outbound
         /\ ShowError(e, s).sync = s /\ ShowError(e, s).busy = e.busy
<1> PICK f : f = [e EXCEPT !.sync = s]
  OBVIOUS
<1>1. f \in Told(e)
  <2>1. e.busy \in BOOLEAN /\ e.readOnly \in BOOLEAN
    BY DEF EditorOK
  <2> QED
    BY <2>1, Telling
<1>2. e = [cells |-> e.cells, rev |-> e.rev, sync |-> e.sync, editors |-> e.editors,
           dirty |-> e.dirty, undo |-> e.undo, redo |-> e.redo, outbound |-> e.outbound,
           readOnly |-> e.readOnly, busy |-> e.busy]
  BY DEF EditorOK, Frames
<1>3. f.sync = s /\ f.busy = e.busy
  BY <1>2
<1>4. /\ EditorOK(f) /\ f.cells = e.cells /\ f.rev = e.rev /\ f.dirty = e.dirty
      /\ f.outbound = e.outbound
  BY <1>1, ToldOK
<1>5. f = ShowError(e, s)
  BY DEF ShowError
<1> QED
  BY <1>3, <1>4, <1>5

LEMMA ReplaceOK ==
  ASSUME NEW e, EditorOK(e), NEW sync \in SyncStates, NEW snap, snap.cells \in Cells, snap.rev \in Nat
  PROVE  /\ EditorOK(ReplaceState(e, snap, sync))
         /\ ReplaceState(e, snap, sync).cells = snap.cells /\ ReplaceState(e, snap, sync).rev = snap.rev
         /\ ReplaceState(e, snap, sync).sync = sync /\ ReplaceState(e, snap, sync).dirty = {}
         /\ ReplaceState(e, snap, sync).outbound = e.outbound
         /\ ReplaceState(e, snap, sync).busy = e.busy
         /\ ReplaceState(e, snap, sync).readOnly = e.readOnly
<1> PICK f : f = ReplaceState(e, snap, sync)
  OBVIOUS
<1>1. /\ e.undo \in Seq(Changes) /\ e.redo \in Seq(Changes) /\ e.outbound \in Seq(Emitted)
      /\ e.readOnly \in BOOLEAN /\ e.busy \in BOOLEAN
  BY FramesOf DEF EditorOK
<1>2. e = [cells |-> e.cells, rev |-> e.rev, sync |-> e.sync, editors |-> e.editors,
           dirty |-> e.dirty, undo |-> e.undo, redo |-> e.redo, outbound |-> e.outbound,
           readOnly |-> e.readOnly, busy |-> e.busy]
  BY DEF EditorOK, Frames
<1>3. Texts(snap.cells) \in [Ids(snap.cells) -> Source]
  <2>1. \A id \in Ids(snap.cells) : CellOf(snap.cells, id).src \in Source
    BY IdsTyped DEF Cell
  <2> QED
    BY <2>1 DEF Texts
<1>4. f = [cells |-> snap.cells, rev |-> snap.rev, sync |-> sync, editors |-> Texts(snap.cells),
           dirty |-> {}, undo |-> e.undo, redo |-> e.redo, outbound |-> e.outbound,
           readOnly |-> e.readOnly, busy |-> e.busy]
  BY <1>2 DEF ReplaceState
<1>5. f \in Frames(f)
  BY <1>1, <1>3, <1>4 DEF Frames
<1>6. /\ f.cells = snap.cells /\ f.rev = snap.rev /\ f.sync = sync /\ f.dirty = {}
      /\ f.outbound = e.outbound /\ f.busy = e.busy /\ f.readOnly = e.readOnly
  BY <1>4
<1>7. EditorOK(f)
  BY <1>1, <1>5, <1>6 DEF EditorOK
<1> QED
  BY <1>6, <1>7

\* The head is done, whatever it came to: the replica holds what was committed.
HeadDone ==
  /\ queue # <<>> /\ queue' = Tail(queue) /\ flight' = NoFlight
  /\ UNCHANGED <<file, log, issued, served>>
  /\ EditorOK(ed') /\ ed'.outbound = <<>> /\ IsCommitted(ed)' /\ (ed'.busy => ed'.dirty = {})
  /\ replica' \in Replica /\ replica'.rev \in 1..Rev /\ replica'.rev <= ed'.rev
  /\ replica'.cells = log[replica'.rev] /\ replica'.pending = {}
  /\ Settles(replica'.applied, replica.applied, First)
  /\ IsCommitted(before)' /\ (news' # <<>> => IsCommitted(news[1])')
  /\ ed'.sync \in Busy =>
       \E i \in 2..Len(queue) : queue[i].by = "user" /\ queue[i].kind # "complete"

LEMMA DoneOK ==
  ASSUME PageInvariant, HeadDone
  PROVE  PageInvariant'
<1> PICK q : q = queue
  OBVIOUS
<1> PICK n : n = issued
  OBVIOUS
<1> PICK applied : applied = replica.applied
  OBVIOUS
<1> PICK done : done = served
  OBVIOUS
<1> PICK open : open = Ended
  OBVIOUS
<1> PICK now : now = replica'.applied
  OBVIOUS
<1> PICK still : still = Ended'
  OBVIOUS
<1>1. QueueOK(q, n, applied, done, open) /\ open \in BOOLEAN /\ still \in BOOLEAN /\ q # <<>>
  BY DEF PageInvariant, NumbersOK, HeadDone
<1>2. now \in SUBSET Int
  BY DEF HeadDone, Replica
<1>3. Settles(now, applied, q[1])
  BY DEF HeadDone
<1>4. QueueOK(Tail(q), n, now, done, still) /\ Follows(Tail(q), q)
  BY <1>1, <1>2, <1>3, QueueDone, ZenonT(40)
<1> PICK r : r = Tail(q)
  OBVIOUS
<1>5. QueueOK(r, n, now, done, still) /\ Follows(r, q)
  BY <1>4
<1>6. queue' = r /\ issued' = n /\ served' = done
  BY DEF HeadDone
<1>7. DataOK' /\ SeenOK' /\ ToolsSpareDrafts'
  BY DEF PageInvariant, DataOK, SeenOK, ToolsSpareDrafts, HeadDone
<1>8. NumbersOK'
  BY <1>5, <1>6 DEF NumbersOK
<1>9. ToolOK'
  <2>1. r \in Seq(Item)
    BY <1>5 DEF QueueOK, Numbered
  <2>2. r # <<>> => 1 \in 1..Len(r)
    BY <2>1
  <2> QED
    BY <1>5, <1>6, <2>2 DEF ToolOK, Follows
<1>10. FlightOK'
  BY DEF FlightOK, HeadDone
<1>11. Marking'
  <2> SUFFICES ASSUME ed'.sync \in Busy
               PROVE  \E j \in 1..Len(r) : r[j].by = "user" /\ r[j].kind # "complete"
    BY <1>6 DEF Marking
  <2>1. PICK i \in 2..Len(q) : q[i].by = "user" /\ q[i].kind # "complete"
    BY DEF HeadDone
  <2>2. PICK j \in 1..Len(r) : r[j] = q[i]
    BY <1>5 DEF Follows
  <2> QED
    BY <2>1, <2>2
<1> QED
  BY <1>7, <1>8, <1>9, <1>10, <1>11 DEF PageInvariant

LEMMA ProposalTyped ==
  ASSUME NEW cells \in Cells, NEW changes \in Changes, Proposal(cells, changes).ok
  PROVE  Proposal(cells, changes).cells \in Cells
<1>1. ValidChanges(changes)
  BY DEF Proposal
<1>2. Apart(changes)
  BY <1>1 DEF ValidChanges, WellFormed, Apart
<1>3. Apply(cells, changes) \in [ok : BOOLEAN, cells : Cells]
  BY <1>2, ApplyTyped
<1> QED
  BY <1>3 DEF Proposal

\* What the page has of a user's command behind the head.
LEMMA MarkedBehind ==
  ASSUME PageInvariant, queue # <<>>, ed.sync \in Busy, First.by # "user" \/ First.kind = "complete"
  PROVE  \E i \in 2..Len(queue) : queue[i].by = "user" /\ queue[i].kind # "complete"
<1>1. PICK i \in 1..Len(queue) : queue[i].by = "user" /\ queue[i].kind # "complete"
  BY DEF PageInvariant, Marking
<1>2. i # 1
  BY <1>1
<1> QED
  BY <1>1, <1>2

LEMMA SendOK ==
  ASSUME PageInvariant, Send
  PROVE  PageInvariant'
<1> DEFINE cmd == Stamped(First)
           prepared == PrepareCommand(replica, cmd)
<1>1. /\ queue # <<>> /\ First.by # "watch" /\ flight = NoFlight
      /\ before' = Snapshot(replica.cells, replica.rev)
      /\ UNCHANGED <<news, issued, file, log, served>>
  BY DEF Send, gatewayVars
<1>2. replica.cells = log[replica.rev] /\ replica.pending = {}
  BY <1>1 DEF PageInvariant, FlightOK, NoFlight, Waiting, Running, AnswerOK
<1>3. /\ DataOK /\ SeenOK /\ EditorOK(ed) /\ ed.outbound = <<>> /\ replica \in Replica
      /\ replica.cells \in Cells /\ replica.rev \in Nat /\ replica.applied \in SUBSET Int
      /\ replica.sync \in SyncStates /\ replica.rev \in 1..Rev /\ replica.rev <= ed.rev
  BY DEF PageInvariant, DataOK, SeenOK, Replica
<1>4. before'.rev = replica.rev /\ before'.cells = replica.cells /\ IsCommitted(before)'
  BY <1>1, <1>2, <1>3 DEF Snapshot
<1>5. news' # <<>> => IsCommitted(news[1])'
  BY <1>1, <1>3 DEF SeenOK
<1>6. CASE Refused
  <2>1. Done(ed) /\ replica' = replica
    BY <1>6 DEF Send
  <2> PICK d : d = ed
    OBVIOUS
  <2> PICK f : f = Freed(d)
    OBVIOUS
  <2>2. /\ EditorOK(f) /\ f.cells = d.cells /\ f.rev = d.rev /\ f.outbound = <<>>
        /\ f.sync = d.sync /\ ~f.busy
    BY <1>3, FreedOK
  <2>3. ed' = f /\ queue' = Tail(queue) /\ flight' = NoFlight
    BY <2>1 DEF Done, Freed
  <2>4. First.by = "tool"
    BY <1>6 DEF Refused
  <2>5. ed'.sync \in Busy =>
           \E i \in 2..Len(queue) : queue[i].by = "user" /\ queue[i].kind # "complete"
    BY <1>1, <2>2, <2>3, <2>4, MarkedBehind
  <2>6. HeadDone
    BY <1>1, <1>2, <1>3, <1>4, <1>5, <2>1, <2>2, <2>3, <2>5 DEF HeadDone, SeenOK, Settles
  <2> QED
    BY <2>6, DoneOK
<1>7. CASE ~Refused /\ ~prepared.ok
  <2>1. Done(Broken(ed)) /\ replica' = ReplaceSnapshot(replica, before').state
    BY <1>7 DEF Send
  <2> PICK d : d = ed
    OBVIOUS
  <2> PICK s : s = IF First.by = "tool" THEN "Error" ELSE "Disconnected"
    OBVIOUS
  <2> PICK e : e = ShowError(d, s)
    OBVIOUS
  <2> PICK f : f = Freed(e)
    OBVIOUS
  <2>2. s \in SyncStates /\ s \notin Busy
    BY DEF SyncStates, Busy
  <2>3. EditorOK(e) /\ e.cells = d.cells /\ e.rev = d.rev /\ e.outbound = <<>> /\ e.sync = s
    BY <1>3, <2>2, ShownErrorOK
  <2>4. /\ EditorOK(f) /\ f.cells = d.cells /\ f.rev = d.rev /\ f.outbound = <<>>
        /\ f.sync = s /\ ~f.busy
    <3>1. EditorOK(e)
      BY <2>3
    <3>2. /\ EditorOK(f) /\ f.cells = e.cells /\ f.rev = e.rev /\ f.dirty = e.dirty
          /\ f.outbound = e.outbound /\ f.sync = e.sync /\ ~f.busy
      BY <3>1, FreedOK
    <3> QED
      BY <2>3, <3>2
  <2>5. ed' = f /\ queue' = Tail(queue) /\ flight' = NoFlight
    BY <2>1 DEF Done, Freed, Broken
  <2>6. /\ replica' \in Replica /\ replica'.rev = replica.rev /\ replica'.cells = replica.cells
        /\ replica'.pending = {} /\ replica'.applied = replica.applied
    <3>1. replica' = [replica EXCEPT !.cells = replica.cells, !.rev = replica.rev, !.pending = {},
                                     !.sync = "Synchronized"]
      BY <1>3, <1>4, <2>1 DEF ReplaceSnapshot
    <3>2. "Synchronized" \in SyncStates
      BY DEF SyncStates
    <3> QED
      BY <1>3, <3>1, <3>2 DEF Replica
  <2>7. HeadDone
    BY <1>1, <1>2, <1>3, <1>4, <1>5, <2>2, <2>4, <2>5, <2>6 DEF HeadDone, SeenOK, Settles
  <2> QED
    BY <2>7, DoneOK
<1>8. CASE ~Refused /\ prepared.ok
  <2>1. /\ replica' = prepared.state /\ flight' = Waiting /\ queue' = <<cmd>> \o Tail(queue)
        /\ ed' = [ed EXCEPT !.busy = (First.by = "tool")]
    BY <1>8 DEF Send
  <2> PICK q : q = queue
    OBVIOUS
  <2> PICK n : n = issued
    OBVIOUS
  <2> PICK applied : applied = replica.applied
    OBVIOUS
  <2> PICK done : done = served
    OBVIOUS
  <2> PICK open : open = Ended
    OBVIOUS
  <2>2. QueueOK(q, n, applied, done, open) /\ open \in BOOLEAN /\ q # <<>> /\ q[1].by # "watch"
        /\ applied \in SUBSET Int
    BY <1>1, <1>3 DEF PageInvariant, NumbersOK
  <2>3. q \in Seq(Item) /\ q[1] \in Item /\ ItemOK(q[1])
    BY <2>2, HeadNumber DEF QueueOK, Numbered
  <2> PICK m : m = cmd
    OBVIOUS
  <2>4. m \in Item /\ m.by = q[1].by /\ m.kind = q[1].kind /\ m.n = q[1].n /\ m.changes = q[1].changes
    <3>1. m = q[1] \/ m = [q[1] EXCEPT !.expected = replica.rev]
      BY DEF Stamped
    <3> QED
      BY <1>3, <2>3, <3>1 DEF Item
  <2>5. m.expected = replica.rev
    BY <1>8 DEF PrepareCommand
  <2>6. QueueOK(<<m>> \o Tail(q), n, applied, done, open)
    <3>1. Succeeds(m, applied, q[1], applied)
      BY <2>4 DEF Succeeds
    <3> QED
      BY <2>2, <2>4, <3>1, QueueHead
  <2>7. /\ Len(<<m>> \o Tail(q)) = Len(q) /\ (<<m>> \o Tail(q))[1] = m
        /\ \A i \in 2..Len(q) : (<<m>> \o Tail(q))[i] = q[i]
    BY <2>2, <2>3, <2>4, HeadSeq
  <2> PICK r : r = <<m>> \o Tail(q)
    OBVIOUS
  <2>8. /\ QueueOK(r, n, applied, done, open) /\ Len(r) = Len(q) /\ r[1] = m
        /\ \A i \in 2..Len(q) : r[i] = q[i]
    BY <2>6, <2>7
  <2>9. queue' = r /\ r # <<>> /\ Len(q) \in Nat
    BY <2>1, <2>2, <2>3, <2>8
  <2>10. q[1].n \notin applied
    <3>1. QueueOK(q, n, applied, done, open) /\ open \in BOOLEAN /\ q # <<>> /\ q[1].by # "watch"
      BY <2>2
    <3> QED
      BY <3>1, HeadIsNew
  <2>11. /\ replica' \in Replica /\ replica'.rev = replica.rev /\ replica'.pending = {q[1].n}
         /\ replica'.applied = applied
    <3> DEFINE proposal == IF m.kind = "modify" THEN Proposal(replica.cells, m.changes)
                           ELSE [ok |-> TRUE, cells |-> replica.cells]
    <3>1. proposal.ok
      BY <1>8 DEF PrepareCommand
    <3>2. proposal.cells \in Cells
      <4> PICK cells : cells = replica.cells
        OBVIOUS
      <4>1. m.changes \in Changes /\ cells \in Cells
        BY <1>3, <2>4 DEF Item
      <4>2. CASE m.kind = "modify"
        BY <3>1, <4>1, <4>2, ProposalTyped
      <4>3. CASE m.kind # "modify"
        BY <4>1, <4>3
      <4> QED
        BY <4>2, <4>3
    <3>3. Status(replica.sync, m.kind) \in SyncStates
      BY <1>3 DEF Status, SyncStates
    <3>4. prepared.state = [replica EXCEPT !.cells = proposal.cells, !.sync = Status(replica.sync, m.kind),
                                           !.pending = replica.pending \cup {m.n}]
      BY <1>8 DEF PrepareCommand
    <3> HIDE DEF proposal, prepared
    <3>5. m.n \in Int
      BY <2>4 DEF Item
    <3> PICK cells \in Cells : cells = proposal.cells
      BY <3>2
    <3> PICK sync \in SyncStates : sync = Status(replica.sync, m.kind)
      BY <3>3
    <3>6. replica' = [replica EXCEPT !.cells = cells, !.sync = sync, !.pending = {m.n}]
      BY <1>2, <2>1, <3>4
    <3>7. {m.n} \in SUBSET Int
      BY <3>5
    <3> QED
      BY <1>3, <2>4, <3>6, <3>7 DEF Replica
  <2> HIDE DEF prepared, cmd
  <2> PICK d : d = ed
    OBVIOUS
  <2> PICK b : b = (First.by = "tool")
    OBVIOUS
  <2> PICK f : f = [d EXCEPT !.busy = b]
    OBVIOUS
  <2>12. b \in BOOLEAN
    OBVIOUS
  <2>13. /\ EditorOK(f) /\ f.cells = d.cells /\ f.rev = d.rev /\ f.outbound = <<>> /\ f.dirty = d.dirty
         /\ f.sync = d.sync /\ f.busy = b
    <3>1. f \in Told(d)
      BY <1>3, <2>12, Telling
    <3>2. d = [cells |-> d.cells, rev |-> d.rev, sync |-> d.sync, editors |-> d.editors,
               dirty |-> d.dirty, undo |-> d.undo, redo |-> d.redo, outbound |-> d.outbound,
               readOnly |-> d.readOnly, busy |-> d.busy]
      BY <1>3 DEF EditorOK, Frames
    <3> QED
      BY <1>3, <3>1, <3>2, ToldOK
  <2>14. ed' = f
    BY <2>1
  <2>15. DataOK' /\ SeenOK'
    BY <1>1, <1>3, <1>4, <1>5, <2>11, <2>13, <2>14 DEF DataOK, SeenOK
  <2>16. NumbersOK'
    <3>1. Ended' = Ended /\ issued' = n /\ served' = done /\ replica'.applied = applied
      BY <1>1, <2>1, <2>11 DEF NoFlight, Waiting
    <3> QED
      BY <2>8, <2>9, <3>1 DEF NumbersOK
  <2>17. ToolOK'
    BY <2>4, <2>8, <2>9, <2>13, <2>14 DEF ToolOK, IsToolChange
  <2>18. FlightOK'
    <3>1. First' = m /\ queue' # <<>> /\ flight' = Waiting
      BY <2>1, <2>8, <2>9
    <3>2. before'.rev = replica'.rev /\ First'.expected = replica'.rev
      BY <1>4, <2>5, <2>11, <3>1
    <3>3. replica'.pending = {First'.n} /\ First'.n \notin replica'.applied /\ First'.by # "watch"
      BY <2>2, <2>4, <2>10, <2>11, <3>1
    <3>4. First'.by = "tool" => ed'.busy
      BY <2>4, <2>13, <2>14, <3>1
    <3> QED
      BY <3>1, <3>2, <3>3, <3>4 DEF FlightOK, OutOK
  <2>19. Marking'
    <3> SUFFICES ASSUME d.sync \in Busy
                 PROVE  \E i \in 1..Len(r) : r[i].by = "user" /\ r[i].kind # "complete"
      BY <2>9, <2>13, <2>14 DEF Marking
    <3>1. PICK i \in 1..Len(q) : q[i].by = "user" /\ q[i].kind # "complete"
      BY DEF PageInvariant, Marking
    <3>2. i \in 1..Len(r) /\ r[i].by = q[i].by /\ r[i].kind = q[i].kind
      <4>1. i = 1 \/ i \in 2..Len(q)
        BY <2>9
      <4> QED
        BY <2>4, <2>8, <4>1
    <3> QED
      BY <3>1, <3>2
  <2>20. ToolsSpareDrafts'
    <3>1. CASE IsToolChange(q[1])
      BY <1>1, <2>13, <2>14, <3>1 DEF PageInvariant, ToolOK, ToolsSpareDrafts
    <3>2. CASE q[1].by = "tool" /\ q[1].kind = "query"
      BY <1>8, <2>13, <2>14, <3>2 DEF Refused, ReadyForTools, ToolsSpareDrafts
    <3>3. CASE q[1].by # "tool"
      BY <2>13, <2>14, <3>3 DEF ToolsSpareDrafts
    <3> QED
      BY <2>3, <3>1, <3>2, <3>3 DEF ItemOK, IsToolChange
  <2> QED
    BY <2>15, <2>16, <2>17, <2>18, <2>19, <2>20 DEF PageInvariant
<1> QED
  BY <1>6, <1>7, <1>8

-----------------------------------------------------------------------------
(* The gateway. *)

Extended(l) == l \in Seq(Cells) /\ Rev <= Len(l) /\ \A r \in 1..Rev : l[r] = log[r]

LEMMA Extending ==
  ASSUME log \in Seq(Cells)
  PROVE  /\ Extended(log)
         /\ \A l, c : Extended(l) /\ c \in Cells =>
              Extended(Append(l, c)) /\ Len(Append(l, c)) = Len(l) + 1 /\ Append(l, c)[Len(l) + 1] = c
<1>1. Rev \in Nat /\ Extended(log)
  BY DEF Extended
<1>2. ASSUME NEW l, NEW c \in Cells, Extended(l)
      PROVE  Extended(Append(l, c)) /\ Len(Append(l, c)) = Len(l) + 1 /\ Append(l, c)[Len(l) + 1] = c
  <2> PICK m : m = Append(l, c)
    OBVIOUS
  <2>1. l \in Seq(Cells) /\ Rev <= Len(l) /\ \A r \in 1..Rev : l[r] = log[r]
    BY <1>2 DEF Extended
  <2>2. /\ m \in Seq(Cells) /\ Len(m) = Len(l) + 1 /\ m[Len(l) + 1] = c /\ Len(l) \in Nat
        /\ \A r \in 1..Len(l) : m[r] = l[r]
    BY <2>1
  <2>3. \A r \in 1..Rev : m[r] = log[r]
    BY <1>1, <2>1, <2>2
  <2>4. Extended(m)
    BY <1>1, <2>1, <2>2, <2>3 DEF Extended
  <2> QED
    BY <2>2, <2>4
<1> QED
  BY <1>1, <1>2

\* The gateway, or somebody else, adds to the history; the page does nothing.
GatewayStep ==
  UNCHANGED pageVars /\ file' \in Cells /\ Extended(log') /\ NumbersOK' /\ FlightOK'

LEMMA GatewayOK ==
  ASSUME PageInvariant, GatewayStep
  PROVE  PageInvariant'
<1>1. UNCHANGED <<ed, queue, replica, before, news, issued>> /\ log' \in Seq(Cells) /\ Rev <= Rev'
        /\ \A r \in 1..Rev : log'[r] = log[r]
  BY DEF GatewayStep, pageVars, Extended
<1>2. DataOK' /\ ToolOK' /\ Marking' /\ ToolsSpareDrafts'
  BY <1>1 DEF PageInvariant, GatewayStep, DataOK, ToolOK, Marking, ToolsSpareDrafts
<1>3. Rev \in Nat /\ Rev' \in Nat
  BY <1>1 DEF PageInvariant, DataOK
<1>4. SeenOK'
  BY <1>1, <1>3 DEF PageInvariant, SeenOK
<1> QED
  BY <1>2, <1>4 DEF PageInvariant, GatewayStep

LEMMA MergedTyped ==
  ASSUME NEW f \in Cells, NEW proposed \in Cells
  PROVE  Merged(f, proposed) \in Cells
<1> DEFINE Kept(cell) == IF cell.kind # Code \/ cell.out = NoOutput THEN NoOutput
                         ELSE IF cell.id \in Ids(f) /\ CellOf(f, cell.id).kind = Code
                              THEN CellOf(f, cell.id).out
                         ELSE cell.out
           m == [i \in DOMAIN proposed |-> [proposed[i] EXCEPT !.out = Kept(proposed[i])]]
           n == Len(proposed)
<1>1. n \in Nat /\ DOMAIN proposed = 1..n /\ \A i \in 1..n : proposed[i] \in Cell
  BY DEF Cells
<1>2. ASSUME NEW c \in Cell PROVE [c EXCEPT !.out = Kept(c)] \in Cell
  <2>1. c.id \in Ids(f) => CellOf(f, c.id) \in Cell
    BY IdsTyped
  <2>2. Kept(c) \in Nat
    BY <2>1 DEF Cell, NoOutput
  <2> HIDE DEF Kept
  <2> QED
    BY <2>2 DEF Cell
<1> HIDE DEF Kept
<1>3. m \in [1..n -> Cell]
  BY <1>1, <1>2
<1> HIDE DEF m
<1>4. m \in Seq(Cell)
  BY <1>1, <1>3
<1>5. Merged(f, proposed) = m
  BY DEF Merged, m, Kept
<1> QED
  BY <1>4, <1>5 DEF Cells

\* An answer to the head.
LEMMA ReplyOK ==
  ASSUME PageInvariant, OutOK, UNCHANGED pageVars, NEW ok \in BOOLEAN, NEW l, Extended(l),
         Reply(ok, l), log' = l, ok /\ First.kind = "complete" => Len(l) = replica.rev
  PROVE  FlightOK' /\ Ended'
<1>1. /\ flight'.at = "answered" /\ flight'.ok = ok /\ flight'.rev = Len(l) /\ flight'.cells = l[Len(l)]
      /\ ok => flight'.base = First.expected
  BY DEF Reply, Answer
<1>2. Ended'
  BY <1>1
<1>3. UNCHANGED <<ed, queue, replica, before>> /\ OutOK'
  BY DEF pageVars, OutOK
<1>4. ed.rev <= Len(l) /\ Len(l) \in Nat
  BY DEF PageInvariant, DataOK, SeenOK, Extended
<1>5. First.expected = replica.rev
  BY DEF OutOK
<1>6. AnswerOK(flight)'
  BY <1>1, <1>3, <1>4, <1>5 DEF AnswerOK
<1> QED
  BY <1>2, <1>3, <1>6 DEF FlightOK

LEMMA CommittedOK ==
  ASSUME DataOK
  PROVE  /\ Extended(Committed(file)) /\ Extended(log)
         /\ Committed(file) = log \/ Len(Committed(file)) = Rev + 1
         /\ Committed(file) = log => log[Rev] = file
<1>1. log \in Seq(Cells) /\ file \in Cells /\ Len(log) \in Nat
  BY DEF DataOK
<1>2. Extended(log) /\ Extended(Append(log, file)) /\ Len(Append(log, file)) = Rev + 1
  BY <1>1, Extending
<1>3. Append(log, file) # log
  BY <1>1, <1>2
<1> QED
  BY <1>2, <1>3 DEF Committed

\* What is out knows what it is.
LEMMA OutKnown ==
  ASSUME PageInvariant, flight.at # "idle"
  PROVE  /\ OutOK
         /\ flight.at = "sent" => flight = Waiting
         /\ flight.at = "running" => flight = Running /\ First.kind = "execute"
         /\ flight.at = "answered" => AnswerOK(flight)
BY DEF PageInvariant, FlightOK, NoFlight, Waiting, Running, AnswerOK

LEMMA ServeOK ==
  ASSUME PageInvariant, Serve
  PROVE  PageInvariant'
<1> DEFINE l == Committed(file)
           proposal == Proposal(file, First.changes)
           next == Merged(file, proposal.cells)
<1>1. flight = Waiting /\ UNCHANGED pageVars /\ OutOK /\ ~Ended
  BY OutKnown DEF Serve, Waiting
<1>2. /\ Extended(l) /\ Extended(log) /\ (l = log \/ Len(l) = Rev + 1)
      /\ DataOK /\ file \in Cells
  BY CommittedOK DEF PageInvariant, DataOK
<1> PICK q : q = queue
  OBVIOUS
<1> PICK n : n = issued
  OBVIOUS
<1> PICK applied : applied = replica.applied
  OBVIOUS
<1> PICK done : done = served
  OBVIOUS
<1> PICK open : open = Ended
  OBVIOUS
<1> PICK still : still = Ended'
  OBVIOUS
<1>30. QueueOK(q, n, applied, done, open) /\ open \in BOOLEAN /\ still \in BOOLEAN
  BY DEF PageInvariant, NumbersOK
<1>31. ~open
  BY <1>1
<1>32. queue' = q /\ issued' = n /\ replica'.applied = applied
  BY <1>1 DEF pageVars
<1>3. QueueOK(q, n, applied, done, open) /\ open \in BOOLEAN /\ still \in BOOLEAN /\ ~open
        /\ queue' = q /\ issued' = n /\ replica'.applied = applied
  BY <1>30, <1>31, <1>32
<1>4. served' = served => NumbersOK'
  <2> SUFFICES ASSUME served' = done PROVE QueueOK(q, n, applied, done, still)
    BY <1>3 DEF NumbersOK
  <2> QED
    BY <1>3, QueueOpens
<1>5. ASSUME NEW ok \in BOOLEAN, Reply(ok, log), log' = log, file' = file, served' = served,
             ok /\ First.kind = "complete" => Len(log) = replica.rev
      PROVE  GatewayStep
  <2>1. FlightOK'
    <3> PICK m : m = log
      OBVIOUS
    <3>1. Extended(m) /\ Reply(ok, m) /\ log' = m
      BY <1>2, <1>5 DEF Extended, Reply
    <3>2. ok /\ First.kind = "complete" => Len(m) = replica.rev
      BY <1>5
    <3> QED
      BY <1>1, <3>1, <3>2, ReplyOK
  <2> QED
    BY <1>1, <1>2, <1>4, <1>5, <2>1 DEF GatewayStep, Extended
<1>6. ASSUME NEW ok \in BOOLEAN, NEW m, Tell(ok, m), Extended(m), file' \in Cells, NumbersOK',
             First.kind # "complete"
      PROVE  GatewayStep
  <2>1. FlightOK'
    BY <1>1, <1>6, ReplyOK DEF Tell, Publish
  <2> QED
    BY <1>1, <1>6, <2>1 DEF GatewayStep, Tell, Publish
<1> PICK no \in BOOLEAN : no = FALSE
  OBVIOUS
<1> PICK yes \in BOOLEAN : yes = TRUE
  OBVIOUS
<1> PICK c : c = l
  OBVIOUS
<1>7. CASE ~Allowed /\ Reply(FALSE, log) /\ UNCHANGED <<file, log, origin, served>>
  <2>1. Reply(no, log)
    BY <1>7
  <2> QED
    BY <1>5, <1>7, <2>1, GatewayOK
<1>8. CASE Allowed /\ First.kind = "modify" /\ Len(l) = First.expected /\ proposal.ok /\ Storable(next)
           /\ file' = next /\ Tell(TRUE, IF next = file THEN l ELSE Append(l, next))
           /\ served' = Append(served, First.n)
  <2>1. next \in Cells
    <3> PICK f : f = file
      OBVIOUS
    <3> PICK ch : ch = First.changes
      OBVIOUS
    <3>1. ch \in Changes
      BY <1>1, <1>3, HeadNumber DEF OutOK, QueueOK, Item
    <3>2. Proposal(f, ch).cells \in Cells
      BY <1>2, <1>8, <3>1, ProposalTyped
    <3> QED
      BY <1>2, <3>2, MergedTyped
  <2> PICK m : m = IF next = file THEN l ELSE Append(l, next)
    OBVIOUS
  <2>2. Extended(m)
    <3> PICK x : x = next
      OBVIOUS
    <3>1. log \in Seq(Cells)
      BY <1>2 DEF DataOK
    <3>2. Extended(c) /\ x \in Cells
      BY <1>2, <2>1 DEF Extended
    <3>3. Extended(Append(c, x))
      BY <3>1, <3>2, Extending
    <3>4. m = IF x = file THEN c ELSE Append(c, x)
      OBVIOUS
    <3> HIDE DEF l
    <3>5. m = c \/ m = Append(c, x)
      BY <3>4
    <3> QED
      BY <3>2, <3>3, <3>5 DEF Extended
  <2>3. Tell(yes, m)
    BY <1>8
  <2>4. still
    BY <1>8 DEF Tell, Reply, Answer
  <2>5. NumbersOK'
    <3>1. q # <<>> /\ q[1].kind = "modify"
      BY <1>1, <1>8 DEF OutOK
    <3>2. QueueOK(q, n, applied, Append(done, q[1].n), still)
      BY <1>3, <2>4, <3>1, QueueServed
    <3> QED
      BY <1>3, <1>8, <3>2 DEF NumbersOK
  <2> QED
    BY <1>6, <1>8, <2>1, <2>2, <2>3, <2>5, GatewayOK
<1>9. CASE Allowed /\ First.kind = "modify" /\ Tell(FALSE, l) /\ UNCHANGED <<file, served>>
  <2>1. Tell(no, c) /\ Extended(c)
    BY <1>2, <1>9 DEF Extended, Tell, Publish, Reply
  <2> QED
    BY <1>2, <1>4, <1>6, <1>9, <2>1, GatewayOK
<1>10. CASE Allowed /\ First.kind = "complete" /\ Reply(TRUE, log) /\ UNCHANGED <<file, log, origin, served>>
  <2>1. Reply(yes, log)
    BY <1>10
  <2>2. Len(log) = replica.rev
    BY <1>1, <1>10 DEF Allowed, OutOK
  <2> QED
    BY <1>5, <1>10, <2>1, <2>2, GatewayOK
<1>11. CASE Allowed /\ First.kind \in {"query", "reconnect", "interrupt"} /\ Tell(TRUE, l)
            /\ UNCHANGED <<file, served>>
  <2>1. Tell(yes, c) /\ Extended(c)
    BY <1>2, <1>11 DEF Extended, Tell, Publish, Reply
  <2> QED
    BY <1>2, <1>4, <1>6, <1>11, <2>1, GatewayOK
<1>12. CASE Allowed /\ First.kind = "execute" /\ flight' = Running /\ UNCHANGED <<file, log, origin, served>>
  <2>1. FlightOK'
    BY <1>1, <1>12 DEF FlightOK, OutOK, pageVars
  <2> QED
    BY <1>1, <1>2, <1>4, <1>12, <2>1, GatewayOK DEF GatewayStep, Extended
<1>13. CASE Allowed /\ First.kind = "execute" /\ Reply(FALSE, log) /\ UNCHANGED <<file, log, origin, served>>
  <2>1. Reply(no, log)
    BY <1>13
  <2> QED
    BY <1>5, <1>13, <2>1, GatewayOK
<1> QED
  BY <1>7, <1>8, <1>9, <1>10, <1>11, <1>12, <1>13 DEF Serve

LEMMA RunOK ==
  ASSUME PageInvariant, Finish \/ FailRun
  PROVE  PageInvariant'
<1>1. flight = Running /\ UNCHANGED pageVars /\ file' = file /\ served' = served /\ log' = log
  BY DEF Finish, FailRun, gatewayVars, Tell, Publish
<1>2. OutOK /\ First.kind = "execute" /\ ~Ended
  BY <1>1, OutKnown DEF Running
<1> PICK m : m = log
  OBVIOUS
<1>3. Extended(m)
  BY CommittedOK DEF PageInvariant
<1> PICK ok : ok = IF Finish THEN TRUE ELSE FALSE
  OBVIOUS
<1>4. ok \in BOOLEAN
  OBVIOUS
<1>5. Reply(ok, m)
  BY <1>1 DEF Finish, FailRun, Tell, Reply, Answer
<1>6. FlightOK' /\ Ended'
  <2>1. log' = m /\ (ok /\ First.kind = "complete" => Len(m) = replica.rev)
    BY <1>1, <1>2
  <2> QED
    BY <1>1, <1>2, <1>3, <1>4, <1>5, <2>1, ReplyOK
<1>7. NumbersOK'
  <2> PICK q : q = queue
    OBVIOUS
  <2> PICK n : n = issued
    OBVIOUS
  <2> PICK applied : applied = replica.applied
    OBVIOUS
  <2> PICK done : done = served
    OBVIOUS
  <2> PICK open : open = Ended
    OBVIOUS
  <2> PICK still : still = Ended'
    OBVIOUS
  <2>1. QueueOK(q, n, applied, done, open) /\ open \in BOOLEAN /\ still \in BOOLEAN
    BY DEF PageInvariant, NumbersOK
  <2>2. open => still
    BY <1>6
  <2>3. QueueOK(q, n, applied, done, still)
    BY <2>1, <2>2, QueueOpens
  <2> QED
    BY <1>1, <2>3 DEF NumbersOK, pageVars
<1>8. GatewayStep
  BY <1>1, <1>3, <1>6, <1>7 DEF GatewayStep, PageInvariant, DataOK, Extended
<1> QED
  BY <1>8, GatewayOK

LEMMA LoseOK ==
  ASSUME PageInvariant, Lose
  PROVE  PageInvariant'
<1>1. flight.at # "idle" /\ UNCHANGED pageVars /\ file' = file /\ served' = served /\ log' = log
        /\ flight' = [at |-> "lost"]
  BY DEF Lose, gatewayVars
<1>2. OutOK
  BY <1>1, OutKnown
<1>3. FlightOK'
  BY <1>1, <1>2 DEF FlightOK, OutOK, pageVars
<1>4. NumbersOK'
  <2> PICK q : q = queue
    OBVIOUS
  <2> PICK n : n = issued
    OBVIOUS
  <2> PICK applied : applied = replica.applied
    OBVIOUS
  <2> PICK done : done = served
    OBVIOUS
  <2> PICK open : open = Ended
    OBVIOUS
  <2> PICK still : still = Ended'
    OBVIOUS
  <2>1. QueueOK(q, n, applied, done, open) /\ open \in BOOLEAN /\ still \in BOOLEAN
    BY DEF PageInvariant, NumbersOK
  <2>2. open => still
    BY <1>1
  <2>3. QueueOK(q, n, applied, done, still)
    BY <2>1, <2>2, QueueOpens
  <2> QED
    BY <1>1, <2>3 DEF NumbersOK, pageVars
<1>5. Extended(log)
  BY CommittedOK DEF PageInvariant
<1>6. GatewayStep
  BY <1>1, <1>3, <1>4, <1>5 DEF GatewayStep, PageInvariant, DataOK, Extended
<1> QED
  BY <1>6, GatewayOK

LEMMA ForeignOK ==
  ASSUME PageInvariant, ForeignWrite \/ ForeignClaim \/ ForeignCommit
  PROVE  PageInvariant'
<1>1. UNCHANGED pageVars /\ flight' = flight /\ served' = served
  BY DEF ForeignWrite, ForeignClaim, ForeignCommit
<1>2. DataOK /\ log \in Seq(Cells) /\ file \in Cells
  BY DEF PageInvariant, DataOK
<1>3. \A c \in Edited(file) : c \in Cells
  <2> SUFFICES ASSUME NEW i \in DOMAIN file, NEW s \in Source PROVE [file EXCEPT ![i].src = s] \in Cells
    BY DEF Edited
  <2>1. Len(file) \in Nat /\ DOMAIN file = 1..Len(file) /\ file[i] \in Cell
    BY <1>2 DEF Cells
  <2>2. [file[i] EXCEPT !.src = s] \in Cell
    BY <2>1 DEF Cell
  <2> PICK x \in Cell : x = [file[i] EXCEPT !.src = s]
    BY <2>2
  <2>3. [file EXCEPT ![i].src = s] = [file EXCEPT ![i] = x]
    OBVIOUS
  <2>4. [file EXCEPT ![i] = x] \in Cells
    BY <1>2, <2>1 DEF Cells
  <2> QED
    BY <2>3, <2>4
<1>4. file' \in Cells /\ Extended(log')
  <2>1. CASE ForeignWrite
    BY <1>2, <1>3, <2>1, CommittedOK DEF ForeignWrite, Extended
  <2>2. CASE ForeignClaim
    BY <1>2, <2>2, CommittedOK DEF ForeignClaim, Extended
  <2>3. CASE ForeignCommit
    <3>1. PICK c \in Edited(file) : file' = c /\ log' = Append(Committed(file), c)
      BY <2>3 DEF ForeignCommit
    <3> PICK l : l = Committed(file)
      OBVIOUS
    <3>2. Extended(l) /\ c \in Cells
      BY <1>2, <1>3, CommittedOK DEF Extended
    <3>3. Extended(Append(l, c))
      BY <1>2, <3>2, Extending
    <3> QED
      BY <3>1, <3>2, <3>3 DEF Extended
  <2> QED
    BY <2>1, <2>2, <2>3
<1>5. NumbersOK'
  BY <1>1 DEF PageInvariant, NumbersOK, pageVars
<1>6. FlightOK'
  <2>1. UNCHANGED <<ed, queue, replica, before>> /\ Rev <= Rev' /\ \A r \in 1..Rev : log'[r] = log[r]
    BY <1>1, <1>4 DEF pageVars, Extended
  <2>2. Rev \in Nat /\ Rev' \in Nat /\ replica.rev \in 1..Rev /\ ed.rev \in 1..Rev
    BY <1>4 DEF PageInvariant, DataOK, SeenOK, Extended
  <2>3. AnswerOK(flight) => AnswerOK(flight)'
    BY <1>1, <2>1, <2>2 DEF AnswerOK
  <2>4. OutOK => OutOK'
    BY <2>1 DEF OutOK
  <2>5. replica.cells = log[replica.rev] => replica'.cells = log'[replica'.rev]
    BY <2>1, <2>2
  <2> QED
    BY <1>1, <2>1, <2>3, <2>4, <2>5 DEF PageInvariant, FlightOK
<1>7. GatewayStep
  BY <1>1, <1>4, <1>5, <1>6 DEF GatewayStep
<1> QED
  BY <1>7, GatewayOK

\* Progress of an execution: the editor shows the file before the result is there.
LEMMA OutputOK ==
  ASSUME PageInvariant, Output
  PROVE  PageInvariant'
<1>1. PICK out \in 0..1 :
        /\ First.cell \in Ids(file) /\ file' = [file EXCEPT ![PositionOf(file, First.cell)].out = out]
        /\ log' = Append(log, file')
        /\ ed' = ShowSnapshot(ed, Snapshot(file', Rev + 1), "Executing")
  BY DEF Output, Publish
<1>2. flight = Running /\ UNCHANGED <<queue, replica, before, news, issued, flight, served>>
  BY DEF Output
<1>3. OutOK /\ First.kind = "execute"
  BY <1>2, OutKnown DEF Running
<1>4. /\ log \in Seq(Cells) /\ file \in Cells /\ EditorOK(ed) /\ ed.outbound = <<>> /\ replica \in Replica
      /\ ed.rev \in 1..Rev /\ replica.rev \in 1..Rev /\ replica.rev <= ed.rev
      /\ IsCommitted(before) /\ (news # <<>> => IsCommitted(news[1])) /\ Rev \in Nat
  BY DEF PageInvariant, DataOK, SeenOK
<1>5. file' \in Cells
  <2> PICK f : f = file
    OBVIOUS
  <2> PICK p : p = PositionOf(f, First.cell)
    OBVIOUS
  <2>1. p \in 1..Len(f) /\ f \in Seq(Cell)
    BY <1>1, <1>4, PositionFound DEF Cells
  <2>2. f[p] \in Cell
    BY <2>1
  <2>4. out \in Nat
    OBVIOUS
  <2>5. [f[p] EXCEPT !.out = out] \in Cell
    BY <2>2, <2>4 DEF Cell
  <2> PICK x \in Cell : x = [f[p] EXCEPT !.out = out]
    BY <2>5
  <2>3. file' = [f EXCEPT ![p] = x]
    BY <1>1
  <2> QED
    BY <2>1, <2>3 DEF Cells
<1> PICK c \in Cells : c = file'
  BY <1>5
<1>6. /\ log' \in Seq(Cells) /\ Rev' = Rev + 1 /\ log'[Rev + 1] = c
      /\ \A r \in 1..Rev : log'[r] = log[r]
  BY <1>1, <1>4
<1> PICK d : d = ed
  OBVIOUS
<1> PICK snap : snap = Snapshot(c, Rev + 1)
  OBVIOUS
<1> PICK s \in SyncStates : s = "Executing"
  BY DEF SyncStates
<1>7. snap.cells = c /\ snap.rev = Rev + 1 /\ snap.rev \in Nat
  BY <1>4 DEF Snapshot
<1>8. ed' = ReplaceState(d, snap, s)
  BY <1>1, <1>4, <1>7 DEF ShowSnapshot
<1> PICK e : e = ReplaceState(d, snap, s)
  OBVIOUS
<1>9. /\ EditorOK(e) /\ e.cells = c /\ e.rev = Rev + 1 /\ e.dirty = {} /\ e.outbound = <<>>
      /\ e.busy = d.busy
  BY <1>4, <1>7, ReplaceOK
<1>10. ed' = e
  BY <1>8
<1>11. DataOK' /\ ToolsSpareDrafts'
  BY <1>2, <1>4, <1>5, <1>6, <1>9, <1>10 DEF DataOK, ToolsSpareDrafts
<1>12. SeenOK'
  BY <1>2, <1>4, <1>6, <1>9, <1>10 DEF SeenOK
<1>13. NumbersOK' /\ ToolOK'
  BY <1>2, <1>9, <1>10 DEF PageInvariant, NumbersOK, ToolOK
<1>14. FlightOK'
  BY <1>2, <1>3, <1>9, <1>10 DEF FlightOK, OutOK
<1>15. Marking'
  <2>1. NumbersOK
    BY DEF PageInvariant
  <2> PICK q : q = queue
    OBVIOUS
  <2> PICK n : n = issued
    OBVIOUS
  <2>2. Numbered(q, n) /\ q # <<>> /\ q[1].kind = "execute"
    BY <1>3, <2>1 DEF NumbersOK, QueueOK, OutOK
  <2>3. 1 \in 1..Len(q) /\ q[1].by = "user"
    BY <2>2, HeadNumber DEF ItemOK
  <2> QED
    BY <1>2, <2>2, <2>3 DEF Marking
<1> QED
  BY <1>11, <1>12, <1>13, <1>14, <1>15 DEF PageInvariant

LEMMA WatchOK ==
  ASSUME PageInvariant, Watch
  PROVE  PageInvariant'
<1> DEFINE adopt == [by |-> "watch", kind |-> "adopt", changes |-> <<>>, cell |-> NoCell,
                     expected |-> 0, n |-> 0]
<1>1. /\ UNCHANGED <<replica, before, flight, issued, file, log, served>>
      /\ ed' = [ed EXCEPT !.readOnly = ~driver]
      /\ news' = news \/ news' = <<Current>>
      /\ queue' = queue \/ queue' = Append(queue, adopt)
  BY DEF Watch, gatewayVars
<1> PICK q : q = queue
  OBVIOUS
<1> PICK n : n = issued
  OBVIOUS
<1> PICK applied : applied = replica.applied
  OBVIOUS
<1> PICK done : done = served
  OBVIOUS
<1> PICK open : open = Ended
  OBVIOUS
<1> PICK m : m = adopt
  OBVIOUS
<1>2. QueueOK(q, n, applied, done, open) /\ open \in BOOLEAN
  BY DEF PageInvariant, NumbersOK
<1>3. m \in Item /\ m.by = "watch" /\ m.kind = "adopt" /\ m.n = 0
  <2>1. <<>> \in Changes
    BY DEF Changes
  <2> QED
    BY <2>1 DEF Item, ItemKind
<1> PICK r : r = Append(q, m)
  OBVIOUS
<1>4. QueueOK(Append(q, m), n, applied, done, open) /\ Behind(Append(q, m), q, m)
  BY <1>2, <1>3, QueueWatched
<1>5. /\ QueueOK(r, n, applied, done, open) /\ r # <<>> /\ (q # <<>> => r[1] = q[1])
      /\ Len(r) = Len(q) + 1 /\ r[Len(q) + 1] = m /\ \A i \in 1..Len(q) : r[i] = q[i]
  BY <1>4 DEF Behind
<1>6. queue' = q \/ queue' = r
  BY <1>1
<1> PICK d : d = ed
  OBVIOUS
<1> PICK b : b = ~driver
  OBVIOUS
<1> PICK f : f = [d EXCEPT !.readOnly = b]
  OBVIOUS
<1>7. /\ log \in Seq(Cells) /\ Rev \in Nat /\ EditorOK(d) /\ d.outbound = <<>> /\ ed.rev \in 1..Rev
      /\ b \in BOOLEAN
  BY DEF PageInvariant, DataOK, SeenOK
<1>8. /\ EditorOK(f) /\ f.cells = d.cells /\ f.rev = d.rev /\ f.dirty = d.dirty /\ f.outbound = <<>>
      /\ f.sync = d.sync /\ f.busy = d.busy
  <2>1. d.busy \in BOOLEAN /\ d.sync \in SyncStates
    BY <1>7 DEF EditorOK
  <2>2. f \in Told(d)
    BY <1>7, <2>1, Telling
  <2>3. d = [cells |-> d.cells, rev |-> d.rev, sync |-> d.sync, editors |-> d.editors,
             dirty |-> d.dirty, undo |-> d.undo, redo |-> d.redo, outbound |-> d.outbound,
             readOnly |-> d.readOnly, busy |-> d.busy]
    BY <1>7 DEF EditorOK, Frames
  <2>4. f.sync = d.sync /\ f.busy = d.busy
    BY <2>3
  <2> QED
    BY <1>7, <2>2, <2>4, ToldOK
<1>9. ed' = f
  BY <1>1
<1>10. DataOK' /\ ToolsSpareDrafts'
  BY <1>1, <1>8, <1>9 DEF PageInvariant, DataOK, ToolsSpareDrafts
<1>11. news' # <<>> => IsCommitted(news[1])'
  <2>1. CASE news' = news
    BY <1>1, <2>1 DEF PageInvariant, SeenOK
  <2>2. CASE news' = <<Current>>
    <3>1. news'[1] = Current /\ Current.rev = Rev /\ Current.cells = log[Rev]
      BY <2>2 DEF Current, Snapshot
    <3>2. Rev \in 1..Rev
      BY <1>7
    <3> QED
      BY <1>1, <3>1, <3>2
  <2> QED
    BY <1>1, <2>1, <2>2
<1>12. SeenOK'
  BY <1>1, <1>8, <1>9, <1>11 DEF PageInvariant, SeenOK
<1>13. NumbersOK'
  <2>1. CASE queue' = q
    BY <1>1, <1>2, <2>1 DEF NumbersOK
  <2>2. CASE queue' = r
    BY <1>1, <1>5, <2>2 DEF NumbersOK
  <2> QED
    BY <1>6, <2>1, <2>2
<1>14. q # <<>> => First' = First /\ queue' # <<>>
  BY <1>5, <1>6
<1>15. ToolOK'
  <2>1. CASE q # <<>>
    BY <1>8, <1>9, <1>14, <2>1 DEF PageInvariant, ToolOK
  <2>2. CASE q = <<>>
    BY <1>3, <1>5, <1>6, <2>2 DEF ToolOK, IsToolChange
  <2> QED
    BY <2>1, <2>2
<1>16. FlightOK'
  <2>1. CASE flight = NoFlight /\ replica.cells = log[replica.rev] /\ replica.pending = {}
    BY <1>1, <2>1 DEF FlightOK
  <2>2. CASE OutOK
    <3>1. First' = First /\ queue' # <<>>
      BY <1>14, <2>2 DEF OutOK
    <3> QED
      BY <1>1, <1>8, <1>9, <3>1, <2>2 DEF PageInvariant, FlightOK, OutOK, AnswerOK
  <2> QED
    BY <2>1, <2>2 DEF PageInvariant, FlightOK
<1>17. Marking'
  <2>1. \A i \in 1..Len(q) : i \in 1..Len(r) /\ r[i] = q[i]
    <3>1. Len(q) \in Nat
      BY <1>2 DEF QueueOK, Numbered
    <3> QED
      BY <1>5, <3>1
  <2> QED
    BY <1>6, <1>8, <1>9, <2>1 DEF PageInvariant, Marking
<1> QED
  BY <1>10, <1>12, <1>13, <1>15, <1>16, <1>17 DEF PageInvariant

-----------------------------------------------------------------------------
(* The end of the head. *)

\* What is seen of an editor that was told of a failure, and is the user's again.
LEMMA FailureShown ==
  ASSUME NEW d, EditorOK(d), NEW s \in SyncStates
  PROVE  LET f == Freed(ShowError(d, s))
         IN EditorOK(f) /\ f.cells = d.cells /\ f.rev = d.rev /\ f.outbound = d.outbound
            /\ f.sync = s /\ ~f.busy
<1> PICK e : e = ShowError(d, s)
  OBVIOUS
<1>1. EditorOK(e) /\ e.cells = d.cells /\ e.rev = d.rev /\ e.outbound = d.outbound /\ e.sync = s
  BY ShownErrorOK
<1> PICK f : f = Freed(e)
  OBVIOUS
<1>2. /\ EditorOK(f) /\ f.cells = e.cells /\ f.rev = e.rev
      /\ f.outbound = e.outbound /\ f.sync = e.sync /\ ~f.busy
  BY <1>1, FreedOK
<1> QED
  BY <1>1, <1>2

\* A failure of the head: the replica falls back on what it held before.
Failing(r, s) ==
  /\ OutOK /\ UNCHANGED <<before, news, issued, file, log, served>>
  /\ r \in Replica /\ r.rev = replica.rev /\ Settles(r.applied, replica.applied, First)
  /\ s \in SyncStates \ Busy
  /\ replica' = RolledBack(r) /\ Done(ShowError(ed, s))

LEMMA FailingOK ==
  ASSUME PageInvariant, NEW r, NEW s, Failing(r, s)
  PROVE  PageInvariant'
<1>1. /\ OutOK /\ UNCHANGED <<before, news, issued, file, log, served>>
      /\ r \in Replica /\ r.rev = replica.rev /\ Settles(r.applied, replica.applied, First)
      /\ s \in SyncStates /\ s \notin Busy
      /\ replica' = RolledBack(r) /\ Done(ShowError(ed, s))
  BY DEF Failing
<1>2. /\ SeenOK /\ EditorOK(ed) /\ ed.outbound = <<>> /\ log \in Seq(Cells)
      /\ replica.rev \in 1..Rev /\ replica.rev <= ed.rev
  BY DEF PageInvariant, DataOK, SeenOK
<1>3. queue # <<>> /\ before.rev = replica.rev /\ before.cells = log[replica.rev]
  BY <1>1, <1>2 DEF OutOK, SeenOK
<1>4. before.cells \in Cells /\ replica.rev \in Nat
  BY <1>2, <1>3
<1>5. /\ replica' \in Replica /\ replica'.rev = replica.rev /\ replica'.cells = log[replica.rev]
      /\ replica'.pending = {} /\ replica'.applied = r.applied
  <2>1. before.rev >= r.rev
    BY <1>1, <1>3, <1>4
  <2>2. replica' = [r EXCEPT !.cells = before.cells, !.rev = before.rev, !.pending = {},
                             !.sync = "Synchronized"]
    BY <1>1, <2>1 DEF RolledBack, ReplaceSnapshot
  <2>3. "Synchronized" \in SyncStates
    BY DEF SyncStates
  <2> QED
    BY <1>1, <1>3, <1>4, <2>2, <2>3 DEF Replica
<1> PICK d : d = ed
  OBVIOUS
<1> PICK f : f = Freed(ShowError(d, s))
  OBVIOUS
<1>6. /\ EditorOK(f) /\ f.cells = d.cells /\ f.rev = d.rev /\ f.outbound = <<>>
      /\ f.sync = s /\ ~f.busy
  BY <1>1, <1>2, FailureShown
<1>7. ed' = f /\ queue' = Tail(queue) /\ flight' = NoFlight
  BY <1>1 DEF Done, Freed
<1>8. HeadDone
  BY <1>1, <1>2, <1>3, <1>5, <1>6, <1>7 DEF HeadDone, SeenOK
<1> QED
  BY <1>8, DoneOK

\* What a head that is out and has an end leaves of the invariant.
LEMMA OutEnds ==
  ASSUME PageInvariant, flight # NoFlight
  PROVE  OutOK
BY DEF PageInvariant, FlightOK

\* The request or its answer was lost.
LEMMA ReceiveNothingOK ==
  ASSUME PageInvariant, ReceiveNothing
  PROVE  PageInvariant'
<1> PICK r : r = replica
  OBVIOUS
<1> PICK s : s = IF First.by = "tool" THEN "Error" ELSE "Disconnected"
  OBVIOUS
<1>1. flight # NoFlight
  BY DEF ReceiveNothing, NoFlight
<1>2. OutOK
  BY <1>1, OutEnds
<1>3. r \in Replica /\ s \in SyncStates \ Busy /\ Settles(r.applied, replica.applied, First)
  BY DEF PageInvariant, DataOK, SyncStates, Busy, Settles
<1>4. UNCHANGED <<before, news, issued, file, log, served>>
  BY DEF ReceiveNothing, gatewayVars
<1>5. replica' = RolledBack(r) /\ Done(ShowError(ed, s))
  BY DEF ReceiveNothing, Broken
<1>6. Failing(r, s)
  BY <1>2, <1>3, <1>4, <1>5 DEF Failing
<1> QED
  BY <1>6, FailingOK

\* The page adopts what others published.
LEMMA AdoptOK ==
  ASSUME PageInvariant, Adopt
  PROVE  PageInvariant'
<1>1. /\ queue # <<>> /\ First.by = "watch" /\ flight = NoFlight
      /\ news' = <<>> /\ queue' = Tail(queue)
      /\ UNCHANGED <<before, flight, issued, file, log, served>>
  BY DEF Adopt, gatewayVars
<1>2. /\ SeenOK /\ EditorOK(ed) /\ ed.outbound = <<>> /\ log \in Seq(Cells) /\ replica \in Replica
      /\ replica.rev \in 1..Rev /\ replica.rev <= ed.rev /\ ed.rev \in 1..Rev /\ Rev \in Nat
      /\ replica.applied \in SUBSET Int
  BY DEF PageInvariant, DataOK, SeenOK, Replica
<1>3. replica.cells = log[replica.rev] /\ replica.pending = {}
  BY <1>1 DEF PageInvariant, FlightOK, NoFlight, Waiting, Running, AnswerOK
<1>4. ed.sync \in Busy => \E i \in 2..Len(queue) : queue[i].by = "user" /\ queue[i].kind # "complete"
  BY <1>1, MarkedBehind
<1>5. (ed.busy => ed.dirty = {}) /\ IsCommitted(before)' /\ ~(news' # <<>>)
  BY <1>1, <1>2 DEF PageInvariant, ToolsSpareDrafts, SeenOK
<1>6. CASE UNCHANGED <<replica, ed>>
  <2>1. HeadDone
    BY <1>1, <1>2, <1>3, <1>4, <1>5, <1>6 DEF HeadDone, SeenOK, Settles
  <2> QED
    BY <2>1, DoneOK
<1>7. CASE /\ news # <<>> /\ news[1].rev >= replica.rev
           /\ replica' = ReplaceSnapshot(replica, news[1]).state
           /\ ed' = IF news[1].rev < ed.rev THEN [ed EXCEPT !.readOnly = TRUE]
                    ELSE ShowSnapshot(ed, news[1], "Synchronized")
  <2> PICK snap : snap = news[1]
    OBVIOUS
  <2> PICK d : d = ed
    OBVIOUS
  <2>1. snap.rev \in 1..Rev /\ snap.cells = log[snap.rev] /\ replica.rev <= snap.rev
    BY <1>2, <1>7 DEF SeenOK
  <2>2. snap.cells \in Cells /\ snap.rev \in Nat
    BY <1>2, <2>1
  <2>3. /\ replica' \in Replica /\ replica'.rev = snap.rev /\ replica'.cells = log[snap.rev]
        /\ replica'.pending = {} /\ replica'.applied = replica.applied
    <3>1. replica' = [replica EXCEPT !.cells = snap.cells, !.rev = snap.rev, !.pending = {},
                                     !.sync = "Synchronized"]
      BY <1>7 DEF ReplaceSnapshot
    <3>2. "Synchronized" \in SyncStates
      BY DEF SyncStates
    <3> QED
      BY <1>2, <2>1, <2>2, <3>1, <3>2 DEF Replica
  <2>4. Settles(replica'.applied, replica.applied, First)
    BY <2>3 DEF Settles
  <2>5. CASE snap.rev < d.rev
    <3> PICK b \in BOOLEAN : b = TRUE
      OBVIOUS
    <3> PICK f : f = [d EXCEPT !.readOnly = b]
      OBVIOUS
    <3>1. /\ EditorOK(f) /\ f.cells = d.cells /\ f.rev = d.rev /\ f.dirty = d.dirty
          /\ f.outbound = d.outbound
      <4>1. d.sync \in SyncStates /\ d.busy \in BOOLEAN
        BY <1>2 DEF EditorOK
      <4>2. f \in Told(d)
        BY <1>2, <4>1, Telling
      <4> QED
        BY <1>2, <4>2, ToldOK
    <3>2. f.sync = d.sync /\ f.busy = d.busy
      <4>1. d = [cells |-> d.cells, rev |-> d.rev, sync |-> d.sync, editors |-> d.editors,
                 dirty |-> d.dirty, undo |-> d.undo, redo |-> d.redo, outbound |-> d.outbound,
                 readOnly |-> d.readOnly, busy |-> d.busy]
        BY <1>2 DEF EditorOK, Frames
      <4> QED
        BY <4>1
    <3>3. ed' = f
      BY <1>7, <2>5
    <3>4. replica'.rev <= ed'.rev /\ IsCommitted(ed)'
      BY <1>1, <1>2, <2>1, <2>3, <2>5, <3>1, <3>3 DEF SeenOK
    <3>5. HeadDone
      BY <1>1, <1>2, <1>4, <1>5, <2>1, <2>3, <2>4, <3>1, <3>2, <3>3, <3>4 DEF HeadDone
    <3> QED
      BY <3>5, DoneOK
  <2>6. CASE ~(snap.rev < d.rev)
    <3> PICK s \in SyncStates : s = "Synchronized"
      BY DEF SyncStates
    <3> PICK f : f = ReplaceState(d, snap, s)
      OBVIOUS
    <3>1. /\ EditorOK(f) /\ f.cells = snap.cells /\ f.rev = snap.rev /\ f.sync = s /\ f.dirty = {}
          /\ f.outbound = d.outbound
      BY <1>2, <2>2, ReplaceOK
    <3>2. ed' = f
      BY <1>7, <2>6 DEF ShowSnapshot
    <3>3. replica'.rev <= ed'.rev /\ IsCommitted(ed)' /\ ed'.sync \notin Busy
      BY <1>1, <2>1, <2>2, <2>3, <3>1, <3>2 DEF Busy
    <3>4. HeadDone
      BY <1>1, <1>2, <1>5, <2>1, <2>3, <2>4, <3>1, <3>2, <3>3 DEF HeadDone
    <3> QED
      BY <3>4, DoneOK
  <2> QED
    BY <2>5, <2>6
<1> QED
  BY <1>6, <1>7 DEF Adopt

\* What the replica makes of the answer to the head.
LEMMA AppliedOK ==
  ASSUME PageInvariant, flight.at = "answered"
  PROVE  LET applied == ApplyResult(replica, Result)
             state == applied.state
         IN /\ OutOK /\ AnswerOK(flight) /\ state \in Replica
            /\ ~(applied.ok /\ flight.ok) => state.rev = replica.rev
            /\ state.applied = replica.applied \/ state.applied = replica.applied \cup {First.n}
            /\ applied.ok /\ flight.ok => /\ state.rev = flight.rev /\ state.cells = log[flight.rev]
                                          /\ state.pending = {}
<1> DEFINE res == Result
           applied == ApplyResult(replica, res)
           settled == [replica EXCEPT !.pending = replica.pending \ {res.n},
                                      !.applied = replica.applied \cup {res.n}]
           rest == IF settled.pending = {} THEN "Synchronized" ELSE "Dirty"
<1>1. OutOK /\ AnswerOK(flight)
  BY DEF PageInvariant, FlightOK, NoFlight, Waiting, Running
<1>2. /\ res.n = First.n /\ res.ok = flight.ok /\ res.rev = flight.rev /\ res.cells = flight.cells
      /\ res.n \notin replica.applied /\ replica.pending = {res.n}
  BY <1>1 DEF OutOK, Result
<1>3. /\ replica \in Replica /\ replica.applied \in SUBSET Int /\ replica.pending \in SUBSET Int
      /\ log \in Seq(Cells) /\ ed.rev \in 1..Rev /\ Rev \in Nat
  BY DEF PageInvariant, DataOK, SeenOK, Replica
<1>4. /\ flight.rev \in 1..Rev /\ flight.rev \in Nat /\ flight.cells = log[flight.rev]
      /\ flight.cells \in Cells /\ flight.ok \in BOOLEAN
  <2>1. flight.rev \in 1..Rev /\ flight.cells = log[flight.rev]
    BY <1>1, <1>3 DEF AnswerOK
  <2> QED
    BY <1>1, <1>3, <2>1 DEF AnswerOK
<1>5. applied.ok \/ applied.state = replica
  BY DEF ApplyResult
<1>6. applied.ok => applied.state = IF flight.ok
                                    THEN [settled EXCEPT !.cells = res.cells, !.rev = res.rev, !.sync = rest]
                                    ELSE [settled EXCEPT !.sync = "Error"]
  BY <1>2 DEF ApplyResult
<1> HIDE DEF res
<1> PICK e \in SyncStates : e = "Error"
  BY DEF SyncStates
<1> PICK t \in SyncStates : t = rest
  BY DEF SyncStates
<1> PICK p \in SUBSET Int : p = replica.pending \ {res.n}
  BY <1>3
<1> PICK a \in SUBSET Int : a = replica.applied \cup {res.n}
  <2>1. res.n \in Int
    BY <1>2, <1>3
  <2> QED
    BY <1>3, <2>1
<1>7. p = {}
  BY <1>2
<1>8. CASE ~applied.ok
  BY <1>1, <1>3, <1>5, <1>8 DEF res
<1>9. CASE applied.ok /\ ~flight.ok
  <2>1. applied.state = [replica EXCEPT !.pending = p, !.applied = a, !.sync = e]
    <3>1. settled = [replica EXCEPT !.pending = p, !.applied = a]
      OBVIOUS
    <3>2. applied.state = [settled EXCEPT !.sync = e]
      BY <1>6, <1>9
    <3> HIDE DEF settled, applied
    <3> QED
      BY <1>3, <3>1, <3>2 DEF Replica
  <2> PICK state : state = applied.state
    OBVIOUS
  <2>2. state \in Replica /\ state.rev = replica.rev /\ state.applied = a
    BY <1>3, <2>1 DEF Replica
  <2> QED
    BY <1>1, <1>2, <1>9, <2>2 DEF res
<1>10. CASE applied.ok /\ flight.ok
  <2>1. applied.state = [replica EXCEPT !.pending = p, !.applied = a, !.cells = flight.cells,
                                        !.rev = flight.rev, !.sync = t]
    <3>1. settled = [replica EXCEPT !.pending = p, !.applied = a]
      OBVIOUS
    <3>2. applied.state = [settled EXCEPT !.cells = flight.cells, !.rev = flight.rev, !.sync = t]
      BY <1>2, <1>6, <1>10
    <3> HIDE DEF settled, applied, rest
    <3> QED
      BY <1>3, <3>1, <3>2 DEF Replica
  <2> PICK state : state = applied.state
    OBVIOUS
  <2>2. /\ state \in Replica /\ state.rev = flight.rev /\ state.cells = flight.cells
        /\ state.pending = p /\ state.applied = a
    BY <1>3, <1>4, <2>1 DEF Replica
  <2> QED
    BY <1>1, <1>2, <1>4, <1>7, <1>10, <2>2 DEF res
<1> QED
  BY <1>8, <1>9, <1>10 DEF res

\* A head whose answer is not about a modification closes as it opened.
LEMMA QueueCloses ==
  ASSUME NEW q, NEW n, NEW applied, NEW done, NEW open \in BOOLEAN, QueueOK(q, n, applied, done, open),
         q # <<>>, q[1].kind # "modify", NEW still \in BOOLEAN
  PROVE  QueueOK(q, n, applied, done, still)
<1>1. \A k \in 1..Len(done), i \in 1..Len(q) : q[i].by # "watch" => done[k] < Num(q[i])
  BY DEF QueueOK, Used
<1> QED
  BY <1>1 DEF QueueOK, Used

\* The head was answered, and the replica and the editor follow.
Answered(e) ==
  /\ flight.at = "answered" /\ flight.ok
  /\ UNCHANGED <<before, news, issued, file, log, served>>
  /\ replica' \in Replica /\ replica'.rev = flight.rev /\ replica'.cells = log[flight.rev]
  /\ replica'.pending = {} /\ Settles(replica'.applied, replica.applied, First)
  /\ e = IF First.kind = "complete" THEN ed ELSE ShowSnapshot(ed, Snap(flight), "Synchronized")

LEMMA AnswerShown ==
  ASSUME PageInvariant, NEW e, Answered(e)
  PROVE  /\ OutOK /\ flight.rev \in 1..Rev /\ EditorOK(e) /\ e.outbound = <<>> /\ e.rev \in 1..Rev
         /\ e.cells = log[e.rev] /\ replica'.rev <= e.rev /\ e.busy = ed.busy
         /\ e.busy => e.dirty = {}
         /\ First.kind = "complete" => e.sync = ed.sync
         /\ First.kind # "complete" => e.sync \notin Busy
<1>1. OutOK /\ AnswerOK(flight)
  BY DEF PageInvariant, FlightOK, NoFlight, Waiting, Running, Answered
<1>2. /\ SeenOK /\ EditorOK(ed) /\ ed.outbound = <<>> /\ log \in Seq(Cells)
      /\ replica.rev \in 1..Rev /\ replica.rev <= ed.rev /\ ed.rev \in 1..Rev /\ Rev \in Nat
      /\ ed.cells = log[ed.rev]
  BY DEF PageInvariant, DataOK, SeenOK
<1>3. flight.rev \in 1..Rev /\ flight.cells = log[flight.rev] /\ ed.rev <= flight.rev
  BY <1>1, <1>2 DEF AnswerOK
<1>4. CASE First.kind = "complete"
  <2>1. e = ed /\ replica'.rev = replica.rev
    BY <1>1, <1>4 DEF Answered, AnswerOK
  <2> QED
    BY <1>1, <1>2, <1>3, <1>4, <2>1 DEF PageInvariant, ToolsSpareDrafts
<1>5. CASE First.kind # "complete"
  <2> PICK d : d = ed
    OBVIOUS
  <2> PICK snap : snap = Snap(flight)
    OBVIOUS
  <2> PICK s \in SyncStates : s = "Synchronized"
    BY DEF SyncStates
  <2>1. snap.cells = log[flight.rev] /\ snap.rev = flight.rev
    BY <1>3 DEF Snap, Snapshot
  <2>2. snap.cells \in Cells /\ snap.rev \in Nat /\ ~(snap.rev < d.rev)
    BY <1>2, <1>3, <2>1
  <2> PICK f : f = ReplaceState(d, snap, s)
    OBVIOUS
  <2>3. /\ EditorOK(f) /\ f.cells = snap.cells /\ f.rev = snap.rev /\ f.sync = s /\ f.dirty = {}
        /\ f.outbound = d.outbound /\ f.busy = d.busy
    BY <1>2, <2>2, ReplaceOK
  <2>4. e = f
    BY <1>5, <2>2 DEF Answered, ShowSnapshot
  <2>5. s \notin Busy
    BY DEF Busy
  <2>6. replica'.rev <= e.rev
    BY <1>3, <2>1, <2>3, <2>4 DEF Answered
  <2> QED
    BY <1>1, <1>2, <1>3, <1>5, <2>1, <2>3, <2>4, <2>5, <2>6
<1> QED
  BY <1>4, <1>5

LEMMA AnsweredOK ==
  ASSUME PageInvariant, NEW e, Answered(e), Done(e)
  PROVE  PageInvariant'
<1>1. /\ OutOK /\ flight.rev \in 1..Rev /\ EditorOK(e) /\ e.outbound = <<>> /\ e.rev \in 1..Rev
      /\ e.cells = log[e.rev] /\ replica'.rev <= e.rev
      /\ First.kind = "complete" => e.sync = ed.sync
      /\ First.kind # "complete" => e.sync \notin Busy
  BY AnswerShown
<1> PICK f : f = Freed(e)
  OBVIOUS
<1>2. /\ EditorOK(f) /\ f.cells = e.cells /\ f.rev = e.rev /\ f.outbound = <<>> /\ f.sync = e.sync
      /\ ~f.busy
  BY <1>1, FreedOK
<1>3. ed' = f /\ queue' = Tail(queue) /\ flight' = NoFlight /\ queue # <<>>
  BY <1>1 DEF Done, Freed, OutOK
<1>4. ed'.sync \in Busy =>
        \E i \in 2..Len(queue) : queue[i].by = "user" /\ queue[i].kind # "complete"
  BY <1>1, <1>2, <1>3, MarkedBehind
<1>5. IsCommitted(before)' /\ (news' # <<>> => IsCommitted(news[1])')
  BY DEF Answered, PageInvariant, SeenOK
<1>6. HeadDone
  BY <1>1, <1>2, <1>3, <1>4, <1>5 DEF HeadDone, Answered
<1> QED
  BY <1>6, DoneOK

\* A tool goes on from its query to its change.
LEMMA ToolGoesOn ==
  ASSUME PageInvariant, NEW e, Answered(e), First.by = "tool", First.kind = "query",
         NEW ch \in ToolChange(e.cells),
         queue' = <<ToolModify(ch)>> \o Tail(queue), ed' = e, flight' = NoFlight
  PROVE  PageInvariant'
<1>1. /\ OutOK /\ flight.rev \in 1..Rev /\ EditorOK(e) /\ e.outbound = <<>> /\ e.rev \in 1..Rev
      /\ e.cells = log[e.rev] /\ replica'.rev <= e.rev /\ e.busy = ed.busy
      /\ (e.busy => e.dirty = {}) /\ e.sync \notin Busy
  BY AnswerShown
<1> PICK q : q = queue
  OBVIOUS
<1> PICK n : n = issued
  OBVIOUS
<1> PICK applied : applied = replica.applied
  OBVIOUS
<1> PICK done : done = served
  OBVIOUS
<1> PICK open : open = Ended
  OBVIOUS
<1> PICK still : still = Ended'
  OBVIOUS
<1> PICK now : now = replica'.applied
  OBVIOUS
<1> PICK m : m = ToolModify(ch)
  OBVIOUS
<1>2. /\ QueueOK(q, n, applied, done, open) /\ open \in BOOLEAN /\ still \in BOOLEAN /\ q # <<>>
      /\ q[1].by = "tool" /\ q[1].kind = "query"
  BY <1>1 DEF PageInvariant, NumbersOK, OutOK
<1>3. q \in Seq(Item) /\ q[1] \in Item /\ q[1].n \in Int
  BY <1>2, HeadNumber DEF QueueOK, Numbered
<1>4. ch \in Changes
  <2>1. PICK i \in DOMAIN e.cells, s \in Source : ch = <<UpdateChange(e.cells[i].id, s, Keep, Keep)>>
    BY DEF ToolChange
  <2>2. e.cells[i].id \in CellId
    <3>1. e.cells \in Seq(Cell)
      BY <1>1 DEF EditorOK, Cells
    <3>2. e.cells[i] \in Cell
      BY <2>1, <3>1
    <3> QED
      BY <3>2 DEF Cell
  <2> PICK id \in CellId : id = e.cells[i].id
    BY <2>2
  <2> PICK x : x = UpdateChange(id, s, Keep, Keep)
    OBVIOUS
  <2>3. x \in Change
    <3>1. s \in Source \cup {Keep} /\ Keep \in Kind \cup {Keep}
      OBVIOUS
    <3> QED
      BY <3>1, CellChanged
  <2>4. ch = <<x>>
    BY <2>1
  <2> QED
    BY <2>3, <2>4 DEF Changes
<1>5. m \in Item /\ m.by = "tool" /\ m.kind = "modify" /\ m.n = -q[1].n
  <2>1. m = [q[1] EXCEPT !.kind = "modify", !.changes = ch, !.n = -q[1].n]
    BY DEF ToolModify
  <2>2. "modify" \in ItemKind /\ -q[1].n \in Int
    BY <1>3 DEF ItemKind, UserKind
  <2> QED
    BY <1>2, <1>3, <1>4, <2>1, <2>2 DEF Item
<1>6. Succeeds(m, now, q[1], applied) /\ now \in SUBSET Int
  BY <1>2, <1>5 DEF Succeeds, Answered, Settles, IsQuery, IsToolChange, Replica
<1>7. QueueOK(q, n, applied, done, still)
  BY <1>2, QueueCloses
<1>8. QueueOK(<<m>> \o Tail(q), n, now, done, still)
  BY <1>2, <1>5, <1>6, <1>7, QueueHead
<1>9. /\ Len(<<m>> \o Tail(q)) = Len(q) /\ (<<m>> \o Tail(q))[1] = m
  BY <1>2, <1>3, <1>5, HeadSeq
<1> PICK r : r = <<m>> \o Tail(q)
  OBVIOUS
<1>10. QueueOK(r, n, now, done, still) /\ Len(r) = Len(q) /\ r[1] = m
  BY <1>8, <1>9
<1>11. queue' = r /\ issued' = n /\ served' = done
  BY DEF Answered
<1>12. DataOK' /\ SeenOK'
  BY <1>1 DEF PageInvariant, DataOK, SeenOK, Answered
<1>13. NumbersOK'
  BY <1>10, <1>11 DEF NumbersOK
<1>14. ToolOK' /\ ToolsSpareDrafts'
  BY <1>1, <1>2 DEF ToolOK, OutOK, ToolsSpareDrafts
<1>15. FlightOK'
  BY DEF FlightOK, Answered
<1>16. Marking'
  BY <1>1 DEF Marking
<1> QED
  BY <1>12, <1>13, <1>14, <1>15, <1>16 DEF PageInvariant

LEMMA ReceiveOK ==
  ASSUME PageInvariant, Receive
  PROVE  PageInvariant'
<1> DEFINE applied == ApplyResult(replica, Result)
<1> PICK r : r = applied.state
  OBVIOUS
<1>1. /\ flight.at = "answered" /\ UNCHANGED <<before, news, issued, file, log, served>>
  BY DEF Receive, gatewayVars
<1>2. /\ OutOK /\ r \in Replica /\ Settles(r.applied, replica.applied, First)
      /\ ~(applied.ok /\ flight.ok) => r.rev = replica.rev
      /\ applied.ok /\ flight.ok => /\ r.rev = flight.rev /\ r.cells = log[flight.rev]
                                    /\ r.pending = {}
  <2>1. /\ OutOK /\ r \in Replica
        /\ r.applied = replica.applied \/ r.applied = replica.applied \cup {First.n}
        /\ ~(applied.ok /\ flight.ok) => r.rev = replica.rev
        /\ applied.ok /\ flight.ok => /\ r.rev = flight.rev /\ r.cells = log[flight.rev]
                                      /\ r.pending = {}
    BY <1>1, AppliedOK
  <2>2. First.by # "watch"
    BY <2>1 DEF OutOK
  <2> QED
    BY <2>1, <2>2 DEF Settles
<1>3. CASE ~applied.ok
  <2> PICK s : s = IF First.by = "tool" THEN "Error" ELSE "Disconnected"
    OBVIOUS
  <2>1. replica' = RolledBack(r) /\ Done(ShowError(ed, s)) /\ s \in SyncStates \ Busy
    BY <1>3 DEF Receive, Broken, SyncStates, Busy
  <2>2. Failing(r, s)
    BY <1>1, <1>2, <1>3, <2>1 DEF Failing
  <2> QED
    BY <2>2, FailingOK
<1>4. CASE applied.ok /\ ~flight.ok
  <2> PICK s : s = "Error"
    OBVIOUS
  <2>1. replica' = RolledBack(r) /\ Done(ShowError(ed, s)) /\ s \in SyncStates \ Busy
    BY <1>4 DEF Receive, SyncStates, Busy
  <2>2. Failing(r, s)
    BY <1>1, <1>2, <1>4, <2>1 DEF Failing
  <2> QED
    BY <2>2, FailingOK
<1>5. CASE applied.ok /\ flight.ok
  <2> PICK e : e = IF First.kind = "complete" THEN ed ELSE ShowSnapshot(ed, Snap(flight), "Synchronized")
    OBVIOUS
  <2>1. /\ replica' = r
        /\ Done(e) \/ /\ First.by = "tool" /\ First.kind = "query"
                      /\ \E ch \in ToolChange(e.cells) :
                           /\ queue' = <<ToolModify(ch)>> \o Tail(queue)
                           /\ ed' = e /\ flight' = NoFlight
    BY <1>5 DEF Receive
  <2>2. Answered(e)
    BY <1>1, <1>2, <1>5, <2>1 DEF Answered
  <2>3. CASE Done(e)
    BY <2>2, <2>3, AnsweredOK
  <2>4. CASE /\ First.by = "tool" /\ First.kind = "query"
             /\ \E ch \in ToolChange(e.cells) :
                  /\ queue' = <<ToolModify(ch)>> \o Tail(queue)
                  /\ ed' = e /\ flight' = NoFlight
    BY <2>2, <2>4, ToolGoesOn
  <2> QED
    BY <2>1, <2>3, <2>4
<1> QED
  BY <1>3, <1>4, <1>5 DEF Receive

-----------------------------------------------------------------------------
(* The invariant of the page, and what follows from it. *)

LEMMA StutterOK ==
  ASSUME PageInvariant, UNCHANGED allVars
  PROVE  PageInvariant'
<1>1. UNCHANGED <<ed, queue, replica, before, news, issued, flight, file, log, served>>
  BY DEF allVars, pageVars, gatewayVars
<1>2. DataOK' /\ SeenOK' /\ NumbersOK'
  BY <1>1 DEF PageInvariant, DataOK, SeenOK, NumbersOK
<1>3. ToolOK' /\ FlightOK'
  BY <1>1 DEF PageInvariant, ToolOK, FlightOK, OutOK, AnswerOK
<1>4. Marking' /\ ToolsSpareDrafts'
  BY <1>1 DEF PageInvariant, Marking, ToolsSpareDrafts
<1> QED
  BY <1>2, <1>3, <1>4 DEF PageInvariant

LEMMA GestureOK ==
  ASSUME PageInvariant, Gesture
  PROVE  PageInvariant'
<1>1. CASE Type
  BY <1>1, TypeOK
<1>2. CASE RequestTool
  BY <1>2, RequestOK
<1>3. CASE \E e \in Frames(ed) : Frame(e) /\ Untouched
  BY <1>3, FrameOK
<1>4. DataOK
  BY DEF PageInvariant
<1> QED
  BY <1>1, <1>2, <1>3, <1>4, GestureIsFrame

\* The inductive invariant of the page holds in every reachable state.
THEOREM PageInvariantHolds == PageSpec => []PageInvariant
<1>1. PageInit => PageInvariant
  BY InitOK
<1>2. ASSUME PageInvariant, [PageNext]_allVars PROVE PageInvariant'
  <2>1. CASE Gesture
    BY <1>2, <2>1, GestureOK
  <2>2. CASE Progress
    <3>1. CASE Send
      BY <1>2, <3>1, SendOK
    <3>2. CASE Serve
      BY <1>2, <3>2, ServeOK
    <3>3. CASE Finish
      BY <1>2, <3>3, RunOK
    <3>4. CASE Receive
      BY <1>2, <3>4, ReceiveOK
    <3>5. CASE ReceiveNothing
      BY <1>2, <3>5, ReceiveNothingOK
    <3>6. CASE Adopt
      BY <1>2, <3>6, AdoptOK
    <3> QED
      BY <2>2, <3>1, <3>2, <3>3, <3>4, <3>5, <3>6 DEF Progress
  <2>3. CASE Output
    BY <1>2, <2>3, OutputOK
  <2>4. CASE FailRun
    BY <1>2, <2>4, RunOK
  <2>5. CASE Lose
    BY <1>2, <2>5, LoseOK
  <2>6. CASE Others
    BY <1>2, <2>6, ForeignOK, WatchOK DEF Others
  <2>7. CASE UNCHANGED allVars
    BY <1>2, <2>7, StutterOK
  <2> QED
    BY <1>2, <2>1, <2>2, <2>3, <2>4, <2>5, <2>6, <2>7 DEF PageNext
<1> QED
  BY <1>1, <1>2, PTL DEF PageSpec

LEMMA TypesFollow ==
  ASSUME PageInvariant
  PROVE  PageTypeOK
<1>1. /\ EditorOK(ed) /\ ed.outbound = <<>> /\ ed.rev \in 1..Rev /\ replica.rev \in 1..Rev
      /\ file \in Cells
  BY DEF PageInvariant, DataOK, SeenOK
<1>2. /\ ed.editors \in [Ids(ed.cells) -> Source] /\ ed.sync \in SyncStates
      /\ ed.dirty \subseteq Ids(ed.cells)
  BY <1>1, FramesOf DEF EditorOK
<1>3. flight.at \in {"idle", "sent", "running", "answered", "lost"}
  BY DEF PageInvariant, FlightOK, NoFlight, Waiting, Running, AnswerOK
<1>4. \A i \in DOMAIN file : file[i] \in Cell
  BY <1>1 DEF Cells
<1> QED
  BY <1>1, <1>2, <1>3, <1>4 DEF PageTypeOK

\* The editor, the replica and the queue hang together at every moment: the
\* replica is never ahead of what the editor has shown, the user's modifications
\* are committed in the order they were made and each at most once, a tool at
\* work finds no draft to destroy, and a page with an empty queue is not marked
\* dirty or executing, whatever failed or was lost before.
THEOREM PageInvHolds == PageSpec => []PageInv
<1>1. ASSUME PageInvariant PROVE PageInv
  <2>1. PageTypeOK
    BY <1>1, TypesFollow
  <2>2. ReplicaBehindEditor /\ ToolsSpareDrafts
    BY <1>1 DEF PageInvariant, SeenOK, ReplicaBehindEditor
  <2>3. InOrderOnce
    <3>1. served \in Seq(Nat) /\ \A i, j \in 1..Len(served) : i < j => served[i] < served[j]
      BY <1>1 DEF PageInvariant, NumbersOK, QueueOK, Used
    <3> QED
      BY <3>1 DEF InOrderOnce
  <2>4. IdleWhenDone
    <3>1. queue = <<>> => 1..Len(queue) = {}
      OBVIOUS
    <3> QED
      BY <1>1, <3>1 DEF PageInvariant, Marking, IdleWhenDone, Idle
  <2> QED
    BY <2>1, <2>2, <2>3, <2>4 DEF PageInv
<1> QED
  BY <1>1, PageInvariantHolds, PTL

\* Optimism is undone: whatever was refused, lost or overtaken, the editor shows
\* the cells that the gateway committed at the revision it shows, and a replica
\* with nothing under way holds those of its own revision.
THEOREM ShowsCommittedHolds == PageSpec => []ShowsCommitted
<1>1. ASSUME PageInvariant PROVE ShowsCommitted
  <2>1. flight = NoFlight => replica.cells = log[replica.rev] /\ replica.pending = {}
    BY <1>1 DEF PageInvariant, FlightOK, NoFlight, Waiting, Running, AnswerOK
  <2> QED
    BY <1>1, <2>1 DEF PageInvariant, SeenOK, ShowsCommitted
<1> QED
  BY <1>1, PageInvariantHolds, PTL

\* A modification the gateway commits was made for the cells that are in the
\* file: a change that others wrote to it, through the gateway or past it, makes
\* the command stale and is not overwritten.
THEOREM CommitsOnSeenHolds == PageSpec => CommitsOnSeen
<1> DEFINE Seen == (file' # file /\ served' # served) => file = log[replica.rev]
<1>1. ASSUME PageInvariant, [PageNext]_allVars PROVE Seen
  <2>1. CASE Serve
    <3> SUFFICES ASSUME file' # file PROVE file = log[replica.rev]
      OBVIOUS
    <3>1. flight = Waiting /\ Allowed /\ Len(Committed(file)) = First.expected
      BY <2>1 DEF Serve
    <3>2. OutOK /\ log \in Seq(Cells)
      BY <1>1, <3>1 DEF PageInvariant, FlightOK, NoFlight, Waiting, Running, AnswerOK, DataOK
    <3>3. First.expected = Rev /\ First.expected = replica.rev
      BY <3>1, <3>2 DEF Allowed, OutOK
    <3>4. Rev \in Nat /\ Len(Append(log, file)) = Rev + 1
      BY <3>2
    <3>5. log[Rev] = file
      BY <3>1, <3>3, <3>4 DEF Committed
    <3> QED
      BY <3>3, <3>5
  <2>2. CASE ~Serve
    <3>1. served' = served
      <4>1. CASE Gesture
        BY <4>1 DEF Gesture, Type, Save, Insert, Copy, Delete, Move, Retype, Clear, Replace, Execute,
                    UndoRedo, Reconnect, Interrupt, Complete, RequestTool, Act, Untouched
      <4>2. CASE Progress \/ Output \/ FailRun \/ Lose \/ Others
        BY <2>2, <4>2 DEF Progress, Send, Finish, Receive, ReceiveNothing, Adopt, Output, FailRun, Lose,
                          Others, ForeignWrite, ForeignClaim, ForeignCommit, Watch
      <4>3. CASE UNCHANGED allVars
        BY <4>3 DEF allVars
      <4> QED
        BY <1>1, <4>1, <4>2, <4>3 DEF PageNext
    <3> QED
      BY <3>1
  <2> QED
    BY <2>1, <2>2
<1>2. PageInvariant /\ [PageNext]_allVars => [Seen]_allVars
  BY <1>1
<1> QED
  BY <1>2, PageInvariantHolds, PTL DEF PageSpec, CommitsOnSeen

-----------------------------------------------------------------------------
(* The queue advances. *)

QueriesOf(q) == {i \in DOMAIN q : q[i].by = "tool" /\ q[i].kind = "query"}

LEMMA QueriesCounted ==
  ASSUME NEW q \in Seq(Item)
  PROVE  IsFiniteSet(QueriesOf(q)) /\ Cardinality(QueriesOf(q)) \in Nat
<1>1. IsFiniteSet(1..Len(q)) /\ QueriesOf(q) \in SUBSET (1..Len(q))
  BY FS_Interval DEF QueriesOf
<1>2. IsFiniteSet(QueriesOf(q))
  BY <1>1, FS_Subset
<1> QED
  BY <1>2, FS_CardinalityType

\* When the head is done no query is added, and one item is gone.
LEMMA QueriesOfTail ==
  ASSUME NEW q \in Seq(Item), q # <<>>
  PROVE  Cardinality(QueriesOf(Tail(q))) <= Cardinality(QueriesOf(q)) /\ Len(Tail(q)) = Len(q) - 1
<1> PICK r : r = Tail(q)
  OBVIOUS
<1>1. /\ r \in Seq(Item) /\ Len(r) = Len(q) - 1 /\ Len(q) \in Nat
      /\ \A i \in 1..(Len(q) - 1) : r[i] = q[i + 1]
  BY TailSeq
<1> DEFINE S == QueriesOf(r)
           T == QueriesOf(q)
           next == [i \in S |-> i + 1]
<1>2. \A i \in S : i \in Nat /\ next[i] = i + 1 /\ i + 1 \in T
  <2> TAKE i \in S
  <2>1. i \in 1..(Len(q) - 1) /\ r[i].by = "tool" /\ r[i].kind = "query"
    BY <1>1 DEF QueriesOf
  <2>2. i + 1 \in 1..Len(q) /\ r[i] = q[i + 1] /\ i \in Nat
    BY <1>1, <2>1
  <2> QED
    BY <2>1, <2>2 DEF QueriesOf
<1>3. next \in [S -> T]
  BY <1>2
<1>4. next \in Injection(S, T)
  <2>1. \A i, j \in S : next[i] = next[j] => i = j
    BY <1>2
  <2> HIDE DEF next, S, T
  <2> QED
    BY <1>3, <2>1, Fun_IsInj
<1>5. IsFiniteSet(T)
  BY QueriesCounted
<1> HIDE DEF next, S, T
<1>6. Cardinality(S) <= Cardinality(T)
  BY <1>4, <1>5, FS_Injection
<1> QED
  BY <1>1, <1>6 DEF S, T

\* A new head is a query no more than the one it replaces.
LEMMA QueriesOfHead ==
  ASSUME NEW q \in Seq(Item), q # <<>>, NEW m \in Item
  PROVE  LET r == <<m>> \o Tail(q)
         IN /\ Len(r) = Len(q)
            /\ m.by = q[1].by /\ m.kind = q[1].kind => QueriesOf(r) = QueriesOf(q)
            /\ IsQuery(q[1]) /\ IsToolChange(m) =>
                 Cardinality(QueriesOf(r)) = Cardinality(QueriesOf(q)) - 1
<1> PICK r : r = <<m>> \o Tail(q)
  OBVIOUS
<1>1. r \in Seq(Item) /\ Len(r) = Len(q) /\ r[1] = m /\ \A i \in 2..Len(q) : r[i] = q[i]
  BY HeadSeq
<1>2. Len(q) \in Nat /\ 1 \in 1..Len(q) /\ DOMAIN r = 1..Len(q) /\ DOMAIN q = 1..Len(q)
  BY <1>1
<1>3. \A i \in 1..Len(q) : i = 1 \/ (i \in 2..Len(q) /\ i # 1)
  BY <1>2
<1>4. m.by = q[1].by /\ m.kind = q[1].kind => QueriesOf(r) = QueriesOf(q)
  BY <1>1, <1>2, <1>3 DEF QueriesOf
<1>5. ASSUME IsQuery(q[1]), IsToolChange(m)
      PROVE  Cardinality(QueriesOf(r)) = Cardinality(QueriesOf(q)) - 1
  <2>1. QueriesOf(r) = QueriesOf(q) \ {1} /\ 1 \in QueriesOf(q)
    BY <1>1, <1>2, <1>3, <1>5 DEF QueriesOf, IsQuery, IsToolChange
  <2> QED
    BY <2>1, QueriesCounted, FS_RemoveElement
<1> QED
  BY <1>1, <1>4, <1>5

\* Each step of the queue brings its end nearer, also those after a failure:
\* whatever the head came to, it leaves the queue or goes on to its next stage,
\* so that no command waits for ever behind one that was refused or lost.
THEOREM QueueAdvancesHolds == PageSpec => QueueAdvances
<1>1. ASSUME PageInvariant, Progress PROVE Remaining' < Remaining
  <2> PICK q : q = queue
    OBVIOUS
  <2>1. q \in Seq(Item) /\ (q # <<>> => q[1] \in Item)
    BY <1>1, HeadNumber DEF PageInvariant, NumbersOK, QueueOK, Numbered
  <2> PICK l \in Nat : l = Len(q)
    BY <2>1
  <2> PICK k \in Nat : k = Cardinality(QueriesOf(q))
    BY <2>1, QueriesCounted
  <2>2. Remaining = 4 * l + 4 * k - Stage
    BY DEF Remaining, Queries, QueriesOf
  <2>3. Stage \in 0..3
    BY DEF Stage
  <2>4. flight' = NoFlight => Stage' = 0
    BY DEF Stage, NoFlight
  <2>5. ASSUME queue' = Tail(q), q # <<>>, flight' = NoFlight
        PROVE  Remaining' < Remaining
    <3> PICK r : r = Tail(q)
      OBVIOUS
    <3>1. r \in Seq(Item) /\ Cardinality(QueriesOf(r)) <= k /\ Len(r) = l - 1
      BY <2>1, <2>5, QueriesOfTail, TailSeq
    <3> PICK j \in Nat : j = Cardinality(QueriesOf(r))
      BY <3>1, QueriesCounted
    <3>2. Remaining' = 4 * (l - 1) + 4 * j - 0
      <4>1. Remaining' = 4 * Len(queue') + 4 * Cardinality(QueriesOf(queue')) - Stage'
        BY DEF Remaining, Queries, QueriesOf
      <4> QED
        BY <2>4, <2>5, <3>1, <4>1
    <3> QED
      BY <2>2, <2>3, <3>1, <3>2, SMTT(20)
  <2>6. ASSUME UNCHANGED queue, Stage' > Stage
        PROVE  Remaining' < Remaining
    <3>1. Remaining' = 4 * l + 4 * k - Stage'
      BY <2>6 DEF Remaining, Queries, QueriesOf
    <3>2. Stage' \in 0..3
      BY DEF Stage
    <3> QED
      BY <2>2, <2>3, <2>6, <3>1, <3>2
  <2>7. CASE Send
    <3>1. q # <<>> /\ flight = NoFlight /\ Stage = 0
      BY <2>7 DEF Send, Stage, NoFlight
    <3>2. CASE flight' = NoFlight /\ queue' = Tail(q)
      BY <2>5, <3>1, <3>2
    <3>3. CASE flight' = Waiting /\ queue' = <<Stamped(First)>> \o Tail(q)
      <4> PICK m : m = Stamped(First)
        OBVIOUS
      <4>1. m.by = q[1].by /\ m.kind = q[1].kind /\ m \in Item
        <5>1. m = q[1] \/ m = [q[1] EXCEPT !.expected = replica.rev]
          BY DEF Stamped
        <5>2. replica.rev \in Nat
          BY <1>1 DEF PageInvariant, DataOK, Replica
        <5> QED
          BY <2>1, <3>1, <5>1, <5>2 DEF Item
      <4> PICK r : r = <<m>> \o Tail(q)
        OBVIOUS
      <4>2. Len(r) = l /\ QueriesOf(r) = QueriesOf(q)
        BY <2>1, <3>1, <4>1, QueriesOfHead
      <4>3. Remaining' = 4 * l + 4 * k - Stage'
        <5>1. Remaining' = 4 * Len(queue') + 4 * Cardinality(QueriesOf(queue')) - Stage'
          BY DEF Remaining, Queries, QueriesOf
        <5> QED
          BY <3>3, <4>2, <5>1
      <4>4. Stage' = 1
        BY <3>3 DEF Stage, Waiting
      <4> QED
        BY <2>2, <3>1, <4>3, <4>4
    <3> QED
      BY <2>7, <3>2, <3>3 DEF Send, Done
  <2>8. CASE Serve
    <3>1. UNCHANGED queue /\ Stage = 1
      BY <2>8 DEF Serve, pageVars, Stage, Waiting
    <3>2. flight'.at \in {"running", "answered"}
      BY <2>8 DEF Serve, Reply, Tell, Answer, Running
    <3>3. Stage' > Stage
      BY <3>1, <3>2 DEF Stage
    <3> QED
      BY <2>6, <3>1, <3>3
  <2>9. CASE Finish
    <3>1. UNCHANGED queue /\ Stage = 2 /\ flight'.at = "answered"
      BY <2>9 DEF Finish, pageVars, Stage, Running, Tell, Reply, Answer
    <3>2. Stage' > Stage
      BY <3>1 DEF Stage
    <3> QED
      BY <2>6, <3>1, <3>2
  <2>10. CASE Receive
    <3>1. q # <<>> /\ Stage = 3
      <4>1. flight.at = "answered"
        BY <2>10 DEF Receive
      <4> QED
        BY <1>1, <4>1, AppliedOK DEF Stage, OutOK
    <3>2. \/ queue' = Tail(q) /\ flight' = NoFlight
          \/ \E e : \E ch \in ToolChange(e.cells) :
               /\ IsQuery(First) /\ queue' = <<ToolModify(ch)>> \o Tail(q) /\ flight' = NoFlight
               /\ PageInvariant'
      BY <1>1, <2>10, ReceiveOK DEF Receive, Done, IsQuery
    <3>3. CASE queue' = Tail(q) /\ flight' = NoFlight
      BY <2>5, <3>1, <3>3
    <3>4. CASE \E e : \E ch \in ToolChange(e.cells) :
                 /\ IsQuery(First) /\ queue' = <<ToolModify(ch)>> \o Tail(q) /\ flight' = NoFlight
                 /\ PageInvariant'
      <4> PICK ch : IsQuery(q[1]) /\ queue' = <<ToolModify(ch)>> \o Tail(q) /\ flight' = NoFlight
                    /\ PageInvariant'
        BY <3>4
      <4> PICK m : m = ToolModify(ch)
        OBVIOUS
      <4> PICK r : r = <<m>> \o Tail(q)
        OBVIOUS
      <4>1. queue' = r /\ r # <<>> /\ r[1] = m
        OBVIOUS
      <4>2. m \in Item
        BY <4>1, HeadNumber DEF PageInvariant, NumbersOK, QueueOK, Numbered
      <4>3. IsToolChange(m)
        BY <2>1, <3>1 DEF ToolModify, IsToolChange, IsQuery, Item
      <4>4. Len(r) = l /\ Cardinality(QueriesOf(r)) = k - 1
        BY <2>1, <3>1, <4>2, <4>3, QueriesOfHead
      <4>5. Remaining' = 4 * l + 4 * (k - 1) - 0
        <5>1. Remaining' = 4 * Len(queue') + 4 * Cardinality(QueriesOf(queue')) - Stage'
          BY DEF Remaining, Queries, QueriesOf
        <5> QED
          BY <2>4, <4>1, <4>4, <5>1
      <4> QED
        BY <2>2, <3>1, <4>5
    <3> QED
      BY <3>2, <3>3, <3>4
  <2>11. CASE ReceiveNothing
    <3>1. q # <<>>
      <4>1. flight # NoFlight
        BY <2>11 DEF ReceiveNothing, NoFlight
      <4> QED
        BY <1>1, <4>1, OutEnds DEF OutOK
    <3> QED
      BY <2>5, <2>11, <3>1 DEF ReceiveNothing, Done
  <2>12. CASE Adopt
    BY <2>5, <2>12 DEF Adopt
  <2> QED
    BY <1>1, <2>7, <2>8, <2>9, <2>10, <2>11, <2>12 DEF Progress
<1>2. PageInvariant /\ [PageNext]_allVars => [Progress => Remaining' < Remaining]_allVars
  BY <1>1
<1> QED
  BY <1>2, PageInvariantHolds, PTL DEF PageSpec, QueueAdvances

-----------------------------------------------------------------------------
(* The history of the editor.  What an entry needs and leaves is told by the *)
(* ids of cells alone, since the editor's changes carry no microscopes.      *)

\* The ids a batch brings into a notebook, takes from it and refers to.
Brought(ch) == IF ch.op \in {"insert", "insertRelative"} THEN {ch.cell.id} ELSE {}
Removed(ch) == IF ch.op = "delete" THEN {ch.id} ELSE {}
Brings(b) == UNION {Brought(b[i]) : i \in DOMAIN b}
Takes(b) == UNION {Removed(b[i]) : i \in DOMAIN b}
Refers(b) == UNION {Named(b[i]) : i \in DOMAIN b}

\* A batch can be applied where these ids are, and then those are.
CanApply(D, b) == Len(b) \in 1..MaxChanges /\ Refers(b) \subseteq D /\ Brings(b) \cap D = {}
IdsLeft(D, b) == (D \cup Brings(b)) \ Takes(b)

PlainCell == {c \in Cell : c.refs = {}}
PlainList(c) == c \in Seq(PlainCell) /\ UniqueIds(c)

\* What the editor records, emits and sends: one change, or changes in place.
InPlaceOps == {"update", "clearOutputs"}
Recorded(ch) ==
  /\ ch \in Change /\ ch.op \in {"insert", "delete", "move", "update"}
  /\ ch.op = "insert" => ch.cell.refs = {}
  /\ ch.op = "update" => ch.refs = Keep
HistBatch(b) ==
  /\ b \in Changes /\ \A i \in 1..Len(b) : Recorded(b[i])
  /\ Len(b) = 1 \/ \A i \in 1..Len(b) : b[i].op = "update"
EmitBatch(b) ==
  /\ b \in Changes /\ \A i \in 1..Len(b) : b[i].op \in EditorOps
  /\ Len(b) = 1 \/ \A i \in 1..Len(b) : b[i].op \in InPlaceOps
SentBatch(b) ==
  b \in Changes /\ (Len(b) = 1 \/ \A i \in 1..Len(b) : b[i].op \in InPlaceOps)

LEMMA OneChange ==
  ASSUME NEW b \in Changes, Len(b) = 1
  PROVE  /\ b[1] \in Change /\ DOMAIN b = {1} /\ 1..Len(b) = {1}
         /\ Brings(b) = Brought(b[1]) /\ Takes(b) = Removed(b[1]) /\ Refers(b) = Named(b[1])
<1>1. b[1] \in Change /\ DOMAIN b = {1} /\ 1..Len(b) = {1}
  BY DEF Changes
<1> QED
  BY <1>1 DEF Brings, Takes, Refers

LEMMA InPlaceIds ==
  ASSUME NEW b \in Changes, \A i \in 1..Len(b) : b[i].op \in InPlaceOps
  PROVE  /\ Brings(b) = {} /\ Takes(b) = {} /\ \A D : IdsLeft(D, b) = D
         /\ \A i \in 1..Len(b) : Named(b[i]) = {b[i].id} /\ b[i].id \in Refers(b)
         /\ \A D : (\A i \in 1..Len(b) : b[i].id \in D) => Refers(b) \subseteq D
<1>1. DOMAIN b = 1..Len(b)
  BY DEF Changes
<1>2. \A i \in 1..Len(b) : Brought(b[i]) = {} /\ Removed(b[i]) = {} /\ Named(b[i]) = {b[i].id}
  BY DEF Brought, Removed, Named, InPlaceOps
<1>3. Brings(b) = {} /\ Takes(b) = {}
  BY <1>1, <1>2 DEF Brings, Takes
<1>4. \A i \in 1..Len(b) : b[i].id \in Refers(b)
  BY <1>1, <1>2 DEF Refers
<1>5. ASSUME NEW D, \A i \in 1..Len(b) : b[i].id \in D PROVE Refers(b) \subseteq D
  BY <1>1, <1>2, <1>5 DEF Refers
<1> QED
  BY <1>2, <1>3, <1>4, <1>5 DEF IdsLeft

LEMMA PlainTyped ==
  ASSUME NEW c, PlainList(c)
  PROVE  c \in Cells /\ c \in Seq(Cell) /\ \A i \in 1..Len(c) : c[i] \in Cell /\ c[i].refs = {}
BY DEF PlainList, PlainCell, Cells

\* A recorded change fits where it refers to what is there and brings what is not.
LEMMA RecordedFits ==
  ASSUME NEW c, PlainList(c), NEW ch, Recorded(ch), Named(ch) \subseteq Ids(c), Brought(ch) \cap Ids(c) = {}
  PROVE  /\ PlainList(Effect(c, ch)) /\ Ids(Effect(c, ch)) = (Ids(c) \cup Brought(ch)) \ Removed(ch)
<1>1. c \in Seq(PlainCell) /\ UniqueIds(c) /\ PlainCell \in SUBSET Cell /\ c \in Cells /\ ch \in Change
  BY PlainTyped DEF PlainList, PlainCell, Recorded
<1>2. ch.op # "insert" => Named(ch) = {ch.id} /\ ch.id \in Ids(c)
  BY DEF Recorded, Named
<1>3. ch.op = "insert" => ch.cell \in PlainCell /\ ch.cell.id \notin Ids(c)
  <2> HAVE ch.op = "insert"
  <2>1. ch.cell \in Cell /\ ch.cell.refs = {}
    BY DEF Recorded, Change
  <2> QED
    BY <2>1 DEF PlainCell, Brought
<1>4. ch.op = "update" => Rewritten(CellOf(c, ch.id), ch) \in PlainCell
  <2> HAVE ch.op = "update"
  <2> PICK old : old = CellOf(c, ch.id)
    OBVIOUS
  <2>1. ch.id \in Ids(c) /\ ch.refs = Keep
    BY <1>2 DEF Recorded
  <2>2. PositionOf(c, ch.id) \in 1..Len(c)
    BY <1>1, <2>1, PositionFound
  <2>3. old \in Cell /\ old.refs = {}
    BY <2>2, PlainTyped DEF CellOf
  <2>4. Rewritten(old, ch) \in Cell
    BY <1>1, <2>3, RewrittenTyped
  <2>5. Rewritten(old, ch).refs = {}
    BY <2>1, <2>3 DEF Rewritten, Chosen, Cell
  <2> QED
    BY <2>4, <2>5 DEF PlainCell
<1>5. Fits(PlainCell, c, ch)
  BY <1>1, <1>2, <1>3, <1>4 DEF Fits, Recorded, EditorOps
<1>6. /\ Effect(c, ch) \in Seq(PlainCell) /\ UniqueIds(Effect(c, ch))
      /\ Ids(Effect(c, ch)) = IdsAfter(c, ch)
  BY <1>1, <1>5, EffectUnique
<1>7. IdsAfter(c, ch) = (Ids(c) \cup Brought(ch)) \ Removed(ch)
  BY DEF IdsAfter, Brought, Removed, Recorded
<1> QED
  BY <1>6, <1>7 DEF PlainList

LEMMA RecordedApart ==
  ASSUME NEW b, HistBatch(b)
  PROVE  Apart(b)
<1>1. DOMAIN b = 1..Len(b)
  BY DEF HistBatch, Changes
<1> QED
  BY <1>1 DEF HistBatch, Recorded, Apart

\* Where no cell has a microscope, no change of the editor's is refused for one.
LEMMA NothingOrphaned ==
  ASSUME NEW c, PlainList(c), NEW d, PlainList(d)
  PROVE  PreservesReferences(c, d)
<1>1. /\ DOMAIN c = 1..Len(c) /\ DOMAIN d = 1..Len(d)
      /\ \A i \in 1..Len(c) : c[i].refs = {}
      /\ \A i \in 1..Len(d) : d[i].refs = {}
  BY PlainTyped DEF PlainList
<1>2. \A id \in Ids(d) : CellOf(d, id).refs = {}
  <2> TAKE id \in Ids(d)
  <2>1. PositionOf(d, id) \in 1..Len(d)
    BY PlainTyped, PositionFound
  <2> QED
    BY <1>1, <2>1 DEF CellOf
<1> QED
  BY <1>1, <1>2 DEF PreservesReferences

\* A recorded batch that can be applied is.
LEMMA Replays ==
  ASSUME NEW c, PlainList(c), NEW b, HistBatch(b), CanApply(Ids(c), b)
  PROVE  Proposal(c, b).ok
<1> PICK n : n = Len(b)
  OBVIOUS
<1>0. /\ b \in Changes /\ n \in Nat /\ DOMAIN b = 1..n /\ c \in Cells
      /\ \A i \in 1..n : Recorded(b[i]) /\ b[i] \in Change
      /\ n = 1 \/ \A i \in 1..n : b[i].op = "update"
  BY PlainTyped DEF HistBatch, Changes, Recorded
<1>1. Apart(b)
  BY RecordedApart
<1>2. ValidChanges(b)
  <2>1. Cardinality({}) = 0
    BY FS_EmptySet
  <2>2. \A i \in 1..n : WellFormed(b[i])
    <3> TAKE i \in 1..n
    <3> PICK ch : ch = b[i]
      OBVIOUS
    <3>1. Recorded(ch)
      BY <1>0
    <3>2. MaxRefs \in Nat
      BY CellsAssumption
    <3>3. ch.op = "insert" => Cardinality(ch.cell.refs) = 0
      BY <2>1, <3>1 DEF Recorded
    <3> QED
      BY <3>1, <3>2, <3>3 DEF WellFormed, Recorded
  <2> QED
    BY <1>0, <2>2 DEF ValidChanges, CanApply
<1>3. Apply(c, b).ok /\ PlainList(Apply(c, b).cells)
  <2>1. CASE n = 1
    <3>1. Named(b[1]) \subseteq Ids(c) /\ Brought(b[1]) \cap Ids(c) = {} /\ Recorded(b[1])
      BY <1>0, <2>1, OneChange DEF CanApply
    <3>2. PlainList(Effect(c, b[1]))
      BY <3>1, RecordedFits
    <3>3. Apply(c, b).ok /\ Apply(c, b).cells = Effect(c, b[1])
      BY <1>0, <1>1, <2>1, <3>1, ApplySingle
    <3> QED
      BY <3>2, <3>3
  <2>2. CASE \A i \in 1..n : b[i].op = "update"
    <3> PICK chain : IsRun(chain, c, b)
      BY <1>0, <1>1, ApplyRun
    <3>1. chain[0] = [ok |-> TRUE, cells |-> c] /\ chain[n] = Apply(c, b)
      BY DEF IsRun
    <3> DEFINE A == {k \in Nat : k <= n => /\ chain[k].ok /\ PlainList(chain[k].cells)
                                           /\ Ids(chain[k].cells) = Ids(c)}
    <3>2. 0 \in A
      BY <3>1
    <3>3. ASSUME NEW k \in Nat, k \in A PROVE k + 1 \in A
      <4> SUFFICES ASSUME k + 1 <= n
                   PROVE  /\ chain[k + 1].ok /\ PlainList(chain[k + 1].cells)
                          /\ Ids(chain[k + 1].cells) = Ids(c)
        OBVIOUS
      <4> PICK ch : ch = b[k + 1]
        OBVIOUS
      <4>1. k \in 0..(n - 1) /\ k + 1 \in 1..n /\ k <= n
        BY <1>0
      <4>2. chain[k].ok /\ PlainList(chain[k].cells) /\ Ids(chain[k].cells) = Ids(c)
        BY <3>3, <4>1
      <4>3. IsMade(chain[k], ch, chain[k + 1])
        BY <1>0, <4>1, RunStep
      <4>4. Named(ch) = {ch.id} /\ ch.id \in Ids(c) /\ Brought(ch) = {} /\ Removed(ch) = {} /\ Recorded(ch)
        <5>1. ch.id \in Refers(b) /\ Named(ch) = {ch.id}
          BY <1>0, <2>2, <4>1, InPlaceIds DEF InPlaceOps
        <5>2. ch.op = "update" /\ Recorded(ch)
          BY <1>0, <2>2, <4>1
        <5> QED
          BY <5>1, <5>2 DEF CanApply, Brought, Removed
      <4> PICK d : d = chain[k].cells
        OBVIOUS
      <4>5. PlainList(Effect(d, ch)) /\ Ids(Effect(d, ch)) = Ids(d)
        BY <4>2, <4>4, RecordedFits
      <4> QED
        BY <4>2, <4>3, <4>4, <4>5 DEF IsMade
    <3> HIDE DEF A
    <3>4. n \in A
      BY <1>0, <3>2, <3>3, Induction
    <3> QED
      BY <1>0, <3>1, <3>4 DEF A
  <2> QED
    BY <1>0, <2>1, <2>2
<1>4. PreservesReferences(c, Apply(c, b).cells)
  BY <1>3, NothingOrphaned
<1> QED
  BY <1>2, <1>3, <1>4 DEF Proposal

-----------------------------------------------------------------------------
(* What a committed batch does to the ids. *)

LEMMA IdsOfInsertion ==
  ASSUME NEW S, NEW s \in Seq(S), NEW e \in S, NEW i \in 1..(Len(s) + 1)
  PROVE  /\ Ids(InsertAt(s, i, e)) = Ids(s) \cup {e.id}
         /\ UniqueIds(InsertAt(s, i, e)) => e.id \notin Ids(s)
<1> PICK d : d = InsertAt(s, i, e)
  OBVIOUS
<1> PICK n : n = Len(s)
  OBVIOUS
<1>1. d \in Seq(S) /\ IsInsertion(d, s, e, i)
  BY InsertAtSeq
<1>2. /\ n \in Nat /\ DOMAIN s = 1..n /\ DOMAIN d = 1..(n + 1) /\ i \in 1..(n + 1)
      /\ \A j \in 1..(n + 1) : d[j] = IF j < i THEN s[j] ELSE IF j = i THEN e ELSE s[j - 1]
  BY <1>1 DEF IsInsertion
<1>3. d[i] = e
  BY <1>2
<1>4. \A k \in 1..n : \E j \in 1..(n + 1) : j # i /\ d[j] = s[k]
  <2> TAKE k \in 1..n
  <2>1. CASE k < i
    <3>1. k \in 1..(n + 1) /\ k # i /\ d[k] = s[k]
      BY <1>2, <2>1
    <3> QED
      BY <3>1
  <2>2. CASE ~(k < i)
    <3>1. k + 1 \in 1..(n + 1) /\ k + 1 # i /\ ~(k + 1 < i) /\ (k + 1) - 1 = k
      BY <1>2, <2>2
    <3>2. d[k + 1] = s[k]
      BY <1>2, <3>1
    <3> QED
      BY <3>1, <3>2
  <2> QED
    BY <2>1, <2>2
<1>5. \A j \in 1..(n + 1) : d[j] = e \/ \E k \in 1..n : d[j] = s[k]
  <2> TAKE j \in 1..(n + 1)
  <2>1. CASE j < i
    BY <1>2, <2>1
  <2>2. CASE j = i
    BY <1>2, <2>2
  <2>3. CASE j > i
    <3>1. j - 1 \in 1..n /\ d[j] = s[j - 1]
      BY <1>2, <2>3
    <3> QED
      BY <3>1
  <2> QED
    BY <1>2, <2>1, <2>2, <2>3
<1>6. Ids(d) = Ids(s) \cup {e.id}
  <2>1. ASSUME NEW j \in 1..(n + 1) PROVE d[j].id \in Ids(s) \cup {e.id}
    BY <1>2, <1>5 DEF Ids
  <2>2. ASSUME NEW k \in 1..n PROVE s[k].id \in Ids(d)
    BY <1>2, <1>4 DEF Ids
  <2>3. e.id \in Ids(d)
    BY <1>2, <1>3 DEF Ids
  <2>4. Ids(d) \subseteq Ids(s) \cup {e.id}
    <3> SUFFICES ASSUME NEW y \in Ids(d) PROVE y \in Ids(s) \cup {e.id}
      OBVIOUS
    <3>1. PICK j \in 1..(n + 1) : y = d[j].id
      BY <1>2 DEF Ids
    <3> QED
      BY <2>1, <3>1
  <2>5. Ids(s) \subseteq Ids(d)
    BY ONLY <2>2, <1>2 DEF Ids
  <2> QED
    BY <2>3, <2>4, <2>5
<1>7. ASSUME UniqueIds(d), e.id \in Ids(s) PROVE FALSE
  <2>1. PICK k \in 1..n : s[k].id = e.id
    BY <1>2, <1>7 DEF Ids
  <2>2. PICK j \in 1..(n + 1) : j # i /\ d[j] = s[k]
    BY <1>4
  <2> QED
    BY <1>2, <1>3, <1>7, <2>1, <2>2 DEF UniqueIds
<1> QED
  BY <1>6, <1>7

\* A change that leaves distinct ids brought new ones.
LEMMA IdsChanged ==
  ASSUME NEW cells \in Cells, UniqueIds(cells), NEW ch \in Change, Named(ch) \subseteq Ids(cells),
         ch.op = "moveRelative" => ch.id # ch.anchor, UniqueIds(Effect(cells, ch))
  PROVE  /\ Brought(ch) \cap Ids(cells) = {}
         /\ Ids(Effect(cells, ch)) = (Ids(cells) \cup Brought(ch)) \ Removed(ch)
<1>0. cells \in Seq(Cell) /\ Len(cells) \in Nat
  BY DEF Cells
<1>1. CASE ch.op = "insert"
  <2> PICK i : i = Lesser(ch.index, Len(cells)) + 1
    OBVIOUS
  <2> PICK x : x = ch.cell
    OBVIOUS
  <2>1. ch.index \in Nat /\ x \in Cell
    BY <1>1 DEF Change
  <2>2. i \in 1..(Len(cells) + 1)
    BY <1>0, <2>1, PutSeq
  <2>3. Effect(cells, ch) = InsertAt(cells, i, x)
    BY <1>1 DEF Effect, Put
  <2>4. Ids(Effect(cells, ch)) = Ids(cells) \cup {x.id} /\ x.id \notin Ids(cells)
    BY <1>0, <2>1, <2>2, <2>3, IdsOfInsertion
  <2> QED
    BY <1>1, <2>4 DEF Brought, Removed
<1>2. CASE ch.op = "insertRelative"
  <2> PICK i : i = PositionOf(cells, ch.anchor) + (IF ch.after THEN 1 ELSE 0)
    OBVIOUS
  <2> PICK x : x = ch.cell
    OBVIOUS
  <2>1. ch.anchor \in Ids(cells) /\ ch.after \in BOOLEAN /\ x \in Cell
    BY <1>2 DEF Change, Named
  <2>2. i \in 1..(Len(cells) + 1)
    BY <1>0, <2>1, BesideSeq
  <2>3. Effect(cells, ch) = InsertAt(cells, i, x)
    BY <1>2 DEF Effect, Beside
  <2>4. Ids(Effect(cells, ch)) = Ids(cells) \cup {x.id} /\ x.id \notin Ids(cells)
    BY <1>0, <2>1, <2>2, <2>3, IdsOfInsertion
  <2> QED
    BY <1>2, <2>4 DEF Brought, Removed
<1>3. CASE ch.op = "moveRelative"
  <2> PICK w : w = Without(cells, ch.id)
    OBVIOUS
  <2> PICK x : x = CellOf(cells, ch.id)
    OBVIOUS
  <2> PICK i : i = PositionOf(w, ch.anchor) + (IF ch.after THEN 1 ELSE 0)
    OBVIOUS
  <2>1. ch.anchor \in Ids(cells) /\ ch.id \in Ids(cells) /\ ch.after \in BOOLEAN /\ ch.anchor # ch.id
    BY <1>3 DEF Change, Named
  <2>2. w \in Seq(Cell) /\ Ids(w) = Ids(cells) \ {ch.id} /\ x \in Cell /\ x.id = ch.id
    BY <1>0, <2>1, Removing
  <2>3. i \in 1..(Len(w) + 1)
    BY <2>1, <2>2, BesideSeq
  <2>4. Effect(cells, ch) = InsertAt(w, i, x)
    BY <1>3 DEF Effect, Beside
  <2>5. Ids(Effect(cells, ch)) = Ids(w) \cup {x.id}
    BY <2>2, <2>3, <2>4, IdsOfInsertion
  <2> QED
    BY <1>3, <2>1, <2>2, <2>5 DEF Brought, Removed
<1>4. CASE ch.op \in {"update", "clearOutputs", "delete", "move"}
  <2>1. ch.id \in Ids(cells)
    BY <1>4 DEF Named
  <2>2. CellOf(cells, ch.id) \in Cell
    BY <2>1, IdsTyped
  <2> PICK old \in Cell : old = CellOf(cells, ch.id)
    BY <2>2
  <2>3. ch.op = "update" => Rewritten(old, ch) \in Cell
    BY RewrittenTyped
  <2>4. Cleared(old) \in Cell
    BY DEF Cleared, Cell, NoOutput
  <2>5. Fits(Cell, cells, ch)
    BY <1>4, <2>1, <2>3, <2>4 DEF Fits, EditorOps
  <2>6. Cell \in SUBSET Cell
    OBVIOUS
  <2>7. Ids(Effect(cells, ch)) = IdsAfter(cells, ch)
    BY ONLY <1>0, <2>5, <2>6, EffectUnique, UniqueIds(cells)
  <2>8. Brought(ch) = {} /\ Removed(ch) = IF ch.op = "delete" THEN {ch.id} ELSE {}
    BY <1>4 DEF Brought, Removed
  <2>9. IdsAfter(cells, ch) = IF ch.op = "delete" THEN Ids(cells) \ {ch.id} ELSE Ids(cells)
    BY <1>4 DEF IdsAfter
  <2> QED
    BY <2>7, <2>8, <2>9
<1> QED
  BY <1>1, <1>2, <1>3, <1>4 DEF Change

\* What a committed batch referred to was there, and what it brought was not.
LEMMA Applied ==
  ASSUME NEW cells \in Cells, UniqueIds(cells), NEW b, SentBatch(b), Proposal(cells, b).ok,
         UniqueIds(Proposal(cells, b).cells)
  PROVE  CanApply(Ids(cells), b) /\ Ids(Proposal(cells, b).cells) = IdsLeft(Ids(cells), b)
<1> PICK n : n = Len(b)
  OBVIOUS
<1>0. b \in Changes /\ n \in Nat /\ DOMAIN b = 1..n /\ \A i \in 1..n : b[i] \in Change
  BY DEF SentBatch, Changes
<1>1. ValidChanges(b) /\ Apply(cells, b).ok /\ UniqueIds(Apply(cells, b).cells)
      /\ Proposal(cells, b).cells = Apply(cells, b).cells
  BY DEF Proposal
<1>2. Apart(b) /\ n \in 1..MaxChanges
  BY <1>1 DEF ValidChanges, WellFormed, Apart
<1>3. CASE n = 1
  <2>1. Named(b[1]) \subseteq Ids(cells) /\ Apply(cells, b).cells = Effect(cells, b[1])
    BY <1>0, <1>1, <1>2, <1>3, ApplySingle
  <2>2. b[1] \in Change /\ (b[1].op = "moveRelative" => b[1].id # b[1].anchor)
    BY <1>0, <1>2, <1>3 DEF Apart
  <2>3. /\ Brought(b[1]) \cap Ids(cells) = {}
        /\ Ids(Effect(cells, b[1])) = (Ids(cells) \cup Brought(b[1])) \ Removed(b[1])
    BY <1>1, <2>1, <2>2, IdsChanged
  <2>4. Brings(b) = Brought(b[1]) /\ Takes(b) = Removed(b[1]) /\ Refers(b) = Named(b[1])
    BY <1>0, <1>3, OneChange
  <2> QED
    BY <1>1, <1>2, <2>1, <2>3, <2>4 DEF CanApply, IdsLeft
<1>4. CASE \A i \in 1..n : b[i].op \in InPlaceOps
  <2> PICK chain : IsRun(chain, cells, b)
    BY <1>0, <1>2, ApplyRun
  <2>1. chain[0] = [ok |-> TRUE, cells |-> cells] /\ chain[n] = Apply(cells, b)
    BY DEF IsRun
  <2> DEFINE A == {k \in Nat : k <= n => (chain[k].ok => /\ UniqueIds(chain[k].cells)
                                                        /\ Ids(chain[k].cells) = Ids(cells)
                                                        /\ \A i \in 1..k : b[i].id \in Ids(cells))}
  <2>2. 0 \in A
    BY <2>1
  <2>3. ASSUME NEW k \in Nat, k \in A PROVE k + 1 \in A
    <3> SUFFICES ASSUME k + 1 <= n, chain[k + 1].ok
                 PROVE  /\ UniqueIds(chain[k + 1].cells) /\ Ids(chain[k + 1].cells) = Ids(cells)
                        /\ \A i \in 1..(k + 1) : b[i].id \in Ids(cells)
      OBVIOUS
    <3>1. k \in 0..(n - 1) /\ k + 1 \in 1..n /\ k <= n
      BY <1>0
    <3> PICK ch : ch = b[k + 1]
      OBVIOUS
    <3>2. chain[k].cells \in Cells /\ IsMade(chain[k], ch, chain[k + 1])
      BY <1>0, <3>1, RunStep
    <3>3. /\ UniqueIds(chain[k].cells) /\ Ids(chain[k].cells) = Ids(cells)
          /\ \A i \in 1..k : b[i].id \in Ids(cells)
      BY <2>3, <3>1, <3>2 DEF IsMade
    <3>4. ch \in Change /\ ch.op \in InPlaceOps /\ Named(ch) = {ch.id} /\ ch.id \in Ids(cells)
      <4>1. ch \in Change /\ ch.op \in InPlaceOps
        BY <1>0, <1>4, <3>1
      <4>2. Named(ch) = {ch.id}
        BY <4>1 DEF Named, InPlaceOps
      <4> QED
        BY <3>2, <3>3, <4>1, <4>2 DEF IsMade
    <3> PICK d \in Cells : d = chain[k].cells
      BY <3>2
    <3> PICK old \in Cell : old = CellOf(d, ch.id)
      BY <3>3, <3>4, IdsTyped
    <3>5. Fits(Cell, d, ch)
      <4>1. ch.op = "update" => Rewritten(old, ch) \in Cell
        BY <3>4, RewrittenTyped
      <4>2. Cleared(old) \in Cell
        BY DEF Cleared, Cell, NoOutput
      <4> QED
        BY <3>3, <3>4, <4>1, <4>2 DEF Fits, EditorOps, InPlaceOps
    <3>6. UniqueIds(Effect(d, ch)) /\ Ids(Effect(d, ch)) = Ids(d)
      <4>1. Cell \in SUBSET Cell /\ d \in Seq(Cell) /\ UniqueIds(d)
        BY <3>3 DEF Cells
      <4>2. UniqueIds(Effect(d, ch)) /\ Ids(Effect(d, ch)) = IdsAfter(d, ch)
        BY ONLY <3>5, <4>1, EffectUnique
      <4> QED
        BY <3>4, <4>2 DEF IdsAfter, InPlaceOps
    <3>7. chain[k + 1].cells = Effect(d, ch)
      BY <3>2 DEF IsMade
    <3>8. \A i \in 1..(k + 1) : i \in 1..k \/ i = k + 1
      OBVIOUS
    <3> QED
      BY <3>3, <3>4, <3>6, <3>7, <3>8
  <2> HIDE DEF A
  <2>4. n \in A
    BY <1>0, <2>2, <2>3, Induction
  <2>5. Ids(Apply(cells, b).cells) = Ids(cells) /\ \A i \in 1..n : b[i].id \in Ids(cells)
    BY <1>0, <1>1, <2>1, <2>4 DEF A
  <2>6. Brings(b) = {} /\ IdsLeft(Ids(cells), b) = Ids(cells) /\ Refers(b) \subseteq Ids(cells)
    BY <1>0, <1>4, <2>5, InPlaceIds
  <2> QED
    BY <1>1, <1>2, <2>5, <2>6 DEF CanApply
<1> QED
  BY <1>0, <1>3, <1>4 DEF SentBatch

\* The gateway's file has no microscopes if it had none: a proposal keeps them.
LEMMA MergedPlain ==
  ASSUME NEW f, PlainList(f), NEW b \in Changes, Proposal(f, b).ok,
         UniqueIds(Merged(f, Proposal(f, b).cells))
  PROVE  LET next == Merged(f, Proposal(f, b).cells)
         IN PlainList(next) /\ Ids(next) = Ids(Proposal(f, b).cells) /\ UniqueIds(Proposal(f, b).cells)
<1> PICK p : p = Proposal(f, b).cells
  OBVIOUS
<1> PICK m : m = Merged(f, p)
  OBVIOUS
<1>1. f \in Cells /\ p \in Cells /\ m \in Cells
  BY PlainTyped, ProposalTyped, MergedTyped
<1>2. PreservesReferences(f, p)
  BY DEF Proposal
<1>3. /\ DOMAIN m = DOMAIN p /\ DOMAIN p = 1..Len(p)
      /\ \A i \in 1..Len(p) : p[i] \in Cell /\ m[i].id = p[i].id /\ m[i].refs = p[i].refs
  <2>1. DOMAIN p = 1..Len(p) /\ \A i \in 1..Len(p) : p[i] \in Cell
    BY <1>1 DEF Cells
  <2>2. \A i \in DOMAIN p : \E out : m[i] = [p[i] EXCEPT !.out = out]
    BY DEF Merged
  <2>3. DOMAIN m = DOMAIN p
    BY DEF Merged
  <2>4. ASSUME NEW i \in 1..Len(p) PROVE m[i].id = p[i].id /\ m[i].refs = p[i].refs
    <3>1. PICK out : m[i] = [p[i] EXCEPT !.out = out]
      BY <2>1, <2>2
    <3> QED
      BY <2>1, <3>1 DEF Cell
  <2> QED
    BY <2>1, <2>3, <2>4
<1>4. UniqueIds(p) /\ Ids(m) = Ids(p)
  BY <1>3 DEF UniqueIds, Ids
<1>5. ASSUME NEW i \in 1..Len(p) PROVE p[i].refs = {}
  <2>1. CASE p[i].id \notin Ids(f)
    BY <1>2, <1>3, <2>1 DEF PreservesReferences
  <2>2. CASE p[i].id \in Ids(f)
    <3>1. PICK j \in DOMAIN f : f[j].id = p[i].id
      BY <2>2 DEF Ids
    <3>2. p[i].id \in Ids(p) /\ CellOf(p, p[i].id) = p[i]
      <4>1. p \in Seq(Cell)
        BY <1>1 DEF Cells
      <4> QED
        BY <1>4, <4>1, Found
    <3>3. f[j].refs = p[i].refs
      BY <1>2, <3>1, <3>2 DEF PreservesReferences
    <3>4. f[j].refs = {}
      BY <3>1, PlainTyped DEF PlainList
    <3> QED
      BY <3>3, <3>4
  <2> QED
    BY <2>1, <2>2
<1>6. m \in Seq(PlainCell)
  <2>1. Len(m) \in Nat /\ DOMAIN m = 1..Len(m) /\ \A i \in 1..Len(m) : m[i] \in Cell /\ m[i].refs = {}
    BY <1>1, <1>3, <1>5 DEF Cells
  <2>2. m \in Seq(Cell)
    BY <1>1 DEF Cells
  <2> QED
    BY <2>1, <2>2 DEF PlainCell
<1> QED
  BY <1>4, <1>6 DEF PlainList

-----------------------------------------------------------------------------
(* The inverse that is recorded, and the batch that is sent. *)

\* The inverse of one change can be applied where the change left the ids, and
\* leaves them as they were.
LEMMA InverseRecorded ==
  ASSUME NEW c, PlainList(c), NEW ch, Recorded(ch), Named(ch) \subseteq Ids(c)
  PROVE  LET x == InverseOf(c, ch)
         IN /\ Recorded(x) /\ (ch.op = "update" => x.op = "update" /\ x.id = ch.id)
            /\ \A D : Named(ch) \subseteq D /\ Brought(ch) \cap D = {} =>
                 LET E == (D \cup Brought(ch)) \ Removed(ch)
                 IN /\ Named(x) \subseteq E /\ Brought(x) \cap E = {}
                    /\ (E \cup Brought(x)) \ Removed(x) = D
<1> PICK x : x = InverseOf(c, ch)
  OBVIOUS
<1> DEFINE Back == \A D : Named(ch) \subseteq D /\ Brought(ch) \cap D = {} =>
                 LET E == (D \cup Brought(ch)) \ Removed(ch)
                 IN /\ Named(x) \subseteq E /\ Brought(x) \cap E = {}
                    /\ (E \cup Brought(x)) \ Removed(x) = D
<1>1. ch \in Change /\ ch.op \in Invertible /\ c \in Cells
  BY PlainTyped DEF Recorded, Invertible
<1>2. x \in Change
  BY <1>1, InverseTyped
<1>3. CASE ch.op = "insert"
  <2>1. x = DeleteChange(ch.cell.id)
    BY <1>3 DEF InverseOf
  <2>2. x.op = "delete" /\ x.id = ch.cell.id
    BY <2>1 DEF DeleteChange
  <2>3. Recorded(x)
    BY <1>2, <2>2 DEF Recorded
  <2>4. /\ Named(ch) = {} /\ Brought(ch) = {x.id} /\ Removed(ch) = {}
        /\ Named(x) = {x.id} /\ Brought(x) = {} /\ Removed(x) = {x.id}
    BY <1>3, <2>2 DEF Named, Brought, Removed
  <2>5. Back
    BY <2>4
  <2> QED
    BY <1>3, <2>3, <2>5
<1>4. CASE ch.op = "delete"
  <2> PICK y : y = CellOf(c, ch.id)
    OBVIOUS
  <2>0. ch.id \in Ids(c)
    BY <1>4 DEF Named
  <2>1. y \in Cell /\ y.id = ch.id
    BY <1>1, <2>0, IdsTyped
  <2>2. y.refs = {}
    <3>1. PositionOf(c, ch.id) \in 1..Len(c)
      BY <2>0, PlainTyped, PositionFound
    <3> QED
      BY <3>1, PlainTyped DEF CellOf
  <2>3. x = InsertChange(PositionOf(c, ch.id) - 1, y)
    BY <1>4 DEF InverseOf
  <2>4. x.op = "insert" /\ x.cell = y
    BY <2>3 DEF InsertChange
  <2>5. Recorded(x)
    BY <1>2, <2>2, <2>4 DEF Recorded
  <2>6. /\ Named(ch) = {ch.id} /\ Brought(ch) = {} /\ Removed(ch) = {ch.id}
        /\ Named(x) = {} /\ Brought(x) = {ch.id} /\ Removed(x) = {}
    BY <1>4, <2>1, <2>4 DEF Named, Brought, Removed
  <2>7. Back
    BY <2>6
  <2> QED
    BY <1>4, <2>5, <2>7
<1>5. CASE ch.op \in {"move", "update"}
  <2>3. Recorded(x) /\ x.op = ch.op /\ x.id = ch.id
    <3>1. ch.op = "move" => x = MoveChange(ch.id, PositionOf(c, ch.id) - 1)
      BY DEF InverseOf
    <3>2. ch.op = "update" =>
            x = UpdateChange(ch.id, Former(ch.src, CellOf(c, ch.id).src),
                             Former(ch.kind, CellOf(c, ch.id).kind), Former(ch.refs, CellOf(c, ch.id).refs))
      BY DEF InverseOf
    <3>3. x.op = ch.op /\ x.id = ch.id /\ (ch.op = "update" => x.refs = Keep)
      BY <1>5, <3>1, <3>2 DEF MoveChange, UpdateChange, Former, Recorded
    <3> QED
      BY <1>2, <1>5, <3>3 DEF Recorded
  <2>4. /\ Named(ch) = {ch.id} /\ Brought(ch) = {} /\ Removed(ch) = {}
        /\ Named(x) = {ch.id} /\ Brought(x) = {} /\ Removed(x) = {}
    BY <1>5, <2>3 DEF Named, Brought, Removed
  <2>5. Back
    BY <2>4
  <2> QED
    BY <2>3, <2>5
<1> QED
  BY <1>3, <1>4, <1>5 DEF Recorded

LEMMA InvertedSingle ==
  ASSUME NEW cells \in Cells, NEW b \in Changes, Len(b) = 1
  PROVE  /\ Inverted(cells, b).ok <=> b[1].op \in Invertible /\ Named(b[1]) \subseteq Ids(cells)
         /\ Inverted(cells, b).ok => Inverted(cells, b).changes = <<InverseOf(cells, b[1])>>
<1> PICK n : n = Len(b)
  OBVIOUS
<1> PICK chain \in Undoings(n) : IsUndo(chain, cells, b, n)
  BY UndoRun
<1> PICK x : x = InverseOf(cells, b[1])
  OBVIOUS
<1>1. chain[0] = [ok |-> TRUE, cells |-> cells, inverse |-> <<>>]
      /\ Inverted(cells, b) = [ok |-> chain[1].ok, changes |-> chain[1].inverse]
  BY DEF IsUndo
<1> PICK ch : ch = b[1]
  OBVIOUS
<1> PICK r : r = chain[0]
  OBVIOUS
<1> PICK q : q = chain[1]
  OBVIOUS
<1> PICK l : l = <<x>> \o <<>>
  OBVIOUS
<1>2. /\ r.ok /\ r.cells = cells /\ r.inverse = <<>> /\ x = InverseOf(r.cells, ch)
      /\ r = [ok |-> r.ok, cells |-> cells, inverse |-> <<>>]
  BY <1>1
<1>3. q = Collect(r, ch)
  BY DEF IsUndo
<1>4. l = <<x>>
  OBVIOUS
<1>5. CASE ch.op \in Invertible /\ Named(ch) \subseteq Ids(cells)
  <2>1. q = [ok |-> TRUE, cells |-> Effect(cells, ch), inverse |-> l]
    BY <1>2, <1>3, <1>5 DEF Collect
  <2> QED
    BY <1>1, <1>4, <1>5, <2>1
<1>6. CASE ~(ch.op \in Invertible /\ Named(ch) \subseteq Ids(cells))
  <2>1. q = [r EXCEPT !.ok = FALSE]
    BY <1>2, <1>3, <1>6 DEF Collect
  <2>2. ~q.ok
    BY <1>2, <2>1
  <2> QED
    BY <1>1, <1>6, <2>2
<1> QED
  BY <1>5, <1>6

\* What is pushed on a stack leads back from where the batch leads.
GoesBack(b, inv) ==
  \A D : CanApply(D, b) => CanApply(IdsLeft(D, b), inv) /\ IdsLeft(IdsLeft(D, b), inv) = D

LEMMA Returns ==
  ASSUME NEW c, PlainList(c), NEW b, HistBatch(b), Inverted(c, b).ok
  PROVE  HistBatch(Inverted(c, b).changes) /\ GoesBack(b, Inverted(c, b).changes)
<1> PICK n : n = Len(b)
  OBVIOUS
<1> PICK inv : inv = Inverted(c, b).changes
  OBVIOUS
<1>0. /\ b \in Changes /\ n \in Nat /\ DOMAIN b = 1..n /\ c \in Cells
      /\ \A i \in 1..n : Recorded(b[i])
      /\ n = 1 \/ \A i \in 1..n : b[i].op = "update"
  BY PlainTyped DEF HistBatch, Changes
<1>1. inv \in Changes
  BY <1>0, InvertedTyped
<1>2. CASE n = 1
  <2> PICK ch : ch = b[1]
    OBVIOUS
  <2> PICK x : x = InverseOf(c, ch)
    OBVIOUS
  <2>1. Recorded(ch) /\ Named(ch) \subseteq Ids(c) /\ inv = <<x>>
    BY <1>0, <1>2, InvertedSingle
  <2>2. Len(inv) = 1 /\ inv[1] = x
    BY <2>1
  <2>3. /\ Recorded(x)
        /\ \A D : Named(ch) \subseteq D /\ Brought(ch) \cap D = {} =>
                 LET E == (D \cup Brought(ch)) \ Removed(ch)
                 IN /\ Named(x) \subseteq E /\ Brought(x) \cap E = {}
                    /\ (E \cup Brought(x)) \ Removed(x) = D
    BY <2>1, InverseRecorded
  <2>4. HistBatch(inv)
    BY <1>1, <2>2, <2>3 DEF HistBatch
  <2>5. /\ Brings(b) = Brought(ch) /\ Takes(b) = Removed(ch) /\ Refers(b) = Named(ch)
        /\ Brings(inv) = Brought(x) /\ Takes(inv) = Removed(x) /\ Refers(inv) = Named(x)
    BY <1>0, <1>1, <1>2, <2>2, OneChange
  <2>6. GoesBack(b, inv)
    BY <1>2, <2>2, <2>3, <2>5 DEF GoesBack, CanApply, IdsLeft
  <2> QED
    BY <2>4, <2>6
<1>3. CASE \A i \in 1..n : b[i].op = "update"
  <2> PICK chain \in Undoings(n) : IsUndo(chain, c, b, n)
    BY <1>0, UndoRun
  <2>1. chain[0] = [ok |-> TRUE, cells |-> c, inverse |-> <<>>]
        /\ Inverted(c, b) = [ok |-> chain[n].ok, changes |-> chain[n].inverse]
    BY DEF IsUndo
  <2> DEFINE Undoes(k, s) ==
               /\ Len(s) = k
               /\ \A j \in 1..k : Recorded(s[j]) /\ s[j].op = "update" /\ \E i \in 1..k : s[j].id = b[i].id
             A == {k \in Nat : k <= n =>
                     (chain[k].ok => PlainList(chain[k].cells) /\ Undoes(k, chain[k].inverse))}
  <2>2. 0 \in A
    BY <2>1
  <2>20. \A k, s : Undoes(k, s) =
               (/\ Len(s) = k
                /\ \A j \in 1..k : Recorded(s[j]) /\ s[j].op = "update" /\ \E i \in 1..k : s[j].id = b[i].id)
    OBVIOUS
  <2> HIDE DEF Undoes
  <2>3. ASSUME NEW k \in Nat, k \in A PROVE k + 1 \in A
    <3> SUFFICES ASSUME k + 1 <= n, chain[k + 1].ok
                 PROVE  PlainList(chain[k + 1].cells) /\ Undoes(k + 1, chain[k + 1].inverse)
      OBVIOUS
    <3>1. k \in 0..(n - 1) /\ k + 1 \in 1..n /\ k <= n
      BY <1>0
    <3> PICK ch : ch = b[k + 1]
      OBVIOUS
    <3> PICK d : d = chain[k].cells
      OBVIOUS
    <3> PICK s : s = chain[k].inverse
      OBVIOUS
    <3> PICK x : x = InverseOf(d, ch)
      OBVIOUS
    <3>2. /\ chain[k].ok /\ Named(ch) \subseteq Ids(d) /\ s \in Changes
          /\ chain[k + 1].cells = Effect(d, ch) /\ chain[k + 1].inverse = <<x>> \o s
      BY <1>0, <3>1, UndoStep
    <3>3. PlainList(d) /\ Undoes(k, s)
      BY <2>3, <3>1, <3>2
    <3>4. Recorded(ch) /\ ch.op = "update"
      BY <1>0, <1>3, <3>1
    <3>5. Recorded(x) /\ x.op = "update" /\ x.id = ch.id
      BY ONLY <3>2, <3>3, <3>4, InverseRecorded, x = InverseOf(d, ch)
    <3>6. PlainList(Effect(d, ch))
      <4>1. Brought(ch) = {}
        BY <3>4 DEF Brought
      <4> QED
        BY <3>2, <3>3, <3>4, <4>1, RecordedFits
    <3> PICK t : t = <<x>> \o s
      OBVIOUS
    <3>7. /\ Len(t) = k + 1
          /\ \A j \in 1..(k + 1) : t[j] = IF j <= 1 THEN x ELSE s[j - 1]
      <4> PICK h : h = <<x>>
        OBVIOUS
      <4>1. h \in Seq(Change) /\ Len(h) = 1 /\ h[1] = x /\ s \in Seq(Change)
        BY <3>2, <3>5 DEF Recorded, Changes
      <4>2. Len(h \o s) = Len(h) + Len(s) /\ \A j \in 1..(Len(h) + Len(s)) :
              (h \o s)[j] = IF j <= Len(h) THEN h[j] ELSE s[j - Len(h)]
        BY <4>1, JoinedSeq
      <4>3. t = h \o s /\ Len(s) = k
        BY <2>20, <3>3
      <4> QED
        BY <4>1, <4>2, <4>3
    <3>8. Undoes(k + 1, t)
      <4> SUFFICES ASSUME NEW j \in 1..(k + 1)
                   PROVE  Recorded(t[j]) /\ t[j].op = "update" /\ \E i \in 1..(k + 1) : t[j].id = b[i].id
        BY <2>20, <3>7
      <4>1. CASE j <= 1
        BY <3>1, <3>5, <3>7, <4>1
      <4>2. CASE ~(j <= 1)
        <5>1. j - 1 \in 1..k /\ t[j] = s[j - 1] /\ \A i \in 1..k : i \in 1..(k + 1)
          BY <3>7, <4>2
        <5> PICK p \in 1..k : p = j - 1
          BY <5>1
        <5>2. Recorded(s[p]) /\ s[p].op = "update" /\ \E i \in 1..k : s[p].id = b[i].id
          BY <2>20, <3>3
        <5> QED
          BY <5>1, <5>2
      <4> QED
        BY <4>1, <4>2
    <3>9. chain[k + 1].cells = Effect(d, ch) /\ chain[k + 1].inverse = t
      BY <3>2
    <3> QED
      BY ONLY <3>6, <3>8, <3>9
  <2> HIDE DEF A
  <2>4. n \in A
    BY <1>0, <2>2, <2>3, Induction
  <2>5. Undoes(n, inv)
    BY <1>0, <2>1, <2>4 DEF A
  <2>6. HistBatch(inv) /\ Len(inv) = n
    BY <1>1, <2>5, <2>20 DEF HistBatch
  <2>7. /\ \A D : IdsLeft(D, b) = D /\ Brings(b) = {} /\ \A i \in 1..n : b[i].id \in Refers(b)
    BY <1>0, <1>3, InPlaceIds DEF InPlaceOps
  <2>8. \A i \in 1..Len(inv) : inv[i].op \in InPlaceOps
    BY <2>5, <2>20 DEF InPlaceOps
  <2>9. /\ \A D : IdsLeft(D, inv) = D /\ Brings(inv) = {}
        /\ \A D : (\A i \in 1..Len(inv) : inv[i].id \in D) => Refers(inv) \subseteq D
    BY <1>1, <2>8, InPlaceIds
  <2>10. \A D : Refers(b) \subseteq D => Refers(inv) \subseteq D
    BY <2>5, <2>7, <2>9, <2>20
  <2>11. GoesBack(b, inv)
    BY <2>6, <2>7, <2>9, <2>10 DEF GoesBack, CanApply
  <2> QED
    BY <2>6, <2>11
<1> QED
  BY <1>0, <1>2, <1>3

\* What is sent brings and takes what the editor's batch does, and refers to more.
LEMMA SentIds ==
  ASSUME NEW c, PlainList(c), NEW b, EmitBatch(b)
  PROVE  /\ SentBatch(Anchored(c, b))
         /\ \A D : CanApply(D, Anchored(c, b)) => CanApply(D, b) /\ IdsLeft(D, Anchored(c, b)) = IdsLeft(D, b)
<1> PICK n : n = Len(b)
  OBVIOUS
<1> PICK sent : sent = Anchored(c, b)
  OBVIOUS
<1>0. /\ b \in Changes /\ n \in Nat /\ DOMAIN b = 1..n /\ c \in Cells /\ UniqueIds(c)
      /\ \A i \in 1..n : b[i] \in Change /\ b[i].op \in EditorOps
      /\ n = 1 \/ \A i \in 1..n : b[i].op \in InPlaceOps
  BY PlainTyped DEF EmitBatch, Changes, PlainList
<1>1. CASE n = 1
  <2> PICK ch : ch = b[1]
    OBVIOUS
  <2> PICK x : x = SentOf(Listed(c), ch)
    OBVIOUS
  <2>1. ch \in Change /\ ch.op \in EditorOps /\ sent = <<x>>
    BY <1>0, <1>1, AnchoredSingle
  <2>2. x \in Change
    <3> PICK r : r = [ids |-> Listed(c), out |-> <<>>]
      OBVIOUS
    <3>1. r \in [ids : Seq(CellId), out : Changes] /\ r.ids = Listed(c)
      BY <1>0, ListedSeq DEF Changes
    <3>2. MeansTheSame(c, ch, x)
      BY <1>0, <2>1, <3>1, TrackFollows
    <3> QED
      BY <3>2 DEF MeansTheSame
  <2>3. sent \in Changes /\ Len(sent) = 1 /\ sent[1] = x
    BY <2>1, <2>2 DEF Changes
  <2>4. x = ch \/ (ch.op = "insert" /\ \E a, s : x = InsertBeside(a, s, ch.cell))
               \/ (ch.op = "move" /\ \E a, s : x = MoveBeside(ch.id, a, s))
    BY DEF SentOf
  <2>5. Brought(x) = Brought(ch) /\ Removed(x) = Removed(ch) /\ Named(ch) \subseteq Named(x)
    <3>1. CASE x = ch
      BY <3>1
    <3>2. ASSUME ch.op = "insert", NEW a, NEW s, x = InsertBeside(a, s, ch.cell)
          PROVE  Brought(x) = Brought(ch) /\ Removed(x) = Removed(ch) /\ Named(ch) \subseteq Named(x)
      BY <3>2 DEF InsertBeside, Brought, Removed, Named
    <3>3. ASSUME ch.op = "move", NEW a, NEW s, x = MoveBeside(ch.id, a, s)
          PROVE  Brought(x) = Brought(ch) /\ Removed(x) = Removed(ch) /\ Named(ch) \subseteq Named(x)
      BY <3>3 DEF MoveBeside, Brought, Removed, Named
    <3> QED
      BY <2>4, <3>1, <3>2, <3>3
  <2>6. /\ Brings(b) = Brought(ch) /\ Takes(b) = Removed(ch) /\ Refers(b) = Named(ch)
        /\ Brings(sent) = Brought(x) /\ Takes(sent) = Removed(x) /\ Refers(sent) = Named(x)
    BY <1>0, <1>1, <2>3, OneChange
  <2>7. SentBatch(sent)
    BY <2>3 DEF SentBatch
  <2>8. ASSUME NEW D, CanApply(D, sent) PROVE CanApply(D, b) /\ IdsLeft(D, sent) = IdsLeft(D, b)
    BY <1>1, <2>3, <2>5, <2>6, <2>8 DEF CanApply, IdsLeft
  <2> QED
    BY <2>7, <2>8
<1>2. CASE \A i \in 1..n : b[i].op \in InPlaceOps
  <2> PICK track \in Trackings(n) : IsTracking(track, c, b, n)
    BY <1>0, TrackRun
  <2>1. track[0] = [ids |-> Listed(c), out |-> <<>>] /\ track[n].out = sent
    BY DEF IsTracking
  <2> DEFINE A == {k \in Nat : k <= n => Len(track[k].out) = k /\ \A j \in 1..k : track[k].out[j] = b[j]}
  <2>2. 0 \in A
    BY <2>1
  <2>3. ASSUME NEW k \in Nat, k \in A PROVE k + 1 \in A
    <3> SUFFICES ASSUME k + 1 <= n
                 PROVE  Len(track[k + 1].out) = k + 1 /\ \A j \in 1..(k + 1) : track[k + 1].out[j] = b[j]
      OBVIOUS
    <3>1. k + 1 \in 1..n /\ k \in 0..n /\ (k + 1) - 1 = k
      BY <1>0
    <3> PICK ch : ch = b[k + 1]
      OBVIOUS
    <3> PICK r \in [ids : Seq(CellId), out : Changes] : r = track[k]
      BY <3>1 DEF Trackings
    <3>2. ch \in Change /\ ch.op \in InPlaceOps
      BY <1>0, <1>2, <3>1
    <3>3. track[k + 1] = Track(r, ch)
      BY <3>1 DEF IsTracking
    <3>4. Track(r, ch) = [r EXCEPT !.out = Append(r.out, ch)]
      BY <3>2 DEF Track, InPlaceOps
    <3>5. track[k + 1].out = Append(r.out, ch) /\ r.out \in Seq(Change)
      BY <3>3, <3>4 DEF Changes
    <3>6. Len(r.out) = k /\ \A j \in 1..k : r.out[j] = b[j]
      BY <2>3, <3>1
    <3> PICK out \in Seq(Change) : out = r.out
      BY <3>5
    <3>7. Len(Append(out, ch)) = k + 1 /\ \A j \in 1..(k + 1) : Append(out, ch)[j] = b[j]
      BY <3>2, <3>6
    <3> QED
      BY <3>5, <3>7
  <2> HIDE DEF A
  <2>4. n \in A
    BY <1>0, <2>2, <2>3, Induction
  <2>5. Len(sent) = n /\ \A j \in 1..n : sent[j] = b[j]
    BY <1>0, <2>1, <2>4 DEF A
  <2>6. sent = b
    <3>1. sent \in Seq(Change) /\ b \in Seq(Change)
      BY <1>0, AnchoredTyped DEF Changes
    <3> QED
      BY <2>5, <3>1, SameList
  <2> QED
    BY <1>0, <1>2, <2>6 DEF SentBatch
<1> QED
  BY <1>0, <1>1, <1>2

LEMMA HistEmits ==
  ASSUME NEW b, HistBatch(b)
  PROVE  EmitBatch(b)
BY DEF HistBatch, EmitBatch, Recorded, EditorOps, InPlaceOps

-----------------------------------------------------------------------------
(* Stacks that can be replayed, and queues that lead somewhere. *)

IdSet == SUBSET CellId

\* From the top of a stack down to its end, or to an empty batch: each batch can
\* be applied where those above it lead.
Unwinds(v, j, st, V) ==
  /\ v \in [0..Len(st) -> IdSet] /\ j \in 0..Len(st)
  /\ v[Len(st)] = V /\ (j = 0 \/ st[j] = <<>>)
  /\ \A k \in (j + 1)..Len(st) : CanApply(v[k], st[k]) /\ v[k - 1] = IdsLeft(v[k], st[k])
Replayable(st, V) == \E v, j : Unwinds(v, j, st, V)

\* What one item of the queue does to the ids if it is committed, and what the
\* items after the first s do.
Goes(A, m, B) ==
  IF m.kind = "modify" THEN CanApply(A, m.changes) /\ B = IdsLeft(A, m.changes) ELSE B = A
Walks(w, A, q, s, V) ==
  /\ w \in [s..Len(q) -> IdSet] /\ w[s] = A /\ w[Len(q)] = V
  /\ \A k \in (s + 1)..Len(q) : Goes(w[k - 1], q[k], w[k])
Leads(A, q, s, V) == \E w : Walks(w, A, q, s, V)

LEMMA ReplaysNone ==
  ASSUME NEW V \in IdSet
  PROVE  Replayable(<<>>, V)
<1> DEFINE st == <<>>
           v == [k \in 0..Len(st) |-> V]
<1>1. Len(st) = 0 /\ v \in [0..Len(st) -> IdSet]
  OBVIOUS
<1>2. Unwinds(v, 0, st, V)
  BY <1>1 DEF Unwinds
<1> QED
  BY <1>2 DEF Replayable

LEMMA ReplaysEmpty ==
  ASSUME NEW V \in IdSet, NEW st \in Seq(Changes)
  PROVE  Replayable(Append(st, <<>>), V)
<1> DEFINE n == Len(st) + 1
           v == [k \in 0..n |-> V]
<1> PICK r : r = Append(st, <<>>)
  OBVIOUS
<1>0. <<>> \in Changes
  BY DEF Changes
<1>1. Len(r) = n /\ r[n] = <<>> /\ n \in Nat
  BY <1>0
<1>2. v \in [0..Len(r) -> IdSet] /\ v[Len(r)] = V
  BY <1>1
<1> HIDE DEF v
<1>3. Unwinds(v, n, r, V)
  BY <1>1, <1>2 DEF Unwinds
<1> QED
  BY <1>3 DEF Replayable

LEMMA ReplaysPushed ==
  ASSUME NEW V \in IdSet, NEW st \in Seq(Changes), NEW b \in Changes, CanApply(V, b),
         Replayable(st, IdsLeft(V, b))
  PROVE  Replayable(Append(st, b), V)
<1> PICK v, j : Unwinds(v, j, st, IdsLeft(V, b))
  BY DEF Replayable
<1> PICK r : r = Append(st, b)
  OBVIOUS
<1> PICK n : n = Len(st)
  OBVIOUS
<1>1. Len(r) = n + 1 /\ n \in Nat /\ r[n + 1] = b /\ \A k \in 1..n : r[k] = st[k]
  OBVIOUS
<1> PICK u : u = [k \in 0..(n + 1) |-> IF k = n + 1 THEN V ELSE v[k]]
  OBVIOUS
<1>2. /\ v \in [0..n -> IdSet] /\ j \in 0..n /\ v[n] = IdsLeft(V, b) /\ (j = 0 \/ st[j] = <<>>)
      /\ \A k \in (j + 1)..n : CanApply(v[k], st[k]) /\ v[k - 1] = IdsLeft(v[k], st[k])
  BY DEF Unwinds
<1>3. u \in [0..(n + 1) -> IdSet] /\ u[n + 1] = V /\ \A k \in 0..n : u[k] = v[k]
  BY <1>1, <1>2
<1>4. ASSUME NEW k \in (j + 1)..(n + 1) PROVE CanApply(u[k], r[k]) /\ u[k - 1] = IdsLeft(u[k], r[k])
  <2>1. CASE k = n + 1
    <3>1. n \in 0..n /\ k - 1 = n
      BY <1>1, <2>1
    <3> QED
      BY <1>1, <1>2, <1>3, <2>1, <3>1
  <2>2. CASE k # n + 1
    <3>1. k \in (j + 1)..n /\ k \in 1..n /\ k \in 0..n /\ k - 1 \in 0..n
      BY <1>1, <1>2, <2>2
    <3> QED
      BY <1>1, <1>2, <1>3, <3>1
  <2> QED
    BY <2>1, <2>2
<1>5. j \in 0..(n + 1) /\ (j = 0 \/ r[j] = <<>>)
  BY <1>1, <1>2
<1>6. Unwinds(u, j, r, V)
  BY <1>1, <1>3, <1>4, <1>5 DEF Unwinds
<1> QED
  BY <1>6 DEF Replayable

LEMMA StackTop ==
  ASSUME NEW S, NEW st \in Seq(S), st # <<>>
  PROVE  /\ Len(st) \in Nat \ {0} /\ Last(st) = st[Len(st)] /\ Last(st) \in S
         /\ Front(st) \in Seq(S) /\ Len(Front(st)) = Len(st) - 1
         /\ \A k \in 1..(Len(st) - 1) : Front(st)[k] = st[k]
<1>1. Len(st) \in Nat \ {0} /\ Last(st) = st[Len(st)] /\ Last(st) \in S
  BY DEF Last
<1>2. Front(st) = SubSeq(st, 1, Len(st) - 1)
  BY DEF Front
<1> PICK m : m = Len(st) - 1
  OBVIOUS
<1>3. m \in Nat /\ m <= Len(st) /\ \A k \in 1..m : k \in 1..Len(st)
  BY <1>1
<1> PICK r : r = SubSeq(st, 1, m)
  OBVIOUS
<1>4. r \in Seq(S) /\ Len(r) = m
  BY <1>3
<1>5. \A k \in 1..m : r[k] = st[k]
  BY <1>3
<1>6. Front(st) = r
  BY <1>2
<1> QED
  BY <1>1, <1>4, <1>5, <1>6

LEMMA ReplaysTop ==
  ASSUME NEW V, NEW st \in Seq(Changes), st # <<>>, Last(st) # <<>>, Replayable(st, V)
  PROVE  CanApply(V, Last(st)) /\ Replayable(Front(st), IdsLeft(V, Last(st)))
<1> PICK v, j : Unwinds(v, j, st, V)
  BY DEF Replayable
<1> PICK r : r = Front(st)
  OBVIOUS
<1> PICK n : n = Len(st)
  OBVIOUS
<1> PICK b : b = Last(st)
  OBVIOUS
<1>1. /\ n \in Nat \ {0} /\ b = st[n] /\ Len(r) = n - 1 /\ \A k \in 1..(n - 1) : r[k] = st[k]
  BY StackTop
<1>2. /\ v \in [0..n -> IdSet] /\ j \in 0..n /\ v[n] = V /\ (j = 0 \/ st[j] = <<>>)
      /\ \A k \in (j + 1)..n : CanApply(v[k], st[k]) /\ v[k - 1] = IdsLeft(v[k], st[k])
  BY DEF Unwinds
<1>3. j \in 0..(n - 1) /\ n \in (j + 1)..n
  BY <1>1, <1>2
<1>4. CanApply(V, b) /\ v[n - 1] = IdsLeft(V, b)
  BY <1>1, <1>2, <1>3
<1> PICK u : u = [k \in 0..(n - 1) |-> v[k]]
  OBVIOUS
<1>5. u \in [0..(n - 1) -> IdSet] /\ u[n - 1] = IdsLeft(V, b)
  BY <1>1, <1>2, <1>4
<1>6. ASSUME NEW k \in (j + 1)..(n - 1) PROVE CanApply(u[k], r[k]) /\ u[k - 1] = IdsLeft(u[k], r[k])
  <2>1. k \in (j + 1)..n /\ k \in 0..(n - 1) /\ k - 1 \in 0..(n - 1) /\ k \in 1..(n - 1)
    BY <1>1, <1>3
  <2> QED
    BY <1>1, <1>2, <2>1
<1>7. j = 0 \/ r[j] = <<>>
  BY <1>1, <1>2, <1>3
<1>8. Unwinds(u, j, r, IdsLeft(V, b))
  BY <1>1, <1>3, <1>5, <1>6, <1>7 DEF Unwinds
<1> QED
  BY <1>4, <1>8 DEF Replayable

\* A queue that grew leads where what was added leads from where it led.
SameDuty(x, y) == x.kind = y.kind /\ x.changes = y.changes

LEMMA LeadsParts ==
  ASSUME NEW A, NEW V, NEW q, NEW r, NEW items, Len(q) \in Nat, Len(items) \in Nat,
         Len(r) = Len(q) + Len(items), NEW s \in 0..Len(q), Leads(A, r, s, V),
         \A i \in 1..Len(q) : SameDuty(r[i], q[i]),
         \A i \in 1..Len(items) : SameDuty(r[Len(q) + i], items[i])
  PROVE  \E U \in IdSet : Leads(A, q, s, U) /\ Leads(U, items, 0, V)
<1> PICK w : Walks(w, A, r, s, V)
  BY DEF Leads
<1> PICK n \in Nat : n = Len(q)
  OBVIOUS
<1> PICK m \in Nat : m = Len(items)
  OBVIOUS
<1>1. /\ w \in [s..(n + m) -> IdSet] /\ w[s] = A /\ w[n + m] = V
      /\ \A k \in (s + 1)..(n + m) : Goes(w[k - 1], r[k], w[k])
  BY DEF Walks
<1> PICK U : U = w[n]
  OBVIOUS
<1>2. n \in s..(n + m) /\ U \in IdSet
  BY <1>1
<1> PICK a : a = [k \in s..n |-> w[k]]
  OBVIOUS
<1> PICK b : b = [k \in 0..m |-> w[n + k]]
  OBVIOUS
<1>3. Walks(a, A, q, s, U)
  <2>1. a \in [s..n -> IdSet] /\ a[s] = A /\ a[n] = U
    <3>1. \A k \in s..n : k \in s..(n + m)
      OBVIOUS
    <3> QED
      BY <1>1, <1>2, <3>1
  <2>2. ASSUME NEW k \in (s + 1)..n PROVE Goes(a[k - 1], q[k], a[k])
    <3>1. k \in (s + 1)..(n + m) /\ k - 1 \in s..n /\ k \in s..n /\ k \in 1..n
      OBVIOUS
    <3>2. a[k - 1] = w[k - 1] /\ a[k] = w[k] /\ Goes(w[k - 1], r[k], w[k]) /\ SameDuty(r[k], q[k])
      BY <1>1, <3>1
    <3> QED
      BY <3>2 DEF Goes, SameDuty
  <2> QED
    BY <2>1, <2>2 DEF Walks
<1>4. Walks(b, U, items, 0, V)
  <2>1. b \in [0..m -> IdSet] /\ b[0] = U /\ b[m] = V
    <3>1. \A k \in 0..m : n + k \in s..(n + m)
      OBVIOUS
    <3> QED
      BY <1>1, <1>2, <3>1
  <2>2. ASSUME NEW k \in (0 + 1)..m PROVE Goes(b[k - 1], items[k], b[k])
    <3>1. n + k \in (s + 1)..(n + m) /\ k - 1 \in 0..m /\ k \in 0..m /\ k \in 1..m
          /\ n + (k - 1) = (n + k) - 1
      OBVIOUS
    <3>2. b[k - 1] = w[(n + k) - 1] /\ b[k] = w[n + k] /\ Goes(w[(n + k) - 1], r[n + k], w[n + k])
          /\ SameDuty(r[n + k], items[k])
      BY <1>1, <3>1
    <3> QED
      BY <3>2 DEF Goes, SameDuty
  <2> QED
    BY <2>1, <2>2 DEF Walks
<1> QED
  BY <1>2, <1>3, <1>4 DEF Leads

LEMMA LeadsNone ==
  ASSUME NEW q, Len(q) = 0, NEW A, NEW V
  PROVE  (Leads(A, q, 0, V) => A = V) /\ (A \in IdSet => Leads(A, q, 0, A))
<1>1. Leads(A, q, 0, V) => A = V
  BY DEF Leads, Walks
<1>2. ASSUME A \in IdSet PROVE Leads(A, q, 0, A)
  <2> PICK w : w = [k \in 0..0 |-> A]
    OBVIOUS
  <2>1. w \in [0..Len(q) -> IdSet] /\ w[0] = A /\ w[Len(q)] = A
    BY <1>2
  <2>2. Walks(w, A, q, 0, A)
    BY <2>1 DEF Walks
  <2> QED
    BY <2>2 DEF Leads
<1> QED
  BY <1>1, <1>2

LEMMA LeadsOne ==
  ASSUME NEW A, NEW V, NEW q, Len(q) = 1, Leads(A, q, 0, V)
  PROVE  Goes(A, q[1], V)
<1> PICK w : Walks(w, A, q, 0, V)
  BY DEF Leads
<1>1. w[0] = A /\ w[1] = V /\ \A k \in (0 + 1)..1 : Goes(w[k - 1], q[k], w[k])
  BY DEF Walks
<1>2. 1 \in (0 + 1)..1 /\ 1 - 1 = 0
  OBVIOUS
<1> QED
  BY <1>1, <1>2

LEMMA LeadsLast ==
  ASSUME NEW A, NEW V, NEW S, NEW q \in Seq(S), NEW x \in S, Leads(A, Append(q, x), 0, V)
  PROVE  \E W \in IdSet : Leads(A, q, 0, W) /\ Goes(W, x, V)
<1> PICK r : r = Append(q, x)
  OBVIOUS
<1> PICK items : items = <<x>>
  OBVIOUS
<1>1. /\ Len(q) \in Nat /\ Len(items) = 1 /\ Len(items) \in Nat /\ Len(r) = Len(q) + Len(items) /\ items[1] = x
      /\ 0 \in 0..Len(q)
      /\ \A i \in 1..Len(q) : r[i] = q[i]
      /\ \A i \in 1..Len(items) : r[Len(q) + i] = items[i]
  OBVIOUS
<1>2. \E W \in IdSet : Leads(A, q, 0, W) /\ Leads(W, items, 0, V)
  BY <1>1, LeadsParts DEF SameDuty
<1> QED
  BY <1>1, <1>2, LeadsOne

LEMMA LeadsTail ==
  ASSUME NEW A, NEW V, NEW S, NEW q \in Seq(S), q # <<>>, Leads(A, Tail(q), 0, V)
  PROVE  Leads(A, q, 1, V)
<1> PICK r : r = Tail(q)
  OBVIOUS
<1> PICK n : n = Len(q)
  OBVIOUS
<1>1. n \in Nat /\ n >= 1 /\ Len(r) = n - 1 /\ \A i \in 1..(n - 1) : r[i] = q[i + 1]
  BY TailSeq
<1> PICK w : Walks(w, A, r, 0, V)
  BY DEF Leads
<1>2. /\ w \in [0..(n - 1) -> IdSet] /\ w[0] = A /\ w[n - 1] = V
      /\ \A k \in (0 + 1)..(n - 1) : Goes(w[k - 1], r[k], w[k])
  BY <1>1 DEF Walks
<1> PICK u : u = [k \in 1..n |-> w[k - 1]]
  OBVIOUS
<1>3. u \in [1..n -> IdSet] /\ u[1] = A /\ u[n] = V
  BY <1>1, <1>2
<1>4. ASSUME NEW k \in (1 + 1)..n PROVE Goes(u[k - 1], q[k], u[k])
  <2>1. k - 1 \in (0 + 1)..(n - 1) /\ k - 1 \in 1..(n - 1) /\ k - 1 \in 1..n /\ k \in 1..n /\ (k - 1) + 1 = k
    BY <1>1
  <2>2. u[k - 1] = w[(k - 1) - 1] /\ u[k] = w[k - 1] /\ r[k - 1] = q[k]
    BY <1>1, <2>1
  <2> QED
    BY <1>2, <2>1, <2>2
<1>5. Walks(u, A, q, 1, V)
  BY <1>3, <1>4 DEF Walks
<1> QED
  BY <1>5 DEF Leads

LEMMA LeadsHead ==
  ASSUME NEW A, NEW V, NEW q, Len(q) \in Nat \ {0}, NEW B \in IdSet, Leads(A, q, 1, V), Goes(B, q[1], A)
  PROVE  Leads(B, q, 0, V)
<1> PICK n : n = Len(q)
  OBVIOUS
<1> PICK w : Walks(w, A, q, 1, V)
  BY DEF Leads
<1>2. /\ w \in [1..n -> IdSet] /\ w[1] = A /\ w[n] = V
      /\ \A k \in (1 + 1)..n : Goes(w[k - 1], q[k], w[k])
  BY DEF Walks
<1> PICK u : u = [k \in 0..n |-> IF k = 0 THEN B ELSE w[k]]
  OBVIOUS
<1>3. u \in [0..n -> IdSet] /\ u[0] = B /\ u[n] = V /\ \A k \in 1..n : u[k] = w[k]
  BY <1>2
<1>4. ASSUME NEW k \in (0 + 1)..n PROVE Goes(u[k - 1], q[k], u[k])
  <2>1. CASE k = 1
    BY <1>2, <1>3, <2>1
  <2>2. CASE k # 1
    <3>1. k \in (1 + 1)..n /\ k - 1 \in 1..n /\ k \in 1..n
      BY <2>2
    <3> QED
      BY <1>2, <1>3, <3>1
  <2> QED
    BY <2>1, <2>2
<1>5. Walks(u, B, q, 0, V)
  BY <1>3, <1>4 DEF Walks
<1> QED
  BY <1>5 DEF Leads

LEMMA LeadsSame ==
  ASSUME NEW A, NEW V, NEW q, NEW r, Len(q) \in Nat, Len(r) = Len(q), NEW s \in Nat,
         \A i \in 1..Len(q) : SameDuty(r[i], q[i]), Leads(A, r, s, V)
  PROVE  Leads(A, q, s, V)
<1> PICK w : Walks(w, A, r, s, V)
  BY DEF Leads
<1>1. ASSUME NEW k \in (s + 1)..Len(q) PROVE Goes(w[k - 1], q[k], w[k])
  <2>1. k \in 1..Len(q)
    OBVIOUS
  <2>2. Goes(w[k - 1], r[k], w[k]) /\ SameDuty(r[k], q[k])
    BY <2>1 DEF Walks
  <2> QED
    BY <2>2 DEF Goes, SameDuty
<1>2. Walks(w, A, q, s, V)
  BY <1>1 DEF Walks
<1> QED
  BY <1>2 DEF Leads

-----------------------------------------------------------------------------
(* What a gesture does to the history. *)

History == {b \in Changes : HistBatch(b)}
SentItem == {m \in Emitted : SentBatch(m.changes)}
StacksOK(e) == e.undo \in Seq(History) /\ e.redo \in Seq(History) /\ e.outbound \in Seq(SentItem)

\* Both stacks can be replayed from these ids.
Held(e, V) == Replayable(e.undo, V) /\ Replayable(e.redo, V)

\* An editor at the start of a frame, and those whose stacks can be replayed
\* where what was emitted leads, if its could be where it stands.
Working(d) ==
  EditorOK(d) /\ PlainList(d.cells) /\ ~d.readOnly /\ d.outbound = <<>> /\ StacksOK(d)
Carries(d, e) ==
  \A U \in IdSet, V \in IdSet : Held(d, U) /\ Leads(U, e.outbound, 0, V) => Held(e, V)
Carried(d) == {e \in Frames(d) : StacksOK(e) /\ Carries(d, e)}

LEMMA StartCarried ==
  ASSUME NEW d, Working(d)
  PROVE  d \in Carried(d)
<1>1. d \in Frames(d) /\ StacksOK(d)
  BY DEF Working, EditorOK
<1>2. Carries(d, d)
  <2> SUFFICES ASSUME NEW U \in IdSet, NEW V \in IdSet, Held(d, U), Leads(U, d.outbound, 0, V)
               PROVE  Held(d, V)
    BY DEF Carries
  <2> PICK q : q = d.outbound
    OBVIOUS
  <2>1. Len(q) = 0
    BY DEF Working
  <2>2. U = V
    BY <2>1, LeadsNone
  <2> QED
    BY <2>2
<1> QED
  BY <1>1, <1>2 DEF Carried

\* Only the stacks and what was emitted matter.
LEMMA SameStacks ==
  ASSUME NEW d, NEW e \in Carried(d), NEW f \in Frames(d),
         f.undo = e.undo, f.redo = e.redo, f.outbound = e.outbound
  PROVE  f \in Carried(d)
<1>1. StacksOK(e) /\ Carries(d, e)
  BY DEF Carried
<1>2. StacksOK(f)
  BY <1>1 DEF StacksOK
<1>3. \A V : Held(f, V) <=> Held(e, V)
  BY DEF Held
<1>4. Carries(d, f)
  BY <1>1, <1>3 DEF Carries
<1> QED
  BY <1>2, <1>4 DEF Carried

\* What emit does.
Pushed(st, x) == Append(st, x)

LEMMA Emission ==
  ASSUME NEW d, Working(d), NEW e \in Frames(d), NEW kept \in BOOLEAN, NEW kind \in UserKind,
         NEW changes \in Changes, NEW cell \in CellId \cup {NoCell},
         NEW f, f = EmitAs(e, kept, kind, changes, cell)
  PROVE  /\ f \in Frames(d)
         /\ kept /\ kind = "modify" /\ Inverted(d.cells, changes).ok =>
              f.undo = Pushed(e.undo, Inverted(d.cells, changes).changes) /\ f.redo = <<>>
         /\ ~(kept /\ kind = "modify" /\ Inverted(d.cells, changes).ok) =>
              f.undo = e.undo /\ f.redo = e.redo
         /\ \E cmd \in Emitted : /\ cmd.kind = kind /\ cmd.changes = Anchored(d.cells, changes)
                                 /\ f.outbound = Pushed(e.outbound, cmd)
<1> PICK inverse : inverse = Inverted(e.cells, changes)
  OBVIOUS
<1> PICK sent : sent = Anchored(e.cells, changes)
  OBVIOUS
<1> DEFINE recorded == kept /\ kind = "modify" /\ inverse.ok
           cmd == [by |-> "user", kind |-> kind, changes |-> sent,
                   cell |-> cell, expected |-> e.rev, n |-> 0]
           undo == IF recorded THEN Pushed(e.undo, inverse.changes) ELSE e.undo
           redo == IF recorded THEN <<>> ELSE e.redo
           outbound == Pushed(e.outbound, cmd)
<1>1. EditorOK(d) /\ d.cells \in Cells /\ d.rev \in Nat /\ ~d.readOnly
  BY DEF Working, EditorOK
<1>2. e.cells = d.cells /\ e.rev = d.rev /\ ~e.readOnly
  BY <1>1, FramesOf
<1>3. EmitAs(e, kept, kind, changes, cell) \in Frames(d)
  BY <1>1, EmitTyped
<1>4. sent \in Changes
  BY <1>1, <1>2, AnchoredTyped
<1>5. cmd \in Emitted /\ cmd.kind = kind /\ cmd.changes = sent
  BY <1>1, <1>2, <1>4 DEF Emitted
<1>6. EmitAs(e, kept, kind, changes, cell) = [e EXCEPT !.undo = undo, !.redo = redo, !.outbound = outbound]
  BY <1>2 DEF EmitAs, Pushed
<1> PICK u : u = undo
  OBVIOUS
<1> PICK r : r = redo
  OBVIOUS
<1> PICK o : o = outbound
  OBVIOUS
<1>7. EmitAs(e, kept, kind, changes, cell) = [e EXCEPT !.undo = u, !.redo = r, !.outbound = o]
  BY <1>6
<1> HIDE DEF undo, redo, outbound, cmd
<1>8. f.undo = u /\ f.redo = r /\ f.outbound = o
  BY ONLY <1>7, f = EmitAs(e, kept, kind, changes, cell), e \in Frames(d) DEF Frames
<1>9. f.undo = undo /\ f.redo = redo /\ f.outbound = Pushed(e.outbound, cmd)
  BY <1>8 DEF outbound
<1>10. inverse = Inverted(d.cells, changes) /\ sent = Anchored(d.cells, changes)
  BY <1>2
<1>11. \E m \in Emitted : /\ m.kind = kind /\ m.changes = Anchored(d.cells, changes)
                          /\ f.outbound = Pushed(e.outbound, m)
  BY <1>5, <1>9, <1>10
<1>12. recorded => f.undo = Pushed(e.undo, inverse.changes) /\ f.redo = <<>>
  BY <1>9 DEF undo, redo
<1>13. ~recorded => f.undo = e.undo /\ f.redo = e.redo
  BY <1>9 DEF undo, redo
<1> QED
  BY <1>3, <1>10, <1>11, <1>12, <1>13

\* A modification: its inverse is on top, or it brings and takes no cells.
LEMMA EmitCarried ==
  ASSUME NEW d, Working(d), NEW e \in Carried(d), NEW b \in Changes, EmitBatch(b),
         Inverted(d.cells, b).ok => HistBatch(b),
         ~Inverted(d.cells, b).ok => Brings(b) = {} /\ Takes(b) = {}
  PROVE  Modify(e, b) \in Carried(d)
<1> PICK f : f = Modify(e, b)
  OBVIOUS
<1> PICK inv : inv = Inverted(d.cells, b).changes
  OBVIOUS
<1> PICK ok : ok = Inverted(d.cells, b).ok
  OBVIOUS
<1> PICK sent : sent = Anchored(d.cells, b)
  OBVIOUS
<1>0. /\ e \in Frames(d) /\ StacksOK(e) /\ Carries(d, e) /\ PlainList(d.cells)
      /\ TRUE \in BOOLEAN /\ "modify" \in UserKind /\ NoCell \in CellId \cup {NoCell}
  BY DEF Carried, Working, UserKind
<1>1. /\ f \in Frames(d)
      /\ ok => f.undo = Pushed(e.undo, inv) /\ f.redo = <<>>
      /\ ~ok => f.undo = e.undo /\ f.redo = e.redo
      /\ \E m \in Emitted : m.kind = "modify" /\ m.changes = sent /\ f.outbound = Pushed(e.outbound, m)
  <2> PICK yes \in BOOLEAN : yes = TRUE
    OBVIOUS
  <2> PICK kind : kind = "modify"
    OBVIOUS
  <2> PICK none : none = NoCell
    OBVIOUS
  <2>1. f = EmitAs(e, yes, kind, b, none) /\ kind \in UserKind /\ none \in CellId \cup {NoCell}
    BY DEF Modify, UserKind
  <2>2. /\ f \in Frames(d)
        /\ yes /\ kind = "modify" /\ Inverted(d.cells, b).ok =>
              f.undo = Pushed(e.undo, Inverted(d.cells, b).changes) /\ f.redo = <<>>
        /\ ~(yes /\ kind = "modify" /\ Inverted(d.cells, b).ok) =>
              f.undo = e.undo /\ f.redo = e.redo
        /\ \E cmd \in Emitted : /\ cmd.kind = kind /\ cmd.changes = Anchored(d.cells, b)
                                 /\ f.outbound = Pushed(e.outbound, cmd)
    BY ONLY <1>0, <2>1, Emission, Working(d), b \in Changes, yes \in BOOLEAN
  <2> QED
    BY ONLY <2>2, yes = TRUE, kind = "modify", ok = Inverted(d.cells, b).ok, sent = Anchored(d.cells, b),
            inv = Inverted(d.cells, b).changes
<1>2. SentBatch(sent) /\ \A D : CanApply(D, sent) => CanApply(D, b) /\ IdsLeft(D, sent) = IdsLeft(D, b)
  BY <1>0, SentIds
<1>3. ok => HistBatch(inv) /\ GoesBack(b, inv)
  BY <1>0, Returns
<1>4. PICK m \in Emitted : m.kind = "modify" /\ m.changes = sent /\ f.outbound = Append(e.outbound, m)
  BY <1>1 DEF Pushed
<1>5. StacksOK(f)
  <2>1. m \in SentItem
    BY <1>2, <1>4 DEF SentItem
  <2>2. ok => inv \in History
    BY <1>3 DEF History, HistBatch
  <2>3. f.undo \in Seq(History) /\ f.redo \in Seq(History)
    <3>1. e.undo \in Seq(History) /\ e.redo \in Seq(History)
      BY <1>0 DEF StacksOK
    <3>2. CASE ok
      <4> PICK u \in Seq(History) : u = e.undo
        BY <3>1
      <4>1. inv \in History
        BY <2>2, <3>2
      <4>2. Append(u, inv) \in Seq(History) /\ <<>> \in Seq(History)
        BY ONLY <4>1, u \in Seq(History)
      <4> QED
        BY <1>1, <3>2, <4>2 DEF Pushed
    <3>3. CASE ~ok
      BY <1>1, <3>1, <3>3
    <3> QED
      BY <3>2, <3>3
  <2>4. f.outbound \in Seq(SentItem)
    BY <1>0, <1>4, <2>1 DEF StacksOK
  <2> QED
    BY <2>3, <2>4 DEF StacksOK
<1>6. Carries(d, f)
  <2> SUFFICES ASSUME NEW U \in IdSet, NEW V \in IdSet, Held(d, U), Leads(U, f.outbound, 0, V)
               PROVE  Held(f, V)
    BY DEF Carries
  <2>1. e.outbound \in Seq(SentItem) /\ m \in SentItem
    BY <1>0, <1>2, <1>4 DEF StacksOK, SentItem
  <2>2. PICK W \in IdSet : Leads(U, e.outbound, 0, W) /\ Goes(W, m, V)
    BY <1>4, <2>1, LeadsLast
  <2>3. Held(e, W)
    BY <1>0, <2>2 DEF Carries
  <2>4. CanApply(W, b) /\ V = IdsLeft(W, b)
    BY <1>2, <1>4, <2>2 DEF Goes
  <2>5. CASE ok
    <3>1. CanApply(V, inv) /\ IdsLeft(V, inv) = W
      BY <1>3, <2>4, <2>5 DEF GoesBack
    <3>2. e.undo \in Seq(Changes) /\ inv \in Changes
      BY <1>0, <1>3, <2>5, FramesOf DEF HistBatch
    <3>3. Replayable(e.undo, W)
      BY <2>3 DEF Held
    <3>4. Replayable(Append(e.undo, inv), V)
      BY <3>1, <3>2, <3>3, ReplaysPushed
    <3>5. Replayable(<<>>, V)
      BY ReplaysNone
    <3> QED
      BY <1>1, <2>5, <3>4, <3>5 DEF Held, Pushed
  <2>6. CASE ~ok
    <3>1. V = W
      BY <2>4, <2>6 DEF IdsLeft
    <3> QED
      BY <1>1, <2>3, <2>6, <3>1 DEF Held
  <2> QED
    BY <2>5, <2>6
<1> QED
  BY <1>1, <1>5, <1>6 DEF Carried

LEMMA ChangeCarried ==
  ASSUME NEW d, Working(d), NEW e \in Carried(d), NEW ch, Recorded(ch), Named(ch) \subseteq Ids(d.cells)
  PROVE  Modify(e, <<ch>>) \in Carried(d)
<1> PICK b : b = <<ch>>
  OBVIOUS
<1>1. ch \in Change /\ ch.op \in Invertible /\ ch.op \in EditorOps
  BY DEF Recorded, Invertible, EditorOps
<1>2. b \in Changes /\ Len(b) = 1 /\ b[1] = ch /\ 1..Len(b) = {1}
  BY <1>1 DEF Changes
<1>3. HistBatch(b) /\ EmitBatch(b)
  BY <1>1, <1>2 DEF HistBatch, EmitBatch
<1>4. d.cells \in Cells
  BY DEF Working, EditorOK
<1>5. Inverted(d.cells, b).ok
  BY <1>1, <1>2, <1>4, InvertedSingle
<1> QED
  BY <1>2, <1>3, <1>5, EmitCarried

\* Any other command leaves the stacks alone.
LEMMA CommandCarried ==
  ASSUME NEW d, Working(d), NEW e \in Carried(d), NEW kind \in UserKind \ {"modify"},
         NEW cell \in CellId \cup {NoCell}
  PROVE  Command(e, kind, cell) \in Carried(d)
<1> PICK f : f = Command(e, kind, cell)
  OBVIOUS
<1> PICK b : b = <<>>
  OBVIOUS
<1> PICK sent : sent = Anchored(d.cells, b)
  OBVIOUS
<1>0. /\ e \in Frames(d) /\ StacksOK(e) /\ Carries(d, e) /\ PlainList(d.cells)
      /\ TRUE \in BOOLEAN /\ kind \in UserKind /\ kind # "modify" /\ b \in Changes
  BY DEF Carried, Working, Changes
<1>1. /\ f \in Frames(d) /\ f.undo = e.undo /\ f.redo = e.redo
      /\ \E m \in Emitted : m.kind = kind /\ m.changes = sent /\ f.outbound = Pushed(e.outbound, m)
  <2> PICK yes \in BOOLEAN : yes = TRUE
    OBVIOUS
  <2>1. f = EmitAs(e, yes, kind, b, cell)
    BY DEF Command
  <2>2. /\ f \in Frames(d)
        /\ ~(yes /\ kind = "modify" /\ Inverted(d.cells, b).ok) =>
              f.undo = e.undo /\ f.redo = e.redo
        /\ \E cmd \in Emitted : /\ cmd.kind = kind /\ cmd.changes = Anchored(d.cells, b)
                                 /\ f.outbound = Pushed(e.outbound, cmd)
    BY ONLY <1>0, <2>1, Emission, Working(d), yes \in BOOLEAN, cell \in CellId \cup {NoCell}
  <2> QED
    BY ONLY <1>0, <2>2, sent = Anchored(d.cells, b)
<1>2. SentBatch(sent)
  <2>1. EmitBatch(b)
    BY <1>0 DEF EmitBatch
  <2> QED
    BY <1>0, <2>1, SentIds
<1>4. PICK m \in Emitted : m.kind = kind /\ m.changes = sent /\ f.outbound = Append(e.outbound, m)
  BY <1>1 DEF Pushed
<1>5. m \in SentItem /\ e.outbound \in Seq(SentItem)
  BY <1>0, <1>2, <1>4 DEF SentItem, StacksOK
<1>6. StacksOK(f)
  BY <1>0, <1>1, <1>4, <1>5 DEF StacksOK
<1>7. Carries(d, f)
  <2> SUFFICES ASSUME NEW U \in IdSet, NEW V \in IdSet, Held(d, U), Leads(U, f.outbound, 0, V)
               PROVE  Held(f, V)
    BY DEF Carries
  <2>1. PICK W \in IdSet : Leads(U, e.outbound, 0, W) /\ Goes(W, m, V)
    BY <1>4, <1>5, LeadsLast
  <2>2. V = W
    BY <1>0, <1>4, <2>1 DEF Goes
  <2> QED
    BY <1>0, <1>1, <2>1, <2>2 DEF Carries, Held
<1> QED
  BY <1>1, <1>6, <1>7 DEF Carried

LEMMA FlushCarried ==
  ASSUME NEW d, Working(d), NEW e \in Carried(d), NEW id \in Ids(d.cells)
  PROVE  Flush(e, id) \in Carried(d)
<1>0. EditorOK(d) /\ e \in Frames(d)
  BY DEF Working, Carried
<1>1. CASE id \notin e.dirty
  BY <1>1 DEF Flush
<1>2. CASE id \in e.dirty
  <2> DEFINE f == [e EXCEPT !.dirty = e.dirty \ {id}]
             ch == UpdateChange(id, e.editors[id], CellOf(e.cells, id).kind, Keep)
  <2>1. f \in Frames(d) /\ f.undo = e.undo /\ f.redo = e.redo /\ f.outbound = e.outbound
    BY <1>0 DEF Frames
  <2>2. ch \in Change
    BY <1>0, Shown, CellChanged
  <2>3. Recorded(ch) /\ Named(ch) \subseteq Ids(d.cells)
    BY <2>2 DEF Recorded, UpdateChange, Named
  <2>4. Flush(e, id) = Modify(f, <<ch>>)
    BY <1>2 DEF Flush
  <2> HIDE DEF f, ch
  <2>5. f \in Carried(d)
    BY <2>1, SameStacks
  <2> QED
    BY <2>3, <2>4, <2>5, ChangeCarried
<1> QED
  BY <1>1, <1>2

LEMMA SaveCarried ==
  ASSUME NEW d, Working(d)
  PROVE  SaveEdits(d) \in Carried(d)
<1> DEFINE n == Len(d.cells)
           V == Carried(d)
           cells == d.cells
<1>1. n \in Nat /\ DOMAIN cells = 1..n /\ cells = d.cells /\ d \in V
  BY StartCarried DEF Working, EditorOK, Cells
<1>2. \A k \in 1..n : cells[k].id \in Ids(d.cells)
  BY <1>1 DEF Ids
<1> HIDE DEF cells, n
<1>3. \A k \in 1..n : \A r \in V : Flush(r, cells[k].id) \in V
  BY <1>2, FlushCarried
<1> HIDE DEF V
<1>4. n \in Nat /\ DOMAIN cells = 1..n /\ d \in V /\ cells = d.cells
  BY <1>1
<1>5. SavingChain(d, cells, n, V)
  BY <1>3, <1>4, SavedChain
<1>6. PICK chain \in [0..n -> V] :
        /\ chain[0] = d /\ chain[n] = Flushed(d, cells)
        /\ \A k \in 1..n : chain[k] = Flush(chain[k - 1], cells[k].id)
  BY <1>5 DEF SavingChain
<1>7. Flushed(d, cells) = SaveEdits(d)
  BY <1>4 DEF Flushed, SaveEdits
<1> QED
  BY <1>1, <1>6, <1>7 DEF V

\* The changes a gesture makes of a cell that is shown.
LEMMA RecordedChange ==
  ASSUME NEW c, NEW id \in CellId, id \in Ids(c)
  PROVE  /\ \A s \in Source \cup {Keep}, k \in Kind \cup {Keep} :
              LET ch == UpdateChange(id, s, k, Keep) IN Recorded(ch) /\ Named(ch) \subseteq Ids(c)
         /\ Recorded(DeleteChange(id)) /\ Named(DeleteChange(id)) \subseteq Ids(c)
         /\ \A i \in Nat : LET ch == MoveChange(id, i) IN Recorded(ch) /\ Named(ch) \subseteq Ids(c)
         /\ \A i \in Nat, x \in Cell : x.refs = {} =>
              LET ch == InsertChange(i, x) IN Recorded(ch) /\ Named(ch) \subseteq Ids(c)
<1>1. ASSUME NEW s \in Source \cup {Keep}, NEW k \in Kind \cup {Keep}
      PROVE  LET ch == UpdateChange(id, s, k, Keep) IN Recorded(ch) /\ Named(ch) \subseteq Ids(c)
  <2>1. UpdateChange(id, s, k, Keep) \in Change
    BY CellChanged
  <2> QED
    BY <2>1 DEF Recorded, UpdateChange, Named
<1>2. Recorded(DeleteChange(id)) /\ Named(DeleteChange(id)) \subseteq Ids(c)
  <2>1. DeleteChange(id) \in Change
    BY CellChanged
  <2> QED
    BY <2>1 DEF Recorded, DeleteChange, Named
<1>3. ASSUME NEW i \in Nat
      PROVE  LET ch == MoveChange(id, i) IN Recorded(ch) /\ Named(ch) \subseteq Ids(c)
  <2>1. MoveChange(id, i) \in Change
    BY CellChanged
  <2> QED
    BY <2>1 DEF Recorded, MoveChange, Named
<1>4. ASSUME NEW i \in Nat, NEW x \in Cell, x.refs = {}
      PROVE  LET ch == InsertChange(i, x) IN Recorded(ch) /\ Named(ch) \subseteq Ids(c)
  <2>1. InsertChange(i, x) \in Change
    BY CellChanged
  <2> QED
    BY <1>4, <2>1 DEF Recorded, InsertChange, Named
<1> QED
  BY <1>1, <1>2, <1>3, <1>4

LEMMA GestureCarried ==
  ASSUME NEW d, Working(d), NEW id \in Ids(d.cells)
  PROVE  /\ \A i \in Nat : MoveCell(d, id, i) \in Carried(d)
         /\ \A c \in Cell : c.refs = {} => InsertBelow(d, id, c) \in Carried(d)
         /\ \A new \in CellId : /\ Duplicate(d, id, new) \in Carried(d)
                                /\ Paste(d, id, CellOf(d.cells, id), new) \in Carried(d)
         /\ DeleteCell(d, id) \in Carried(d)
         /\ \A k \in Kind : SetKind(d, id, k) \in Carried(d)
         /\ Run(d, id) \in Carried(d)
<1> PICK f : f = Flush(d, id)
  OBVIOUS
<1>1. d \in Carried(d) /\ f \in Carried(d) /\ d \in Frames(d) /\ f \in Frames(d) /\ EditorOK(d)
  BY StartCarried, FlushCarried DEF Working, Carried
<1>2. id \in CellId /\ d.editors[id] \in Source /\ CellOf(d.cells, id) \in Cell
        /\ CellOf(d.cells, id).kind \in Kind /\ IndexOf(d, id) \in Nat
  BY <1>1, Shown
<1>20. CellOf(d.cells, id).refs = {}
  <2>1. PlainList(d.cells) /\ d.cells \in Seq(Cell)
    BY PlainTyped DEF Working
  <2>2. PositionOf(d.cells, id) \in 1..Len(d.cells)
    BY <2>1, PositionFound
  <2> QED
    BY <2>1, <2>2, PlainTyped DEF CellOf
<1>3. ASSUME NEW i \in Nat PROVE MoveCell(d, id, i) \in Carried(d)
  <2>1. Recorded(MoveChange(id, i)) /\ Named(MoveChange(id, i)) \subseteq Ids(d.cells)
    BY <1>2, RecordedChange
  <2>2. Modify(f, <<MoveChange(id, i)>>) \in Carried(d)
    BY <1>1, <2>1, ChangeCarried
  <2> QED
    BY <1>1, <2>2 DEF MoveCell
<1>4. ASSUME NEW c \in Cell, c.refs = {} PROVE InsertBelow(d, id, c) \in Carried(d)
  <2> PICK ch : ch = InsertChange(IndexOf(d, id) + 1, c)
    OBVIOUS
  <2>1. Recorded(ch) /\ Named(ch) \subseteq Ids(d.cells)
    <3>1. IndexOf(d, id) + 1 \in Nat
      BY <1>2
    <3> QED
      BY <1>2, <1>4, <3>1, RecordedChange
  <2>2. Modify(f, <<ch>>) \in Carried(d)
    BY <1>1, <2>1, ChangeCarried
  <2> QED
    BY <2>2 DEF InsertBelow, InsertCell
<1>5. ASSUME NEW new \in CellId PROVE Duplicate(d, id, new) \in Carried(d)
  <2> PICK x : x = [id |-> new, src |-> d.editors[id], kind |-> CellOf(d.cells, id).kind,
                    refs |-> {}, out |-> NoOutput]
    OBVIOUS
  <2>1. x \in Cell /\ x.refs = {}
    BY <1>2 DEF Cell, NoOutput
  <2>2. Duplicate(d, id, new) = InsertBelow(d, id, x)
    BY DEF Duplicate
  <2> QED
    BY <1>4, <2>1, <2>2
<1>6. ASSUME NEW new \in CellId PROVE Paste(d, id, CellOf(d.cells, id), new) \in Carried(d)
  <2> DEFINE c == [CellOf(d.cells, id) EXCEPT !.id = new, !.out = NoOutput]
  <2>1. c \in Cell /\ c.refs = {}
    BY <1>2, <1>20 DEF Cell, NoOutput
  <2> PICK ch : ch = InsertChange(IndexOf(d, id) + 1, c)
    OBVIOUS
  <2>2. Paste(d, id, CellOf(d.cells, id), new) = Modify(d, <<ch>>)
    BY DEF Paste, InsertCell
  <2> HIDE DEF c
  <2>3. Recorded(ch) /\ Named(ch) \subseteq Ids(d.cells)
    <3>1. IndexOf(d, id) + 1 \in Nat
      BY <1>2
    <3> QED
      BY <1>2, <2>1, <3>1, RecordedChange
  <2> QED
    BY <1>1, <2>2, <2>3, ChangeCarried
<1>7. DeleteCell(d, id) \in Carried(d)
  <2>1. Recorded(DeleteChange(id)) /\ Named(DeleteChange(id)) \subseteq Ids(d.cells)
    BY <1>2, RecordedChange
  <2>2. Modify(f, <<DeleteChange(id)>>) \in Carried(d)
    BY <1>1, <2>1, ChangeCarried
  <2> QED
    BY <2>2 DEF DeleteCell
<1>8. ASSUME NEW k \in Kind PROVE SetKind(d, id, k) \in Carried(d)
  <2> PICK ch : ch = UpdateChange(id, d.editors[id], k, Keep)
    OBVIOUS
  <2>1. Recorded(ch) /\ Named(ch) \subseteq Ids(d.cells)
    BY <1>2, RecordedChange
  <2>2. Modify(f, <<ch>>) \in Carried(d)
    BY <1>1, <2>1, ChangeCarried
  <2> QED
    BY <1>1, <2>2 DEF SetKind
<1>9. Run(d, id) \in Carried(d)
  <2>1. "execute" \in UserKind \ {"modify"} /\ id \in CellId \cup {NoCell}
    BY <1>2 DEF UserKind
  <2>2. Command(f, "execute", id) \in Carried(d)
    BY <1>1, <2>1, CommandCarried
  <2> QED
    BY <1>1, <2>2 DEF Run
<1> QED
  BY <1>3, <1>4, <1>5, <1>6, <1>7, <1>8, <1>9

\* Outputs are cleared without a trace in the history.
LEMMA ClearCarried ==
  ASSUME NEW d, Working(d)
  PROVE  ClearAll(d) \in Carried(d)
<1> DEFINE code == Only(d.cells, {c \in ToSet(d.cells) : c.kind = Code})
           b == [i \in DOMAIN code |-> ClearChange(code[i].id)]
           n == Len(code)
<1>1. code \in Cells /\ d \in Carried(d)
  BY OnlySeq, StartCarried DEF Working, EditorOK, Cells
<1>2. ClearAll(d) = IF code = <<>> THEN d ELSE Modify(d, b)
  BY DEF ClearAll
<1> HIDE DEF code
<1>3. n \in Nat /\ DOMAIN code = 1..n /\ \A i \in 1..n : code[i] \in Cell
  BY <1>1 DEF Cells
<1>4. \A i \in 1..n : ClearChange(code[i].id) \in Change /\ ClearChange(code[i].id).op = "clearOutputs"
  <2>1. \A i \in 1..n : ClearChange(code[i].id) \in Change
    BY <1>3, CellChanged DEF Cell
  <2> QED
    BY <2>1 DEF ClearChange
<1>5. DOMAIN b = 1..n /\ b = [i \in 1..n |-> b[i]]
      /\ \A i \in 1..n : b[i] \in Change /\ b[i].op = "clearOutputs"
  BY <1>3, <1>4
<1> SUFFICES ASSUME code # <<>> PROVE Modify(d, b) \in Carried(d)
  BY <1>1, <1>2
<1>50. n # 0
  BY <1>1 DEF Cells
<1> PICK m \in Nat : m = n
  BY <1>3
<1>51. m # 0
  BY <1>50
<1> HIDE DEF b, n
<1>6. b \in Changes /\ Len(b) = m
  <2>1. b \in Changes
    BY <1>3, <1>5, ChangeEach
  <2> QED
    BY <1>5, <2>1 DEF Changes
<1>7. EmitBatch(b)
  BY <1>5, <1>6 DEF EmitBatch, EditorOps, InPlaceOps
<1>8. Brings(b) = {} /\ Takes(b) = {}
  BY <1>5, <1>6, InPlaceIds DEF InPlaceOps
<1>9. ~Inverted(d.cells, b).ok
  <2>1. d.cells \in Cells
    BY DEF Working, EditorOK
  <2> PICK chain \in Undoings(m) : IsUndo(chain, d.cells, b, m)
    BY <1>6, <2>1, UndoRun
  <2>2. Inverted(d.cells, b).ok = chain[m].ok
    BY DEF IsUndo
  <2> PICK k : k = m - 1
    OBVIOUS
  <2>3. k \in 0..(m - 1) /\ k + 1 = m /\ k + 1 \in 1..m
    BY <1>51
  <2>4. chain[k + 1].ok <=>
          chain[k].ok /\ b[k + 1].op \in Invertible /\ Named(b[k + 1]) \subseteq Ids(chain[k].cells)
    <3>1. chain \in Undoings(Len(b)) /\ IsUndo(chain, d.cells, b, Len(b)) /\ Len(b) \in Nat
          /\ k \in 0..(Len(b) - 1)
      BY <1>6, <2>3
    <3> QED
      BY ONLY <3>1, UndoStep
  <2>5. b[k + 1].op \notin Invertible
    BY <1>5, <2>3 DEF Invertible
  <2> QED
    BY <2>2, <2>3, <2>4, <2>5
<1> QED
  BY <1>1, <1>6, <1>7, <1>8, <1>9, EmitCarried

LEMMA ReplaceCarried ==
  ASSUME NEW d, Working(d), NEW old \in Source, NEW new \in Source
  PROVE  ReplaceText(d, old, new) \in Carried(d)
<1> DEFINE hit == Only(d.cells, {c \in ToSet(d.cells) : d.editors[c.id] = old})
           shown == [d EXCEPT !.editors = [id \in DOMAIN d.editors |->
                                             IF d.editors[id] = old THEN new ELSE d.editors[id]]]
           b == [i \in DOMAIN hit |-> UpdateChange(hit[i].id, new, Keep, Keep)]
           n == Len(hit)
<1>0. EditorOK(d) /\ d \in Frames(d) /\ d \in Carried(d)
  BY StartCarried DEF Working, EditorOK
<1>1. hit \in Cells
  BY OnlySeq DEF Working, EditorOK, Cells
<1>2. ReplaceText(d, old, new) = IF hit = <<>> THEN d ELSE Modify(shown, b)
  BY DEF ReplaceText
<1> HIDE DEF hit
<1>3. n \in Nat /\ DOMAIN hit = 1..n /\ \A i \in 1..n : hit[i] \in Cell
  BY <1>1 DEF Cells
<1>4. \A i \in 1..n : LET ch == UpdateChange(hit[i].id, new, Keep, Keep)
                      IN ch \in Change /\ ch.op = "update" /\ ch.refs = Keep
  <2>1. \A i \in 1..n : UpdateChange(hit[i].id, new, Keep, Keep) \in Change
    BY <1>3, CellChanged DEF Cell
  <2> QED
    BY <2>1 DEF UpdateChange
<1>5. DOMAIN b = 1..n /\ b = [i \in 1..n |-> b[i]]
      /\ \A i \in 1..n : b[i] \in Change /\ b[i].op = "update" /\ b[i].refs = Keep
  BY <1>3, <1>4
<1>6. shown \in Frames(d) /\ shown.undo = d.undo /\ shown.redo = d.redo /\ shown.outbound = d.outbound
  BY <1>0 DEF Frames
<1> HIDE DEF b, n, shown
<1>7. b \in Changes /\ Len(b) = n
  <2>1. b \in Changes
    BY <1>3, <1>5, ChangeEach
  <2> QED
    BY <1>3, <1>5, <2>1 DEF Changes
<1>8. HistBatch(b) /\ EmitBatch(b)
  <2>1. HistBatch(b)
    BY <1>5, <1>7 DEF HistBatch, Recorded
  <2> QED
    BY <2>1, HistEmits
<1>9. Brings(b) = {} /\ Takes(b) = {}
  BY <1>5, <1>7, InPlaceIds DEF InPlaceOps
<1>10. shown \in Carried(d)
  BY <1>0, <1>6, SameStacks
<1> QED
  BY <1>0, <1>2, <1>7, <1>8, <1>9, <1>10, EmitCarried

\* An undo moves a batch from one stack to the other, as its inverse.
LEMMA ReplayCarried ==
  ASSUME NEW d, Working(d), NEW undoing \in BOOLEAN
  PROVE  Replay(d, undoing) \in Carried(d)
<1> DEFINE from == IF undoing THEN d.undo ELSE d.redo
           to == IF undoing THEN d.redo ELSE d.undo
           inverse == Inverted(d.cells, Last(from))
<1>0. EditorOK(d) /\ d \in Carried(d) /\ d \in Frames(d) /\ PlainList(d.cells) /\ d.cells \in Cells
  BY StartCarried DEF Working, EditorOK
<1>1. from \in Seq(History) /\ to \in Seq(History)
  BY DEF Working, StacksOK
<1> SUFFICES ASSUME from # <<>> PROVE Replay(d, undoing) \in Carried(d)
  BY <1>0 DEF Replay
<1> PICK b : b = Last(from)
  OBVIOUS
<1> PICK back : back = (IF inverse.ok THEN inverse.changes ELSE <<>>)
  OBVIOUS
<1> PICK rest : rest = Front(from)
  OBVIOUS
<1> PICK onto : onto = Append(to, back)
  OBVIOUS
<1> PICK f : f = [d EXCEPT !.undo = IF undoing THEN rest ELSE onto, !.redo = IF undoing THEN onto ELSE rest]
  OBVIOUS
<1>2. Replay(d, undoing) = EmitAs(f, FALSE, "modify", b, NoCell)
  <2>1. CASE undoing
    <3>1. f = [d EXCEPT !.undo = Front(@), !.redo = Append(@, back)]
      BY <1>0, <2>1 DEF Frames
    <3> QED
      BY <2>1, <3>1 DEF Replay
  <2>2. CASE ~undoing
    <3>1. f = [d EXCEPT !.redo = Front(@), !.undo = Append(@, back)]
      BY <1>0, <2>2 DEF Frames
    <3> QED
      BY <2>2, <3>1 DEF Replay
  <2> QED
    BY <2>1, <2>2
<1>3. b \in History /\ rest \in Seq(History)
  <2> HIDE DEF from
  <2> QED
    BY <1>1, StackTop
<1>4. b \in Changes /\ HistBatch(b) /\ EmitBatch(b)
  BY <1>3, HistEmits DEF History
<1>5. inverse.ok => HistBatch(inverse.changes) /\ GoesBack(b, inverse.changes)
  BY <1>0, <1>4, Returns
<1>6. back \in History
  <2>1. CASE inverse.ok
    BY <1>5, <2>1 DEF History, HistBatch
  <2>2. CASE ~inverse.ok
    <3> PICK none : none = <<>>
      OBVIOUS
    <3>1. none \in Changes /\ Len(none) = 0
      BY DEF Changes
    <3>2. HistBatch(none)
      BY <3>1 DEF HistBatch
    <3> QED
      BY <2>2, <3>1, <3>2 DEF History
  <2> QED
    BY <2>1, <2>2
<1>7. onto \in Seq(History)
  <2> HIDE DEF to
  <2> QED
    BY <1>1, <1>6
<1>8. History \subseteq Changes
  BY DEF History
<1>9. /\ f \in Frames(d) /\ f.outbound = <<>>
      /\ f.undo = (IF undoing THEN rest ELSE onto) /\ f.redo = (IF undoing THEN onto ELSE rest)
  <2>1. rest \in Seq(Changes) /\ onto \in Seq(Changes) /\ d.outbound = <<>>
    BY <1>3, <1>7, <1>8 DEF Working
  <2> QED
    BY ONLY <1>0, <2>1, undoing \in BOOLEAN,
            f = [d EXCEPT !.undo = IF undoing THEN rest ELSE onto, !.redo = IF undoing THEN onto ELSE rest]
       DEF Frames
<1> PICK g : g = Replay(d, undoing)
  OBVIOUS
<1> PICK sent : sent = Anchored(d.cells, b)
  OBVIOUS
<1>10. /\ g \in Frames(d) /\ g.undo = f.undo /\ g.redo = f.redo
       /\ \E m \in Emitted : m.kind = "modify" /\ m.changes = sent /\ g.outbound = Pushed(f.outbound, m)
  <2> PICK no \in BOOLEAN : no = FALSE
    OBVIOUS
  <2> PICK kind : kind = "modify"
    OBVIOUS
  <2> PICK nowhere : nowhere = NoCell
    OBVIOUS
  <2>1. /\ kind \in UserKind /\ nowhere \in CellId \cup {NoCell}
        /\ g = EmitAs(f, no, kind, b, nowhere)
    BY <1>2 DEF UserKind
  <2>2. /\ g \in Frames(d)
        /\ ~(no /\ kind = "modify" /\ Inverted(d.cells, b).ok) =>
              g.undo = f.undo /\ g.redo = f.redo
        /\ \E cmd \in Emitted : /\ cmd.kind = kind /\ cmd.changes = Anchored(d.cells, b)
                                 /\ g.outbound = Pushed(f.outbound, cmd)
    BY ONLY <1>4, <1>9, <2>1, Emission, Working(d), no \in BOOLEAN
  <2> QED
    BY ONLY <2>2, no = FALSE, kind = "modify", sent = Anchored(d.cells, b)
<1>11. SentBatch(sent) /\ \A D : CanApply(D, sent) => CanApply(D, b) /\ IdsLeft(D, sent) = IdsLeft(D, b)
  BY <1>0, <1>4, SentIds
<1>12. PICK m \in Emitted : m.kind = "modify" /\ m.changes = sent /\ g.outbound = Append(f.outbound, m)
  BY <1>10 DEF Pushed
<1>13. m \in SentItem
  BY <1>11, <1>12 DEF SentItem
<1> PICK none : none = <<>>
  OBVIOUS
<1>14. none \in Seq(SentItem) /\ Len(none) = 0 /\ g.outbound = Append(none, m)
  BY <1>9, <1>12
<1>15. StacksOK(g)
  <2>1. g.outbound \in Seq(SentItem)
    BY <1>13, <1>14
  <2>2. g.undo \in Seq(History) /\ g.redo \in Seq(History)
    BY <1>3, <1>7, <1>9, <1>10
  <2> QED
    BY <2>1, <2>2 DEF StacksOK
<1>16. Carries(d, g)
  <2> SUFFICES ASSUME NEW U \in IdSet, NEW V \in IdSet, Held(d, U), Leads(U, g.outbound, 0, V)
               PROVE  Held(g, V)
    BY DEF Carries
  <2>1. PICK W \in IdSet : Leads(U, none, 0, W) /\ Goes(W, m, V)
    BY <1>13, <1>14, LeadsLast
  <2>2. W = U
    BY <1>14, <2>1, LeadsNone
  <2>3. CanApply(U, b) /\ V = IdsLeft(U, b)
    BY <1>11, <1>12, <2>1, <2>2 DEF Goes
  <2>4. b # <<>>
    BY <2>3 DEF CanApply
  <2>5. Replayable(from, U) /\ Replayable(to, U)
    BY DEF Held
  <2>6. from \in Seq(Changes) /\ to \in Seq(Changes) /\ back \in Changes
    BY <1>1, <1>6, <1>8
  <2>7. Replayable(rest, V)
    <3> HIDE DEF from
    <3> QED
      BY <2>3, <2>4, <2>5, <2>6, ReplaysTop
  <2>8. Replayable(onto, V)
    <3> HIDE DEF to, inverse
    <3>1. CASE inverse.ok
      <4>1. CanApply(V, back) /\ IdsLeft(V, back) = U
        BY <1>5, <2>3, <3>1 DEF GoesBack
      <4> QED
        BY <2>5, <2>6, <4>1, ReplaysPushed
    <3>2. CASE ~inverse.ok
      <4>1. back = <<>>
        BY <3>2
      <4> QED
        BY <2>6, <4>1, ReplaysEmpty
    <3> QED
      BY <3>1, <3>2
  <2> QED
    BY <1>9, <1>10, <2>7, <2>8 DEF Held
<1> QED
  BY <1>10, <1>15, <1>16 DEF Carried

\* Every gesture but typing and a tool's request carries the history on.
LEMMA GestureCarries ==
  ASSUME DataOK, PlainList(ed.cells), StacksOK(ed), Gesture
  PROVE  Type \/ RequestTool \/ \E e \in Carried(ed) : Frame(e) /\ Untouched
<1> PICK d : d = ed
  OBVIOUS
<1>1. EditorOK(d) /\ d.cells \in Cells
  BY DEF DataOK, EditorOK
<1>2. /\ \A id \in Ids(d.cells) : id \in CellId
      /\ Fresh \subseteq CellId
  BY <1>1, IdsTyped DEF Fresh
<1>3. ~ed.readOnly => Working(d)
  BY <1>1 DEF DataOK, Working
<1>4. ASSUME NEW gesture, NEW e, Act(gesture, e), Working(d) => e \in Carried(d)
      PROVE  \E f \in Carried(ed) : Frame(f) /\ Untouched
  <2>1. ~ed.readOnly /\ Frame(e) /\ Untouched
    BY <1>4 DEF Act
  <2> QED
    BY <1>3, <1>4, <2>1
<1>5. CASE Save
  <2>1. Act("save", SaveEdits(d))
    BY <1>5 DEF Save
  <2> QED
    BY <1>4, <2>1, SaveCarried
<1>6. CASE Insert
  <2>1. PICK id \in Ids(d.cells), new \in Fresh : Act("insert", InsertBelow(d, id, NewCell(new)))
    BY <1>6 DEF Insert
  <2>2. NewCell(new) \in Cell /\ NewCell(new).refs = {}
    <3>1. Start \in Source
      BY CellsAssumption DEF Start
    <3> QED
      BY <1>2, <3>1, CellsAssumption DEF NewCell, Cell, NoOutput
  <2> PICK c \in Cell : c = NewCell(new)
    BY <2>2
  <2>3. Working(d) => InsertBelow(d, id, c) \in Carried(d)
    BY <2>2, GestureCarried
  <2> QED
    BY <1>4, <2>1, <2>3
<1>7. CASE Copy
  <2>1. PICK id \in Ids(d.cells), new \in Fresh :
          \/ Act("duplicate", Duplicate(d, id, new))
          \/ Act("paste", Paste(d, id, CellOf(d.cells, id), new))
    BY <1>7 DEF Copy
  <2>2. Working(d) => Duplicate(d, id, new) \in Carried(d) /\ Paste(d, id, CellOf(d.cells, id), new) \in Carried(d)
    BY <1>2, GestureCarried
  <2> QED
    BY <1>4, <2>1, <2>2
<1>8. CASE Delete
  <2>1. PICK id \in Ids(d.cells) : Act("delete", DeleteCell(d, id))
    BY <1>8 DEF Delete
  <2>2. Working(d) => DeleteCell(d, id) \in Carried(d)
    BY GestureCarried
  <2> QED
    BY <1>4, <2>1, <2>2
<1>9. CASE Move
  <2>1. PICK id \in Ids(d.cells), i \in 0..(Len(d.cells) - 1) : Act("move", MoveCell(d, id, i))
    BY <1>9 DEF Move
  <2>2. i \in Nat
    BY <1>1 DEF Cells
  <2>3. Working(d) => MoveCell(d, id, i) \in Carried(d)
    BY <2>2, GestureCarried
  <2> QED
    BY <1>4, <2>1, <2>3
<1>10. CASE Retype
  <2>1. PICK id \in Ids(d.cells), k \in Kind : Act("kind", SetKind(d, id, k))
    BY <1>10 DEF Retype
  <2>2. Working(d) => SetKind(d, id, k) \in Carried(d)
    BY GestureCarried
  <2> QED
    BY <1>4, <2>1, <2>2
<1>11. CASE Clear
  <2>1. Act("clear", ClearAll(d))
    BY <1>11 DEF Clear
  <2> QED
    BY <1>4, <2>1, ClearCarried
<1>12. CASE Replace
  <2>1. PICK old \in Source, new \in Source : Act("replace", ReplaceText(d, old, new))
    BY <1>12 DEF Replace
  <2>2. Working(d) => ReplaceText(d, old, new) \in Carried(d)
    BY ReplaceCarried
  <2> QED
    BY <1>4, <2>1, <2>2
<1>13. CASE Execute
  <2>1. PICK id \in Ids(d.cells) : Act("run", Run(d, id))
    BY <1>13 DEF Execute
  <2>2. Working(d) => Run(d, id) \in Carried(d)
    BY GestureCarried
  <2> QED
    BY <1>4, <2>1, <2>2
<1>14. CASE UndoRedo
  <2>1. PICK undoing \in BOOLEAN : Act("undo", Replay(d, undoing))
    BY <1>14 DEF UndoRedo
  <2>2. Working(d) => Replay(d, undoing) \in Carried(d)
    BY ReplayCarried
  <2> QED
    BY <1>4, <2>1, <2>2
<1>15. ASSUME NEW kind \in UserKind \ {"modify"}, NEW cell \in CellId \cup {NoCell}
       PROVE  Working(d) => Command(d, kind, cell) \in Carried(d)
  BY StartCarried, CommandCarried
<1>16. CASE Reconnect
  <2>1. Act("reconnect", Command(d, "reconnect", NoCell))
    BY <1>16 DEF Reconnect
  <2>2. Working(d) => Command(d, "reconnect", NoCell) \in Carried(d)
    BY <1>15 DEF UserKind
  <2> QED
    BY <1>4, <2>1, <2>2
<1>17. CASE Interrupt
  <2>1. Act("interrupt", Command(d, "interrupt", NoCell))
    BY <1>17 DEF Interrupt
  <2>2. Working(d) => Command(d, "interrupt", NoCell) \in Carried(d)
    BY <1>15 DEF UserKind
  <2> QED
    BY <1>4, <2>1, <2>2
<1>18. CASE Complete
  <2>1. PICK id \in Ids(d.cells) : Act("complete", Command(d, "complete", id))
    BY <1>18 DEF Complete
  <2>2. Working(d) => Command(d, "complete", id) \in Carried(d)
    BY <1>2, <1>15 DEF UserKind
  <2> QED
    BY <1>4, <2>1, <2>2
<1> QED
  BY <1>5, <1>6, <1>7, <1>8, <1>9, <1>10, <1>11, <1>12, <1>13, <1>14, <1>16, <1>17, <1>18 DEF Gesture

-----------------------------------------------------------------------------
(* The history of the page.  While every modification was committed or is  *)
(* still queued, both stacks can be replayed where the queue leads from    *)
(* the cells in the file.                                                  *)

\* The head was committed and its answer is open: it led where the file is.
HeadServed(q, done) ==
  q # <<>> /\ q[1].kind = "modify" /\ \E k \in 1..Len(done) : done[k] = q[1].n
Gone(q, done) == IF HeadServed(q, done) THEN 1 ELSE 0
\* Nothing that was asked for up to the number n failed.
Whole(q, n, done) ==
  \A m \in 1..n : (\E k \in 1..Len(done) : done[k] = m) \/ \E i \in 1..Len(q) : Num(q[i]) = m
HeldAhead(e, D, q, n, done) ==
  Whole(q, n, done) => \A V \in IdSet : Leads(D, q, Gone(q, done), V) => Held(e, V)

\* Two editors with the same stacks; of items with one number, x leads nowhere
\* else than y.
SameHistory(f, e) == f.undo = e.undo /\ f.redo = e.redo
NoFurther(x, y) == Num(x) = Num(y) /\ \A A, B : Goes(A, x, B) => Goes(A, y, B)

LEMMA HeldSame ==
  ASSUME NEW e, NEW f, SameHistory(f, e), NEW D, NEW q, NEW r, Len(q) \in Nat, Len(r) = Len(q),
         NEW n, NEW done, \A i \in 1..Len(q) : NoFurther(r[i], q[i]), Gone(r, done) = Gone(q, done),
         HeldAhead(e, D, q, n, done)
  PROVE  HeldAhead(f, D, r, n, done)
<1> PICK s \in Nat : s = Gone(q, done)
  BY DEF Gone
<1> SUFFICES ASSUME Whole(r, n, done), NEW V \in IdSet, Leads(D, r, s, V)
             PROVE  Held(f, V)
  BY DEF HeldAhead
<1>1. Whole(q, n, done)
  BY DEF Whole, NoFurther
<1>2. Leads(D, q, s, V)
  <2> PICK w : Walks(w, D, r, s, V)
    BY DEF Leads
  <2>1. ASSUME NEW k \in (s + 1)..Len(q) PROVE Goes(w[k - 1], q[k], w[k])
    <3>1. k \in 1..Len(q)
      OBVIOUS
    <3>2. Goes(w[k - 1], r[k], w[k]) /\ NoFurther(r[k], q[k])
      BY <3>1 DEF Walks
    <3> QED
      BY <3>2 DEF NoFurther
  <2>2. Walks(w, D, q, s, V)
    BY <2>1 DEF Walks
  <2> QED
    BY <2>2 DEF Leads
<1>3. Held(e, V)
  BY <1>1, <1>2 DEF HeldAhead
<1> QED
  BY <1>3 DEF Held, SameHistory

\* The queue grew by what had no number yet.
LEMMA HeldGrown ==
  ASSUME NEW e, NEW f, NEW D, NEW q \in Seq(Item), NEW r, NEW items, Len(items) \in Nat,
         Extends(r, q, items), NEW n \in Nat, NEW l \in Nat, n <= l, NEW done,
         \A i \in 1..Len(items) : Num(items[i]) \notin 1..n,
         q = <<>> => ~HeadServed(r, done),
         \A U \in IdSet, V \in IdSet : Held(e, U) /\ Leads(U, items, 0, V) => Held(f, V),
         HeldAhead(e, D, q, n, done)
  PROVE  HeldAhead(f, D, r, l, done)
<1> PICK s : s = Gone(q, done)
  OBVIOUS
<1>1. s = Gone(r, done)
  <2>1. CASE q = <<>>
    BY <2>1 DEF Gone, HeadServed
  <2>2. CASE q # <<>>
    BY <2>2 DEF Gone, HeadServed, Extends
  <2> QED
    BY <2>1, <2>2
<1> SUFFICES ASSUME Whole(r, l, done), NEW V \in IdSet, Leads(D, r, s, V)
             PROVE  Held(f, V)
  BY <1>1 DEF HeldAhead
<1>2. Len(r) = Len(q) + Len(items)
      /\ (\A i \in 1..Len(q) : r[i] = q[i]) /\ \A i \in 1..Len(items) : r[Len(q) + i] = items[i]
  BY DEF Extends
<1>3. Whole(q, n, done)
  <2> SUFFICES ASSUME NEW m \in 1..n
               PROVE  (\E k \in 1..Len(done) : done[k] = m) \/ \E i \in 1..Len(q) : Num(q[i]) = m
    BY DEF Whole
  <2>1. m \in 1..l
    OBVIOUS
  <2>2. CASE \E k \in 1..Len(done) : done[k] = m
    BY <2>2
  <2>3. CASE \E i \in 1..Len(r) : Num(r[i]) = m
    <3> PICK i \in 1..Len(r) : Num(r[i]) = m
      BY <2>3
    <3>1. i \in 1..Len(q)
      <4> SUFFICES ASSUME ~(i \in 1..Len(q)) PROVE FALSE
        OBVIOUS
      <4> PICK j : j = i - Len(q)
        OBVIOUS
      <4>1. j \in 1..Len(items) /\ Len(q) + j = i
        BY <1>2
      <4>2. r[i] = items[j]
        BY <1>2, <4>1
      <4> QED
        BY <4>1, <4>2
    <3> QED
      BY <1>2, <3>1
  <2> QED
    BY <2>1, <2>2, <2>3 DEF Whole
<1>4. s \in 0..Len(q)
  <2>1. Len(q) \in Nat /\ (q # <<>> => Len(q) # 0)
    OBVIOUS
  <2> QED
    BY <2>1 DEF Gone, HeadServed
<1>5. PICK U \in IdSet : Leads(D, q, s, U) /\ Leads(U, items, 0, V)
  BY <1>2, <1>4, LeadsParts DEF SameDuty
<1>6. Held(e, U)
  BY <1>3, <1>5 DEF HeldAhead
<1> QED
  BY <1>5, <1>6

\* The head is done, and was committed if nothing failed.
LEMMA HeldDone ==
  ASSUME NEW e, NEW f, SameHistory(f, e), NEW D \in IdSet, NEW q, NEW n, NEW applied, NEW done,
         NEW open \in BOOLEAN, QueueOK(q, n, applied, done, open), q # <<>>,
         HeldAhead(e, D, q, n, done)
  PROVE  HeldAhead(f, D, Tail(q), n, done)
<1> PICK r : r = Tail(q)
  OBVIOUS
<1> PICK l : l = Len(q)
  OBVIOUS
<1> PICK m : m = q[1]
  OBVIOUS
<1>1. /\ q \in Seq(Item) /\ n \in Nat /\ l \in Nat /\ l >= 1 /\ Len(r) = l - 1 /\ r \in Seq(Item)
      /\ \A i \in 1..(l - 1) : r[i] = q[i + 1]
  BY TailSeq DEF QueueOK, Numbered
<1>2. /\ 1 \in 1..l /\ ItemOK(m) /\ m.n \in Int /\ Num(m) <= n /\ Num(m) \in Nat
      /\ m.by # "watch" => \A i \in 1..l : i # 1 /\ q[i].by # "watch" => Num(m) < Num(q[i])
  BY HeadNumber DEF QueueOK
<1>3. \A i \in 1..l : ItemOK(q[i]) /\ q[i].n \in Int
  <2>1. \A i \in 1..l : q[i] \in Item
    BY <1>1
  <2> QED
    BY <2>1 DEF QueueOK, Numbered, Item
<1>4. \A k \in 1..Len(done), i \in 1..l : q[i].by # "watch" =>
           \/ done[k] < Num(q[i])
           \/ open /\ i = 1 /\ q[i].kind = "modify" /\ done[k] = q[i].n
  BY DEF QueueOK, Used
<1>5. \A i \in 1..l : q[i].kind = "modify" => q[i].by # "watch" /\ Num(q[i]) = q[i].n
  BY <1>3 DEF ItemOK, Num
<1>6. Gone(r, done) = 0
  <2> SUFFICES ASSUME HeadServed(r, done) PROVE FALSE
    BY DEF Gone
  <2>1. r # <<>> /\ r[1].kind = "modify"
    BY DEF HeadServed
  <2>2. PICK k \in 1..Len(done) : done[k] = r[1].n
    BY DEF HeadServed
  <2>3. Len(r) # 0
    BY <1>1, <2>1
  <2>4. 2 \in 1..l /\ r[1] = q[2]
    BY <1>1, <2>3
  <2>5. q[2].by # "watch" /\ Num(q[2]) = q[2].n /\ q[2].n \in Int
    BY <1>3, <1>5, <2>1, <2>4
  <2>6. done[k] < Num(q[2])
    BY <1>4, <2>4, <2>5
  <2> QED
    BY <2>2, <2>4, <2>5, <2>6
<1> SUFFICES ASSUME Whole(r, n, done), NEW V \in IdSet, Leads(D, r, 0, V)
             PROVE  Held(f, V)
  BY <1>6 DEF HeldAhead
<1>7. Leads(D, q, 1, V)
  BY <1>1, LeadsTail
<1>8. CASE m.by = "watch"
  <2>1. m.kind = "adopt" /\ Num(m) = 0
    BY <1>2, <1>8 DEF ItemOK, Num
  <2>2. Gone(q, done) = 0 /\ Goes(D, m, D)
    BY <2>1 DEF Gone, HeadServed, Goes
  <2>3. Leads(D, q, 0, V)
    BY <1>1, <1>7, <2>2, LeadsHead
  <2>4. Whole(q, n, done)
    <3>1. \A i \in 1..Len(r) : i + 1 \in 1..l /\ r[i] = q[i + 1]
      BY <1>1
    <3> QED
      BY <3>1 DEF Whole
  <2> QED
    BY <2>2, <2>3, <2>4 DEF HeldAhead, Held, SameHistory
<1>9. CASE m.by # "watch"
  <2>1. Num(m) \in 1..n
    BY <1>2, <1>9 DEF ItemOK, Num
  <2>2. \A i \in 1..Len(r) : Num(r[i]) # Num(m)
    <3> TAKE i \in 1..Len(r)
    <3>1. i + 1 \in 1..l /\ i + 1 # 1 /\ r[i] = q[i + 1]
      BY <1>1
    <3>2. CASE q[i + 1].by = "watch"
      BY <1>3, <2>1, <3>1, <3>2 DEF ItemOK, Num
    <3>3. CASE q[i + 1].by # "watch"
      <4>1. Num(m) < Num(q[i + 1])
        BY <1>2, <1>9, <3>1, <3>3
      <4> QED
        BY <1>2, <3>1, <4>1
    <3> QED
      BY <3>2, <3>3
  <2>3. PICK k \in 1..Len(done) : done[k] = Num(m)
    BY <2>1, <2>2 DEF Whole
  <2>4. m.kind = "modify" /\ done[k] = m.n
    BY <1>2, <1>4, <1>9, <2>3
  <2>5. Gone(q, done) = 1
    BY <2>4 DEF Gone, HeadServed
  <2>6. Whole(q, n, done)
    <3>1. \A i \in 1..Len(r) : i + 1 \in 1..l /\ r[i] = q[i + 1]
      BY <1>1
    <3> QED
      BY <3>1 DEF Whole
  <2> QED
    BY <1>7, <2>5, <2>6 DEF HeldAhead, Held, SameHistory
<1> QED
  BY <1>8, <1>9

\* The head is committed: the file is where it led.
LEMMA HeldServed ==
  ASSUME NEW e, NEW D \in IdSet, NEW E, NEW q, NEW n, NEW applied, NEW done,
         QueueOK(q, n, applied, done, FALSE), q # <<>>, q[1].kind = "modify",
         Goes(D, q[1], E), HeldAhead(e, D, q, n, done)
  PROVE  HeldAhead(e, E, q, n, Append(done, q[1].n))
<1> PICK m : m = q[1]
  OBVIOUS
<1>0. /\ q \in Seq(Item) /\ n \in Nat /\ 1 \in 1..Len(q) /\ ItemOK(m) /\ m.n \in Int
  BY HeadNumber DEF QueueOK, Numbered
<1>1. /\ q \in Seq(Item) /\ n \in Nat /\ 1 \in 1..Len(q) /\ ItemOK(m) /\ m.n \in Int
      /\ Len(q) \in Nat \ {0}
  BY <1>0
<1>2. m.by # "watch" /\ Num(m) = m.n /\ m.n \in Nat
  BY <1>1 DEF ItemOK, Num
<1>3. done \in Seq(Nat) /\ \A k \in 1..Len(done) : done[k] < Num(m)
  BY <1>1, <1>2 DEF QueueOK, Used
<1> PICK now : now = Append(done, m.n)
  OBVIOUS
<1>4. /\ Len(now) = Len(done) + 1 /\ Len(done) \in Nat /\ now[Len(done) + 1] = m.n
      /\ \A k \in 1..Len(done) : now[k] = done[k]
  BY <1>2, <1>3
<1>5. Gone(q, now) = 1
  <2>1. Len(done) + 1 \in 1..Len(now)
    BY <1>4
  <2> QED
    BY <1>4, <2>1 DEF Gone, HeadServed
<1>6. Gone(q, done) = 0
  <2>1. ~HeadServed(q, done)
    <3> SUFFICES ASSUME NEW k \in 1..Len(done), done[k] = m.n PROVE FALSE
      BY DEF HeadServed
    <3> QED
      BY <1>2, <1>3
  <2> QED
    BY <2>1 DEF Gone
<1> SUFFICES ASSUME Whole(q, n, now), NEW V \in IdSet, Leads(E, q, 1, V)
             PROVE  Held(e, V)
  BY <1>5 DEF HeldAhead
<1>7. Whole(q, n, done)
  <2> SUFFICES ASSUME NEW x \in 1..n
               PROVE  (\E k \in 1..Len(done) : done[k] = x) \/ \E i \in 1..Len(q) : Num(q[i]) = x
    BY DEF Whole
  <2>1. CASE \E k \in 1..Len(now) : now[k] = x
    <3> PICK k \in 1..Len(now) : now[k] = x
      BY <2>1
    <3>1. CASE k = Len(done) + 1
      BY <1>1, <1>2, <1>4, <3>1
    <3>2. CASE k # Len(done) + 1
      <4>1. k \in 1..Len(done)
        BY <1>4, <3>2
      <4> QED
        BY <1>4, <4>1
    <3> QED
      BY <3>1, <3>2
  <2>2. CASE \E i \in 1..Len(q) : Num(q[i]) = x
    BY <2>2
  <2> QED
    BY <2>1, <2>2 DEF Whole
<1>8. Leads(D, q, 0, V)
  BY <1>1, LeadsHead
<1> QED
  BY <1>6, <1>7, <1>8 DEF HeldAhead

-----------------------------------------------------------------------------
(* The cells of the gateway have no microscopes, and the file has the ids of *)
(* what was committed last.                                                  *)

PlainLog(f, l) == /\ PlainList(f) /\ l \in Seq(Cells) /\ Len(l) >= 1 /\ \A r \in 1..Len(l) : PlainList(l[r])
                  /\ Ids(f) = Ids(l[Len(l)])

LEMMA PlainAdded ==
  ASSUME NEW f, NEW l, PlainLog(f, l), NEW c, PlainList(c)
  PROVE  PlainLog(c, Append(l, c))
<1>1. c \in Cells /\ l \in Seq(Cells) /\ Len(l) \in Nat
  BY PlainTyped DEF PlainLog
<1> PICK m : m = Append(l, c)
  OBVIOUS
<1>2. /\ m \in Seq(Cells) /\ Len(m) = Len(l) + 1 /\ m[Len(l) + 1] = c
      /\ \A r \in 1..Len(l) : m[r] = l[r]
  BY <1>1
<1>3. \A r \in 1..Len(m) : PlainList(m[r])
  <2> TAKE r \in 1..Len(m)
  <2>1. r \in 1..Len(l) \/ r = Len(l) + 1
    BY <1>1, <1>2
  <2> QED
    BY <1>2, <2>1 DEF PlainLog
<1> QED
  BY <1>1, <1>2, <1>3 DEF PlainLog

LEMMA PlainCommitted ==
  ASSUME PlainLog(file, log)
  PROVE  PlainLog(file, Committed(file))
BY PlainAdded DEF Committed, PlainLog

\* A cell changed in place leaves the ids as they are.
LEMMA PlainInPlace ==
  ASSUME NEW f, PlainList(f), NEW p \in 1..Len(f), NEW x \in Cell, x.id = f[p].id, x.refs = {},
         NEW g, g = [f EXCEPT ![p] = x]
  PROVE  PlainList(g) /\ Ids(g) = Ids(f)
<1>1. f \in Seq(PlainCell) /\ UniqueIds(f) /\ x \in PlainCell /\ DOMAIN f = 1..Len(f)
  BY DEF PlainList, PlainCell
<1>2. g \in Seq(PlainCell) /\ DOMAIN g = 1..Len(f) /\ \A i \in 1..Len(f) : g[i] = IF i = p THEN x ELSE f[i]
  BY <1>1
<1>3. \A i \in 1..Len(f) : g[i].id = f[i].id
  BY <1>2
<1>4. UniqueIds(g)
  BY <1>1, <1>2, <1>3 DEF UniqueIds
<1>5. Ids(g) = Ids(f)
  BY <1>1, <1>2, <1>3 DEF Ids
<1> QED
  BY <1>2, <1>4, <1>5 DEF PlainList

-----------------------------------------------------------------------------
(* The invariant of the history, and the steps that keep it. *)

HistoryInvariant ==
  /\ PlainLog(file, log) /\ StacksOK(ed)
  /\ \A i \in 1..Len(queue) : SentBatch(queue[i].changes)
  /\ \A k \in 1..Len(served) : served[k] >= 1
  /\ HeldAhead(ed, Ids(file), queue, issued, served)

IsEditor(e) ==
  e = [cells |-> e.cells, rev |-> e.rev, sync |-> e.sync, editors |-> e.editors,
       dirty |-> e.dirty, undo |-> e.undo, redo |-> e.redo, outbound |-> e.outbound,
       readOnly |-> e.readOnly, busy |-> e.busy]
Alike(f, e) == IsEditor(f) /\ SameHistory(f, e)

\* What the page tells the editor, and what is typed, is not in the history.
LEMMA StacksKept ==
  ASSUME NEW e, IsEditor(e)
  PROVE  /\ Alike(e, e) /\ Alike(Freed(e), e)
         /\ \A s : Alike(ShowError(e, s), e)
         /\ \A snap, s : Alike(ReplaceState(e, snap, s), e)
         /\ \A snap, s : Alike(ShowSnapshot(e, snap, s), e)
         /\ \A id, text : Alike(Write(e, id, text), e)
<1>1. Alike(e, e)
  BY DEF Alike, SameHistory
<1>2. Alike(Freed(e), e)
  <2> PICK b : b = FALSE
    OBVIOUS
  <2> PICK f : f = [e EXCEPT !.busy = b]
    OBVIOUS
  <2>1. Freed(e) = f
    BY DEF Freed
  <2>2. Alike(f, e)
    BY DEF IsEditor, Alike, SameHistory
  <2> QED
    BY <2>1, <2>2
<1>3. ASSUME NEW s PROVE Alike(ShowError(e, s), e)
  BY DEF IsEditor, Alike, SameHistory, ShowError
<1>4. ASSUME NEW snap, NEW s PROVE Alike(ReplaceState(e, snap, s), e)
  <2> PICK c : c = snap.cells
    OBVIOUS
  <2> PICK r : r = snap.rev
    OBVIOUS
  <2> PICK t : t = Texts(snap.cells)
    OBVIOUS
  <2> PICK f : f = [e EXCEPT !.cells = c, !.rev = r, !.sync = s, !.editors = t, !.dirty = {}]
    OBVIOUS
  <2>1. ReplaceState(e, snap, s) = f
    BY DEF ReplaceState
  <2>2. Alike(f, e)
    BY DEF IsEditor, Alike, SameHistory
  <2> QED
    BY <2>1, <2>2
<1>5. ASSUME NEW snap, NEW s PROVE Alike(ShowSnapshot(e, snap, s), e)
  BY <1>1, <1>4 DEF ShowSnapshot
<1>6. ASSUME NEW id, NEW text PROVE Alike(Write(e, id, text), e)
  <2> PICK t : t = [e.editors EXCEPT ![id] = text]
    OBVIOUS
  <2>1. Write(e, id, text) = [e EXCEPT !.editors = t, !.dirty = e.dirty \cup {id}]
    BY DEF Write
  <2> QED
    BY <2>1 DEF IsEditor, Alike, SameHistory
<1> QED
  BY <1>1, <1>2, <1>3, <1>4, <1>5, <1>6

\* What is known of a page in a step.
LEMMA HistoryFacts ==
  ASSUME PageInvariant, HistoryInvariant
  PROVE  /\ IsEditor(ed) /\ EditorOK(ed) /\ ed.outbound = <<>> /\ log \in Seq(Cells) /\ file \in Cells
         /\ Ids(file) \in IdSet /\ queue \in Seq(Item) /\ issued \in Nat /\ served \in Seq(Nat)
         /\ QueueOK(queue, issued, replica.applied, served, Ended)
<1>1. /\ EditorOK(ed) /\ ed.outbound = <<>> /\ log \in Seq(Cells) /\ file \in Cells
      /\ QueueOK(queue, issued, replica.applied, served, Ended)
  BY DEF PageInvariant, DataOK, NumbersOK
<1>2. IsEditor(ed)
  BY <1>1 DEF EditorOK, Frames, IsEditor
<1>3. queue \in Seq(Item) /\ issued \in Nat /\ served \in Seq(Nat)
  BY <1>1 DEF QueueOK, Numbered, Used
<1>4. Ids(file) \in IdSet
  <2>1. \A id \in Ids(file) : id \in CellId
    BY <1>1, IdsTyped
  <2> QED
    BY <2>1 DEF IdSet
<1> QED
  BY <1>1, <1>2, <1>3, <1>4

LEMMA StacksStay ==
  ASSUME PageInvariant', HistoryInvariant, Alike(ed', ed)
  PROVE  StacksOK(ed')
<1>1. ed'.outbound = <<>>
  BY DEF PageInvariant, DataOK
<1>2. ed'.outbound \in Seq(SentItem)
  BY <1>1
<1> QED
  BY <1>2 DEF HistoryInvariant, StacksOK, Alike, SameHistory

\* Neither the stacks nor what the queue leads to changes.
LEMMA HistorySame ==
  ASSUME PageInvariant, PageInvariant', HistoryInvariant, Alike(ed', ed), PlainLog(file', log'),
         Ids(file') = Ids(file), issued' = issued, served' = served, Len(queue') = Len(queue),
         \A i \in 1..Len(queue) : NoFurther(queue'[i], queue[i]) /\ SentBatch(queue'[i].changes),
         Gone(queue', served) = Gone(queue, served)
  PROVE  HistoryInvariant'
<1>1. StacksOK(ed')
  BY StacksStay
<1> PICK q : q = queue
  OBVIOUS
<1> PICK r : r = queue'
  OBVIOUS
<1> PICK D : D = Ids(file)
  OBVIOUS
<1> PICK d : d = ed
  OBVIOUS
<1> PICK f : f = ed'
  OBVIOUS
<1> PICK n : n = issued
  OBVIOUS
<1> PICK done : done = served
  OBVIOUS
<1>2. HeldAhead(d, D, q, n, done) /\ Len(q) \in Nat /\ Len(r) = Len(q) /\ SameHistory(f, d)
  BY HistoryFacts DEF HistoryInvariant, Alike
<1>3. (\A i \in 1..Len(q) : NoFurther(r[i], q[i])) /\ Gone(r, done) = Gone(q, done)
  OBVIOUS
<1>4. HeldAhead(f, D, r, n, done)
  BY <1>2, <1>3, HeldSame
<1>5. HeldAhead(ed', Ids(file'), queue', issued', served')
  BY <1>4
<1> QED
  BY <1>1, <1>5 DEF HistoryInvariant

LEMMA HistoryQuiet ==
  ASSUME PageInvariant, PageInvariant', HistoryInvariant, Alike(ed', ed), PlainLog(file', log'),
         Ids(file') = Ids(file), UNCHANGED <<issued, served, queue>>
  PROVE  HistoryInvariant'
<1>1. /\ issued' = issued /\ served' = served /\ queue' = queue /\ Len(queue') = Len(queue)
      /\ Gone(queue', served) = Gone(queue, served)
  OBVIOUS
<1>2. \A i \in 1..Len(queue) : NoFurther(queue'[i], queue[i]) /\ SentBatch(queue'[i].changes)
  BY <1>1 DEF NoFurther, HistoryInvariant
<1> QED
  BY <1>1, <1>2, HistorySame

\* The head is done.
LEMMA HistoryTail ==
  ASSUME PageInvariant, PageInvariant', HistoryInvariant, Alike(ed', ed),
         queue # <<>>, queue' = Tail(queue), UNCHANGED <<file, log, issued, served>>
  PROVE  HistoryInvariant'
<1>1. StacksOK(ed')
  BY StacksStay
<1> PICK q : q = queue
  OBVIOUS
<1> PICK D : D = Ids(file)
  OBVIOUS
<1> PICK d : d = ed
  OBVIOUS
<1> PICK f : f = ed'
  OBVIOUS
<1> PICK n : n = issued
  OBVIOUS
<1> PICK done : done = served
  OBVIOUS
<1> PICK applied : applied = replica.applied
  OBVIOUS
<1> PICK open : open = Ended
  OBVIOUS
<1>2. /\ HeldAhead(d, D, q, n, done) /\ D \in IdSet /\ QueueOK(q, n, applied, done, open)
      /\ open \in BOOLEAN /\ q # <<>> /\ SameHistory(f, d) /\ q \in Seq(Item)
  BY HistoryFacts DEF HistoryInvariant, Alike
<1>3. HeldAhead(f, D, Tail(q), n, done)
  BY <1>2, HeldDone
<1>4. HeldAhead(ed', Ids(file'), queue', issued', served')
  BY <1>3
<1>5. \A i \in 1..Len(queue') : SentBatch(queue'[i].changes)
  <2>1. /\ Len(Tail(q)) = Len(q) - 1 /\ Len(q) \in Nat /\ \A i \in 1..(Len(q) - 1) : Tail(q)[i] = q[i + 1]
    BY <1>2, TailSeq
  <2> PICK r : r = Tail(q)
    OBVIOUS
  <2>2. \A i \in 1..Len(r) : i + 1 \in 1..Len(q) /\ r[i] = q[i + 1]
    BY <2>1
  <2>3. queue' = r
    OBVIOUS
  <2> QED
    BY <2>2, <2>3 DEF HistoryInvariant
<1> QED
  BY <1>1, <1>4, <1>5 DEF HistoryInvariant

\* Items were added.
LEMMA HistoryGrown ==
  ASSUME PageInvariant, PageInvariant', HistoryInvariant, NEW items \in Seq(Item),
         StacksOK(ed'), queue' = queue \o items, UNCHANGED <<file, log, served>>,
         issued' \in Nat, issued <= issued',
         \A i \in 1..Len(items) : Num(items[i]) \notin 1..issued /\ SentBatch(items[i].changes),
         queue = <<>> => ~HeadServed(queue', served),
         \A U \in IdSet, V \in IdSet : Held(ed, U) /\ Leads(U, items, 0, V) => Held(ed', V)
  PROVE  HistoryInvariant'
<1> PICK q : q = queue
  OBVIOUS
<1> PICK D : D = Ids(file)
  OBVIOUS
<1> PICK d : d = ed
  OBVIOUS
<1> PICK f : f = ed'
  OBVIOUS
<1> PICK n : n = issued
  OBVIOUS
<1> PICK l : l = issued'
  OBVIOUS
<1> PICK done : done = served
  OBVIOUS
<1> PICK r : r = q \o items
  OBVIOUS
<1>1. /\ HeldAhead(d, D, q, n, done) /\ q \in Seq(Item) /\ n \in Nat
  BY HistoryFacts DEF HistoryInvariant
<1>2. Extends(r, q, items)
  <2>1. /\ Len(q \o items) = Len(q) + Len(items)
        /\ \A j \in 1..(Len(q) + Len(items)) :
             (q \o items)[j] = IF j <= Len(q) THEN q[j] ELSE items[j - Len(q)]
    BY <1>1, JoinedSeq
  <2>2. /\ Len(r) = Len(q) + Len(items) /\ Len(q) \in Nat /\ Len(items) \in Nat /\ r \in Seq(Item)
        /\ \A j \in 1..(Len(q) + Len(items)) : r[j] = IF j <= Len(q) THEN q[j] ELSE items[j - Len(q)]
    BY <1>1, <2>1, JoinedSeq
  <2>3. \A j \in 1..Len(q) : r[j] = q[j]
    BY <2>2
  <2>4. ASSUME NEW j \in 1..Len(items) PROVE r[Len(q) + j] = items[j]
    <3>1. Len(q) + j \in 1..(Len(q) + Len(items)) /\ ~(Len(q) + j <= Len(q)) /\ (Len(q) + j) - Len(q) = j
      BY <2>2
    <3> QED
      BY <2>2, <3>1
  <2>5. q # <<>> => r # <<>> /\ r[1] = q[1]
    <3> HAVE q # <<>>
    <3>1. Len(q) # 0 /\ 1 \in 1..Len(q)
      BY <1>1
    <3>2. Len(r) # 0
      BY <2>2, <3>1
    <3> QED
      BY <2>3, <3>1, <3>2
  <2> QED
    BY <2>2, <2>3, <2>4, <2>5 DEF Extends
<1>3. queue' = r /\ Len(items) \in Nat
  OBVIOUS
<1>4. HeldAhead(f, D, r, l, done)
  <2>1. /\ \A i \in 1..Len(items) : Num(items[i]) \notin 1..n
        /\ q = <<>> => ~HeadServed(r, done)
        /\ l \in Nat /\ n <= l
        /\ \A U \in IdSet, V \in IdSet : Held(d, U) /\ Leads(U, items, 0, V) => Held(f, V)
    BY <1>3
  <2> QED
    BY ONLY <1>1, <1>2, <1>3, <2>1, HeldGrown
<1>5. HeldAhead(ed', Ids(file'), queue', issued', served')
  BY <1>3, <1>4
<1>6. \A j \in 1..Len(queue') : SentBatch(queue'[j].changes)
  <2> SUFFICES ASSUME NEW j \in 1..Len(r) PROVE SentBatch(r[j].changes)
    BY <1>3
  <2>1. CASE j \in 1..Len(q)
    BY <1>2, <2>1 DEF Extends, HistoryInvariant
  <2>2. CASE ~(j \in 1..Len(q))
    <3> PICK i : i = j - Len(q)
      OBVIOUS
    <3>1. i \in 1..Len(items) /\ Len(q) + i = j
      BY <1>1, <1>2, <2>2 DEF Extends
    <3>2. r[j] = items[i]
      BY <1>2, <3>1 DEF Extends
    <3> QED
      BY <3>1, <3>2
  <2> QED
    BY <2>1, <2>2
<1> QED
  BY <1>5, <1>6 DEF HistoryInvariant

LEMMA FrameKeepsHistory ==
  ASSUME PageInvariant, PageInvariant', HistoryInvariant, NEW e \in Carried(ed), Frame(e), Untouched
  PROVE  HistoryInvariant'
<1> DEFINE out == e.outbound
           items == [i \in DOMAIN out |-> [out[i] EXCEPT !.n = issued + i]]
           k == Len(out)
<1>1. /\ ed' = Drained(e) /\ queue' = queue \o items /\ issued' = issued + k
      /\ UNCHANGED <<file, log, served>>
  BY DEF Frame, Enqueue, Untouched, gatewayVars
<1>2. e \in Frames(ed) /\ StacksOK(e) /\ Carries(ed, e)
  BY DEF Carried
<1>3. out \in Seq(SentItem) /\ k \in Nat /\ DOMAIN out = 1..k /\ \A i \in 1..k : out[i] \in SentItem
  BY <1>2 DEF StacksOK
<1> HIDE DEF out, k
<1> PICK n \in Nat : n = issued
  BY HistoryFacts
<1>4. \A i \in 1..k : /\ items[i] \in Item /\ items[i].kind = out[i].kind
                      /\ items[i].changes = out[i].changes /\ items[i].n = n + i
                      /\ SentBatch(items[i].changes)
  <2> TAKE i \in 1..k
  <2> PICK x \in SentItem : x = out[i]
    BY <1>3
  <2> PICK m : m = n + i
    OBVIOUS
  <2>1. items[i] = [x EXCEPT !.n = m] /\ m \in Int
    BY <1>3
  <2>2. x \in Emitted /\ SentBatch(x.changes)
    BY DEF SentItem
  <2> QED
    BY <2>1, <2>2 DEF Emitted, Item, ItemKind
<1>5. items \in Seq(Item) /\ Len(items) = k
  BY <1>3, <1>4
<1> HIDE DEF items
<1>6. \A i \in 1..Len(items) : Num(items[i]) \notin 1..issued /\ SentBatch(items[i].changes)
  BY <1>3, <1>4, <1>5 DEF Num
<1>7. SameHistory(ed', e)
  <2> PICK s : s = FoldLeft(LAMBDA sync, cmd : Marked(sync, cmd.kind), e.sync, e.outbound)
    OBVIOUS
  <2>1. Drained(e) = [e EXCEPT !.outbound = <<>>, !.sync = s]
    BY DEF Drained
  <2> QED
    BY <1>1, <1>2, <2>1 DEF Frames, SameHistory
<1>8. StacksOK(ed')
  <2>1. ed'.outbound = <<>>
    BY DEF PageInvariant, DataOK
  <2>2. ed'.outbound \in Seq(SentItem)
    BY <2>1
  <2> QED
    BY <1>2, <1>7, <2>2 DEF StacksOK, SameHistory
<1>9. queue = <<>> => ~HeadServed(queue', served)
  <2> SUFFICES ASSUME queue = <<>>, HeadServed(queue', served) PROVE FALSE
    OBVIOUS
  <2>1. queue' = items
    BY <1>1, <1>5
  <2>2. PICK j \in 1..Len(served) : served[j] = items[1].n
    BY <2>1 DEF HeadServed
  <2>3. items # <<>>
    BY <2>1 DEF HeadServed
  <2>4. items[1].n = n + 1
    <3>1. 1 \in 1..k
      BY <1>5, <2>3
    <3> QED
      BY <1>4, <3>1
  <2>5. served[j] <= n
    BY HistoryFacts DEF QueueOK, Used
  <2>6. served[j] \in Nat
    BY HistoryFacts
  <2> QED
    BY <2>2, <2>4, <2>5, <2>6
<1>10. ASSUME NEW U \in IdSet, NEW V \in IdSet, Held(ed, U), Leads(U, items, 0, V)
       PROVE  Held(ed', V)
  <2>1. \A i \in 1..Len(out) : SameDuty(items[i], out[i])
    BY <1>4 DEF SameDuty, k
  <2>2. Len(out) \in Nat /\ Len(items) = Len(out)
    BY <1>3, <1>5 DEF k
  <2>3. Leads(U, out, 0, V)
    BY <1>10, <2>1, <2>2, LeadsSame
  <2>4. Held(e, V)
    BY <1>2, <1>10, <2>3 DEF Carries, out
  <2> QED
    BY <1>7, <2>4 DEF Held, SameHistory
<1>11. issued' \in Nat /\ issued <= issued'
  BY <1>1, <1>3
<1> QED
  BY <1>1, <1>5, <1>6, <1>8, <1>9, <1>10, <1>11, HistoryGrown

LEMMA RequestKeepsHistory ==
  ASSUME PageInvariant, PageInvariant', HistoryInvariant, RequestTool
  PROVE  HistoryInvariant'
<1> PICK m : m = ToolQuery
  OBVIOUS
<1> PICK n \in Nat : n = issued
  BY HistoryFacts
<1> PICK items : items = <<m>>
  OBVIOUS
<1>1. /\ queue' = queue \o items /\ issued' = n + 1
      /\ UNCHANGED <<ed, file, log, served>>
  BY DEF RequestTool, Enqueue, Untouched, gatewayVars
<1>2. /\ m.by = "tool" /\ m.kind = "query" /\ m.n = -(n + 1) /\ m \in Item /\ SentBatch(m.changes)
  <2>1. m = [by |-> "tool", kind |-> "query", changes |-> <<>>, cell |-> NoCell, expected |-> 0,
             n |-> -(n + 1)]
    BY DEF ToolQuery
  <2> PICK none : none = <<>>
    OBVIOUS
  <2>2. none \in Changes /\ Len(none) = 0 /\ -(n + 1) \in Int
    BY DEF Changes
  <2>3. SentBatch(none)
    BY <2>2 DEF SentBatch
  <2> QED
    BY <2>1, <2>2, <2>3 DEF Item, ItemKind
<1>3. items \in Seq(Item) /\ Len(items) = 1 /\ items[1] = m
  BY <1>2
<1>4. \A i \in 1..Len(items) : Num(items[i]) \notin 1..issued /\ SentBatch(items[i].changes)
  BY <1>2, <1>3 DEF Num
<1>5. StacksOK(ed')
  BY <1>1 DEF HistoryInvariant
<1>6. queue = <<>> => ~HeadServed(queue', served)
  <2> HAVE queue = <<>>
  <2>1. queue' = items
    BY <1>1, <1>3
  <2> QED
    BY <1>2, <1>3, <2>1 DEF HeadServed
<1>7. ASSUME NEW U \in IdSet, NEW V \in IdSet, Held(ed, U), Leads(U, items, 0, V)
      PROVE  Held(ed', V)
  <2>1. Goes(U, m, V)
    BY <1>3, <1>7, LeadsOne
  <2>2. U = V
    BY <1>2, <2>1 DEF Goes
  <2> QED
    BY <1>1, <1>7, <2>2
<1>8. issued' \in Nat /\ issued <= issued'
  BY <1>1
<1> QED
  BY <1>1, <1>3, <1>4, <1>5, <1>6, <1>7, <1>8, HistoryGrown

LEMMA WatchKeepsHistory ==
  ASSUME PageInvariant, PageInvariant', HistoryInvariant, Watch
  PROVE  HistoryInvariant'
<1> PICK m : m = [by |-> "watch", kind |-> "adopt", changes |-> <<>>, cell |-> NoCell,
                  expected |-> 0, n |-> 0]
  OBVIOUS
<1>1. /\ UNCHANGED <<issued, file, log, served>>
      /\ ed' = [ed EXCEPT !.readOnly = ~driver]
      /\ queue' = queue \/ queue' = Append(queue, m)
  BY DEF Watch, gatewayVars
<1>2. Alike(ed', ed)
  <2> PICK b : b = ~driver
    OBVIOUS
  <2>1. ed' = [ed EXCEPT !.readOnly = b] /\ IsEditor(ed)
    BY <1>1, HistoryFacts
  <2> QED
    BY <2>1 DEF IsEditor, Alike, SameHistory
<1>3. CASE queue' = queue
  BY <1>1, <1>2, <1>3, HistoryQuiet DEF HistoryInvariant
<1>4. CASE queue' = Append(queue, m)
  <2> PICK items : items = <<m>>
    OBVIOUS
  <2>1. m \in Item /\ m.kind = "adopt" /\ m.n = 0 /\ SentBatch(m.changes)
    <3> PICK none : none = <<>>
      OBVIOUS
    <3>1. none \in Changes /\ Len(none) = 0
      BY DEF Changes
    <3>2. SentBatch(none)
      BY <3>1 DEF SentBatch
    <3> QED
      BY <3>1, <3>2 DEF Item, ItemKind
  <2>2. items \in Seq(Item) /\ Len(items) = 1 /\ items[1] = m
    BY <2>1
  <2>3. queue' = queue \o items
    <3>1. queue \in Seq(Item)
      BY HistoryFacts
    <3>2. Append(queue, m) = queue \o <<m>>
      BY <2>1, <3>1
    <3> QED
      BY <1>4, <3>2
  <2>4. \A i \in 1..Len(items) : Num(items[i]) \notin 1..issued /\ SentBatch(items[i].changes)
    BY <2>1, <2>2, HistoryFacts DEF Num
  <2>5. StacksOK(ed')
    BY <1>2, StacksStay
  <2>6. queue = <<>> => ~HeadServed(queue', served)
    <3> HAVE queue = <<>>
    <3>1. queue' = items
      BY <2>2, <2>3
    <3> QED
      BY <2>1, <2>2, <3>1 DEF HeadServed
  <2>7. ASSUME NEW U \in IdSet, NEW V \in IdSet, Held(ed, U), Leads(U, items, 0, V)
        PROVE  Held(ed', V)
    <3>1. Goes(U, m, V)
      BY <2>2, <2>7, LeadsOne
    <3>2. U = V
      BY <2>1, <3>1 DEF Goes
    <3> QED
      BY <1>2, <2>7, <3>2 DEF Held, Alike, SameHistory
  <2>8. issued' \in Nat /\ issued <= issued'
    BY <1>1, HistoryFacts
  <2> QED
    BY <1>1, <2>2, <2>3, <2>4, <2>5, <2>6, <2>7, <2>8, HistoryGrown
<1> QED
  BY <1>1, <1>3, <1>4

\* The page is quiet: typing, and what neither queue nor file notice.
LEMMA RunKeepsHistory ==
  ASSUME PageInvariant, PageInvariant', HistoryInvariant,
         Type \/ Finish \/ FailRun \/ Lose \/ UNCHANGED allVars
  PROVE  HistoryInvariant'
<1>1. IsEditor(ed) /\ PlainLog(file, log)
  BY HistoryFacts DEF HistoryInvariant
<1>2. CASE Type
  <2>1. UNCHANGED <<queue, issued, file, log, served>>
    BY <1>2 DEF Type, Untouched, gatewayVars
  <2>2. Alike(ed', ed)
    BY <1>1, <1>2, StacksKept DEF Type
  <2> QED
    BY <1>1, <2>1, <2>2, HistoryQuiet
<1>3. CASE ~Type
  <2>1. UNCHANGED <<ed, queue, issued, file, log, served>>
    BY <1>3 DEF Finish, FailRun, Lose, allVars, pageVars, gatewayVars, Tell, Publish
  <2>2. Alike(ed', ed)
    BY <1>1, <2>1, StacksKept
  <2> QED
    BY <1>1, <2>1, <2>2, HistoryQuiet
<1> QED
  BY <1>2, <1>3

LEMMA ForeignKeepsHistory ==
  ASSUME PageInvariant, PageInvariant', HistoryInvariant, ForeignWrite \/ ForeignClaim \/ ForeignCommit
  PROVE  HistoryInvariant'
<1>1. UNCHANGED <<ed, queue, issued, served>> /\ IsEditor(ed) /\ PlainLog(file, log)
  BY HistoryFacts DEF ForeignWrite, ForeignClaim, ForeignCommit, pageVars, HistoryInvariant
<1>2. Alike(ed', ed)
  BY <1>1, StacksKept
<1>3. \A c \in Edited(file) : PlainList(c) /\ Ids(c) = Ids(file)
  <2> SUFFICES ASSUME NEW i \in DOMAIN file, NEW s \in Source
               PROVE  PlainList([file EXCEPT ![i].src = s]) /\ Ids([file EXCEPT ![i].src = s]) = Ids(file)
    BY DEF Edited
  <2> PICK f : f = file
    OBVIOUS
  <2> PICK x : x = [f[i] EXCEPT !.src = s]
    OBVIOUS
  <2>1. PlainList(f) /\ i \in 1..Len(f) /\ f[i] \in Cell /\ f[i].refs = {}
    <3>1. PlainList(f)
      BY <1>1 DEF PlainLog
    <3> QED
      BY <3>1, PlainTyped DEF PlainList
  <2>2. x \in Cell /\ x.id = f[i].id /\ x.refs = {}
    BY <2>1 DEF Cell
  <2> PICK g : g = [f EXCEPT ![i] = x]
    OBVIOUS
  <2>3. [file EXCEPT ![i].src = s] = g
    OBVIOUS
  <2>4. PlainList(g) /\ Ids(g) = Ids(f)
    <3>1. PlainList(f) /\ i \in 1..Len(f) /\ x \in Cell /\ x.id = f[i].id /\ x.refs = {}
      BY <2>1, <2>2
    <3>2. g = [f EXCEPT ![i] = x]
      OBVIOUS
    <3> QED
      BY ONLY <3>1, <3>2, PlainInPlace
  <2> QED
    BY <2>3, <2>4
<1>4. PlainLog(file', log') /\ Ids(file') = Ids(file)
  <2>1. CASE ForeignWrite
    <3>1. file' \in Edited(file) /\ log' = log
      BY <2>1 DEF ForeignWrite
    <3> QED
      BY <1>1, <1>3, <3>1 DEF PlainLog
  <2>2. CASE ForeignClaim
    BY <1>1, <2>2 DEF ForeignClaim
  <2>3. CASE ForeignCommit
    <3>1. PICK c \in Edited(file) : file' = c /\ log' = Append(Committed(file), c)
      BY <2>3 DEF ForeignCommit
    <3> PICK l : l = Committed(file)
      OBVIOUS
    <3>2. PlainLog(file, l)
      BY <1>1, PlainCommitted
    <3>3. PlainLog(c, Append(l, c))
      BY <1>3, <3>2, PlainAdded
    <3> QED
      BY <1>3, <3>1, <3>3
  <2> QED
    BY <2>1, <2>2, <2>3
<1> QED
  BY <1>1, <1>2, <1>4, HistoryQuiet

LEMMA OutputKeepsHistory ==
  ASSUME PageInvariant, PageInvariant', HistoryInvariant, Output
  PROVE  HistoryInvariant'
<1>1. PICK out \in 0..1 :
        /\ First.cell \in Ids(file) /\ file' = [file EXCEPT ![PositionOf(file, First.cell)].out = out]
        /\ log' = Append(log, file')
        /\ ed' = ShowSnapshot(ed, Snapshot(file', Rev + 1), "Executing")
        /\ UNCHANGED <<queue, issued, served>>
  BY DEF Output, Publish
<1>2. Alike(ed', ed)
  BY <1>1, HistoryFacts, StacksKept
<1> PICK f : f = file
  OBVIOUS
<1> PICK p : p = PositionOf(f, First.cell)
  OBVIOUS
<1>3. PlainLog(f, log) /\ PlainList(f) /\ f \in Seq(Cell)
  BY PlainTyped DEF HistoryInvariant, PlainLog
<1>4. p \in 1..Len(f)
  BY <1>1, <1>3, PositionFound
<1>5. f[p] \in Cell /\ f[p].refs = {}
  BY <1>3, <1>4, PlainTyped
<1> PICK x : x = [f[p] EXCEPT !.out = out]
  OBVIOUS
<1>6. x \in Cell /\ x.id = f[p].id /\ x.refs = {}
  <2>1. out \in Nat
    OBVIOUS
  <2> QED
    BY <1>5, <2>1 DEF Cell
<1>7. file' = [f EXCEPT ![p] = x]
  BY <1>1
<1> PICK g : g = [f EXCEPT ![p] = x]
  OBVIOUS
<1>8. PlainList(g) /\ Ids(g) = Ids(f)
  <2>1. PlainList(f) /\ p \in 1..Len(f) /\ x \in Cell /\ x.id = f[p].id /\ x.refs = {}
    BY <1>3, <1>4, <1>6
  <2>2. g = [f EXCEPT ![p] = x]
    OBVIOUS
  <2> QED
    BY ONLY <2>1, <2>2, PlainInPlace
<1> PICK l : l = log
  OBVIOUS
<1>9. PlainLog(g, Append(l, g))
  BY <1>3, <1>8, PlainAdded
<1>10. PlainLog(file', log') /\ Ids(file') = Ids(file)
  BY <1>1, <1>7, <1>8, <1>9
<1> QED
  BY <1>1, <1>2, <1>10, HistoryQuiet

LEMMA SendKeepsHistory ==
  ASSUME PageInvariant, PageInvariant', HistoryInvariant, Send
  PROVE  HistoryInvariant'
<1> DEFINE cmd == Stamped(First)
           prepared == PrepareCommand(replica, cmd)
<1>1. queue # <<>> /\ UNCHANGED <<issued, file, log, served>>
  BY DEF Send, gatewayVars
<1>2. IsEditor(ed) /\ PlainLog(file, log)
  BY HistoryFacts DEF HistoryInvariant
<1>3. CASE Refused
  <2>1. queue' = Tail(queue) /\ ed' = Freed(ed)
    BY <1>3 DEF Send, Done, Freed
  <2> QED
    BY <1>1, <1>2, <2>1, StacksKept, HistoryTail
<1>4. CASE ~Refused /\ ~prepared.ok
  <2> PICK s : s = IF First.by = "tool" THEN "Error" ELSE "Disconnected"
    OBVIOUS
  <2> PICK e : e = ShowError(ed, s)
    OBVIOUS
  <2>1. queue' = Tail(queue) /\ ed' = Freed(e)
    BY <1>4 DEF Send, Done, Freed, Broken
  <2>2. Alike(e, ed)
    BY <1>2, StacksKept
  <2>3. Alike(Freed(e), e)
    BY <2>2, StacksKept DEF Alike
  <2>4. Alike(ed', ed)
    BY <2>1, <2>2, <2>3 DEF Alike, SameHistory
  <2> QED
    BY <1>1, <2>1, <2>4, HistoryTail
<1>5. CASE ~Refused /\ prepared.ok
  <2>1. queue' = <<cmd>> \o Tail(queue) /\ ed' = [ed EXCEPT !.busy = (First.by = "tool")]
    BY <1>5 DEF Send
  <2> PICK q : q = queue
    OBVIOUS
  <2> PICK m : m = cmd
    OBVIOUS
  <2>2. q \in Seq(Item) /\ q # <<>> /\ q[1] \in Item
    <3>1. q \in Seq(Item) /\ q # <<>>
      BY <1>1, HistoryFacts
    <3> QED
      BY <3>1
  <2>3. m \in Item /\ m.kind = q[1].kind /\ m.n = q[1].n /\ m.changes = q[1].changes
    <3>1. m = q[1] \/ m = [q[1] EXCEPT !.expected = replica.rev]
      BY DEF Stamped
    <3>2. replica.rev \in Nat
      BY DEF PageInvariant, DataOK, Replica
    <3> QED
      BY <2>2, <3>1, <3>2 DEF Item
  <2> PICK r : r = <<m>> \o Tail(q)
    OBVIOUS
  <2>4. Len(r) = Len(q) /\ r[1] = m /\ (\A i \in 2..Len(q) : r[i] = q[i]) /\ r \in Seq(Item) /\ Len(q) \in Nat
    BY <2>2, <2>3, HeadSeq
  <2>5. queue' = r
    BY <2>1
  <2>6. NoFurther(m, q[1]) /\ \A x : NoFurther(x, x)
    BY <2>3 DEF NoFurther, Goes, Num
  <2>7. \A i \in 1..Len(q) : NoFurther(r[i], q[i]) /\ SentBatch(r[i].changes)
    <3> TAKE i \in 1..Len(q)
    <3>1. SentBatch(q[i].changes) /\ (i = 1 \/ i \in 2..Len(q))
      BY <2>4 DEF HistoryInvariant
    <3> QED
      BY <2>3, <2>4, <2>6, <3>1
  <2>8. Gone(r, served) = Gone(q, served)
    <3>1. r # <<>>
      BY <2>2, <2>4
    <3> QED
      BY <2>2, <2>3, <2>4, <3>1 DEF Gone, HeadServed
  <2>9. Alike(ed', ed)
    <3> PICK b : b = (First.by = "tool")
      OBVIOUS
    <3>1. ed' = [ed EXCEPT !.busy = b]
      BY <2>1
    <3> QED
      BY <1>2, <3>1 DEF IsEditor, Alike, SameHistory
  <2> QED
    BY <1>1, <1>2, <2>4, <2>5, <2>7, <2>8, <2>9, HistorySame
<1> QED
  BY <1>3, <1>4, <1>5

\* A committed modification leads where the queue said it would.
LEMMA ServedKeepsHistory ==
  ASSUME PageInvariant, PageInvariant', HistoryInvariant, flight = Waiting, UNCHANGED <<ed, queue, issued>>,
         queue # <<>>, First.kind = "modify", Proposal(file, First.changes).ok,
         Storable(Merged(file, Proposal(file, First.changes).cells)),
         file' = Merged(file, Proposal(file, First.changes).cells),
         log' = IF file' = file THEN Committed(file) ELSE Append(Committed(file), file'),
         served' = Append(served, First.n)
  PROVE  HistoryInvariant'
<1> PICK f : f = file
  OBVIOUS
<1> PICK q : q = queue
  OBVIOUS
<1> PICK b : b = First.changes
  OBVIOUS
<1> PICK n : n = issued
  OBVIOUS
<1> PICK applied : applied = replica.applied
  OBVIOUS
<1> PICK done : done = served
  OBVIOUS
<1>1. /\ q \in Seq(Item) /\ q # <<>> /\ q[1].kind = "modify" /\ 1 \in 1..Len(q)
      /\ PlainList(f) /\ f \in Cells /\ UniqueIds(f) /\ Ids(f) \in IdSet /\ done \in Seq(Nat)
  <2>1. q \in Seq(Item) /\ q # <<>>
    BY HistoryFacts
  <2>2. PlainList(f) /\ UniqueIds(f)
    BY DEF HistoryInvariant, PlainLog, PlainList
  <2> QED
    BY <2>1, <2>2, HistoryFacts
<1>2. QueueOK(q, n, applied, done, FALSE)
  <2>1. Ended = FALSE
    BY DEF Waiting
  <2> QED
    BY <2>1, HistoryFacts
<1>3. SentBatch(b)
  BY <1>1 DEF HistoryInvariant
<1> PICK p : p = Proposal(f, b).cells
  OBVIOUS
<1> PICK next : next = Merged(f, p)
  OBVIOUS
<1>4. PlainList(next) /\ Ids(next) = Ids(p) /\ UniqueIds(p)
  <2>1. b \in Changes /\ Proposal(f, b).ok /\ UniqueIds(Merged(f, Proposal(f, b).cells))
    BY <1>3 DEF SentBatch, Storable
  <2> QED
    BY <1>1, <2>1, MergedPlain
<1>5. CanApply(Ids(f), b) /\ Ids(p) = IdsLeft(Ids(f), b)
  <2>1. Proposal(f, b).ok /\ UniqueIds(Proposal(f, b).cells)
    BY <1>4
  <2> QED
    BY <1>1, <1>3, <2>1, Applied
<1>6. Goes(Ids(f), q[1], Ids(next))
  BY <1>1, <1>4, <1>5 DEF Goes
<1> PICK d : d = ed
  OBVIOUS
<1>7. HeldAhead(d, Ids(f), q, n, done)
  BY DEF HistoryInvariant
<1> PICK A : A = Ids(f)
  OBVIOUS
<1> PICK B : B = Ids(next)
  OBVIOUS
<1>8. HeldAhead(d, B, q, n, Append(done, q[1].n))
  BY <1>1, <1>2, <1>6, <1>7, HeldServed
<1>9. HeldAhead(ed', Ids(file'), queue', issued', served')
  BY <1>8
<1>10. PlainLog(file', log')
  <2> PICK l : l = Committed(file)
    OBVIOUS
  <2>1. PlainLog(f, l)
    BY PlainCommitted DEF HistoryInvariant
  <2>2. PlainLog(next, Append(l, next))
    BY <1>4, <2>1, PlainAdded
  <2>3. file' = next /\ log' = IF next = f THEN l ELSE Append(l, next)
    OBVIOUS
  <2>4. CASE next = f
    BY <2>1, <2>3, <2>4
  <2>5. CASE next # f
    BY <2>2, <2>3, <2>5
  <2> QED
    BY <2>4, <2>5
<1>11. \A k \in 1..Len(served') : served'[k] >= 1
  <2> PICK x : x = q[1].n
    OBVIOUS
  <2>1. x \in Nat /\ x >= 1
    <3>1. q[1] \in Item /\ ItemOK(q[1])
      BY <1>1, <1>2, HeadNumber DEF QueueOK
    <3> QED
      BY <1>1, <3>1 DEF ItemOK, Item
  <2> PICK now : now = Append(done, x)
    OBVIOUS
  <2>2. /\ Len(now) = Len(done) + 1 /\ Len(done) \in Nat /\ now[Len(done) + 1] = x
        /\ \A k \in 1..Len(done) : now[k] = done[k]
    BY <1>1, <2>1
  <2>3. \A k \in 1..Len(now) : now[k] >= 1
    <3> TAKE k \in 1..Len(now)
    <3>1. k = Len(done) + 1 \/ k \in 1..Len(done)
      BY <2>2
    <3> QED
      BY <2>1, <2>2, <3>1 DEF HistoryInvariant
  <2>4. served' = now
    OBVIOUS
  <2> QED
    BY <2>3, <2>4
<1>12. StacksOK(ed') /\ \A i \in 1..Len(queue') : SentBatch(queue'[i].changes)
  BY DEF HistoryInvariant
<1> QED
  BY <1>9, <1>10, <1>11, <1>12 DEF HistoryInvariant

LEMMA ServeKeepsHistory ==
  ASSUME PageInvariant, PageInvariant', HistoryInvariant, Serve
  PROVE  HistoryInvariant'
<1> DEFINE l == Committed(file)
           proposal == Proposal(file, First.changes)
           next == Merged(file, proposal.cells)
<1>1. flight = Waiting /\ UNCHANGED <<ed, queue, issued>>
  BY DEF Serve, pageVars
<1>2. queue # <<>>
  BY <1>1, OutKnown DEF Waiting, OutOK
<1>3. CASE /\ First.kind = "modify" /\ proposal.ok /\ Storable(next)
           /\ file' = next /\ Tell(TRUE, IF next = file THEN l ELSE Append(l, next))
           /\ served' = Append(served, First.n)
  <2>1. log' = IF file' = file THEN l ELSE Append(l, file')
    BY <1>3 DEF Tell, Publish
  <2> QED
    BY <1>1, <1>2, <1>3, <2>1, ServedKeepsHistory
<1>4. CASE UNCHANGED <<file, served>> /\ (log' = log \/ log' = l)
  <2>1. PlainLog(file', log')
    BY <1>4, PlainCommitted DEF HistoryInvariant
  <2>2. Alike(ed', ed)
    BY <1>1, HistoryFacts, StacksKept
  <2>3. Ids(file') = Ids(file)
    BY <1>4
  <2> QED
    BY <1>1, <1>4, <2>1, <2>2, <2>3, HistoryQuiet
<1> QED
  BY <1>3, <1>4 DEF Serve, Tell, Publish

\* The head has its answer, or none comes.
LEMMA ReceiveKeepsHistory ==
  ASSUME PageInvariant, PageInvariant', HistoryInvariant, Receive \/ ReceiveNothing
  PROVE  HistoryInvariant'
<1>1. UNCHANGED <<file, log, issued, served>> /\ IsEditor(ed) /\ PlainLog(file, log)
  BY HistoryFacts DEF Receive, ReceiveNothing, gatewayVars, HistoryInvariant
<1>2. flight.at # "idle" /\ queue # <<>>
  BY OutKnown DEF Receive, ReceiveNothing, OutOK
<1>3. ASSUME NEW e, Alike(e, ed), Done(e) PROVE HistoryInvariant'
  <2>1. queue' = Tail(queue) /\ ed' = Freed(e)
    BY <1>3 DEF Done, Freed
  <2>2. Alike(Freed(e), e)
    BY <1>3, StacksKept DEF Alike
  <2>3. Alike(ed', ed)
    BY <1>3, <2>1, <2>2 DEF Alike, SameHistory
  <2> QED
    BY <1>1, <1>2, <2>1, <2>3, HistoryTail
<1>4. \A s : Alike(ShowError(ed, s), ed)
  BY <1>1, StacksKept
<1>5. Alike(Broken(ed), ed)
  BY <1>4 DEF Broken
<1> PICK e : e = IF First.kind = "complete" THEN ed ELSE ShowSnapshot(ed, Snap(flight), "Synchronized")
  OBVIOUS
<1>6. Alike(e, ed)
  BY <1>1, StacksKept
<1>7. CASE \/ Done(Broken(ed)) \/ Done(ShowError(ed, "Error")) \/ Done(e)
  BY <1>3, <1>4, <1>5, <1>6, <1>7
<1>8. CASE /\ First.by = "tool" /\ First.kind = "query"
           /\ \E ch \in ToolChange(e.cells) :
                queue' = <<ToolModify(ch)>> \o Tail(queue) /\ ed' = e
  <2> PICK ch \in ToolChange(e.cells) : queue' = <<ToolModify(ch)>> \o Tail(queue) /\ ed' = e
    BY <1>8
  <2> PICK q : q = queue
    OBVIOUS
  <2> PICK m : m = ToolModify(ch)
    OBVIOUS
  <2>1. q \in Seq(Item) /\ q # <<>> /\ q[1] \in Item /\ q[1].kind = "query" /\ ItemOK(q[1]) /\ q[1].n \in Int
    <3>1. q # <<>> /\ Numbered(q, issued)
      BY <1>2, HistoryFacts DEF QueueOK
    <3>2. q[1] \in Item /\ ItemOK(q[1]) /\ q[1].n \in Int
      BY <3>1, HeadNumber
    <3> QED
      BY <1>8, <3>1, <3>2 DEF Numbered
  <2>2. ch \in Changes /\ Len(ch) = 1 /\ ch[1].op = "update"
    <3>1. PICK i \in DOMAIN e.cells, s \in Source : ch = <<UpdateChange(e.cells[i].id, s, Keep, Keep)>>
      BY DEF ToolChange
    <3>2. e.cells[i].id \in CellId
      <4>1. e.cells \in Seq(Cell)
        <5>1. EditorOK(ed')
          BY DEF PageInvariant, DataOK
        <5>2. EditorOK(e)
          BY <5>1
        <5> QED
          BY <5>2 DEF EditorOK, Cells
      <4>2. e.cells[i] \in Cell
        BY <3>1, <4>1
      <4> QED
        BY <4>2 DEF Cell
    <3> PICK id \in CellId : id = e.cells[i].id
      BY <3>2
    <3> PICK x : x = UpdateChange(id, s, Keep, Keep)
      OBVIOUS
    <3>3. x \in Change /\ x.op = "update"
      <4>1. s \in Source \cup {Keep} /\ Keep \in Kind \cup {Keep}
        OBVIOUS
      <4>2. x \in Change
        BY <4>1, CellChanged
      <4> QED
        BY <4>2 DEF UpdateChange
    <3>4. ch = <<x>>
      BY <3>1
    <3> QED
      BY <3>3, <3>4 DEF Changes
  <2>3. m \in Item /\ m.kind = "modify" /\ m.n = -q[1].n /\ m.changes = ch
    <3>1. m = [q[1] EXCEPT !.kind = "modify", !.changes = ch, !.n = -q[1].n]
      BY DEF ToolModify
    <3>2. "modify" \in ItemKind /\ -q[1].n \in Int
      BY <2>1 DEF ItemKind, UserKind
    <3> QED
      BY <2>1, <2>2, <3>1, <3>2 DEF Item
  <2> PICK r : r = <<m>> \o Tail(q)
    OBVIOUS
  <2>4. Len(r) = Len(q) /\ r[1] = m /\ (\A i \in 2..Len(q) : r[i] = q[i]) /\ r \in Seq(Item) /\ Len(q) \in Nat
    BY <2>1, <2>3, HeadSeq
  <2>5. queue' = r
    OBVIOUS
  <2>6. q[1].n < 0 /\ Num(m) = Num(q[1]) /\ Num(q[1]) = m.n
    <3> PICK x : x = q[1]
      OBVIOUS
    <3>1. x.kind = "query" /\ ItemOK(x) /\ x.n \in Int /\ m.n = -x.n
      BY <2>1, <2>3
    <3>2. x.n < 0
      BY <3>1 DEF ItemOK, UserKind
    <3> QED
      BY <3>1, <3>2 DEF Num
  <2>7. NoFurther(m, q[1]) /\ \A x : NoFurther(x, x)
    <3>1. \A D : IdsLeft(D, ch) = D
      BY <2>2, InPlaceIds DEF InPlaceOps
    <3>2. \A A, B : Goes(A, m, B) => Goes(A, q[1], B)
      BY <2>1, <2>3, <3>1 DEF Goes
    <3> QED
      BY <2>6, <3>2 DEF NoFurther
  <2>8. \A i \in 1..Len(q) : NoFurther(r[i], q[i]) /\ SentBatch(r[i].changes)
    <3> TAKE i \in 1..Len(q)
    <3>1. SentBatch(q[i].changes) /\ (i = 1 \/ i \in 2..Len(q))
      BY <2>4 DEF HistoryInvariant
    <3>2. SentBatch(m.changes)
      BY <2>2, <2>3 DEF SentBatch
    <3> QED
      BY <2>4, <2>7, <3>1, <3>2
  <2>9. Gone(r, served) = Gone(q, served)
    <3>1. Gone(q, served) = 0
      BY <2>1 DEF Gone, HeadServed
    <3>2. ~HeadServed(r, served)
      <4> SUFFICES ASSUME NEW k \in 1..Len(served), served[k] = m.n PROVE FALSE
        BY <2>4 DEF HeadServed
      <4>1. q[1].by # "watch" /\ 1 \in 1..Len(q)
        BY <2>1 DEF ItemOK
      <4>2. served[k] < Num(q[1])
        BY <2>1, <4>1, HistoryFacts DEF QueueOK, Used
      <4>3. served[k] \in Nat
        BY HistoryFacts
      <4> QED
        BY <2>6, <4>2, <4>3
    <3> QED
      BY <3>1, <3>2 DEF Gone
  <2> QED
    BY <1>1, <1>6, <2>4, <2>5, <2>8, <2>9, HistorySame
<1> QED
  BY <1>7, <1>8 DEF Receive, ReceiveNothing

LEMMA AdoptKeepsHistory ==
  ASSUME PageInvariant, PageInvariant', HistoryInvariant, Adopt
  PROVE  HistoryInvariant'
<1>1. queue # <<>> /\ queue' = Tail(queue) /\ UNCHANGED <<file, log, issued, served>> /\ IsEditor(ed)
  BY HistoryFacts DEF Adopt, gatewayVars
<1> PICK b : b = TRUE
  OBVIOUS
<1>2. ed' = ed \/ ed' = [ed EXCEPT !.readOnly = b] \/ ed' = ShowSnapshot(ed, news[1], "Synchronized")
  BY DEF Adopt
<1> PICK f : f = [ed EXCEPT !.readOnly = b]
  OBVIOUS
<1>3. Alike(f, ed)
  BY <1>1 DEF IsEditor, Alike, SameHistory
<1>4. Alike(ed', ed)
  BY <1>1, <1>2, <1>3, StacksKept
<1> QED
  BY <1>1, <1>4, HistoryTail

LEMMA GestureKeepsHistory ==
  ASSUME PageInvariant, PageInvariant', HistoryInvariant, Gesture
  PROVE  HistoryInvariant'
<1>1. PlainList(ed.cells)
  <2>1. ed.rev \in 1..Len(log) /\ ed.cells = log[ed.rev]
    BY DEF PageInvariant, SeenOK
  <2> QED
    BY <2>1 DEF HistoryInvariant, PlainLog
<1>2. DataOK /\ StacksOK(ed)
  BY DEF PageInvariant, HistoryInvariant
<1>3. CASE Type
  BY <1>3, RunKeepsHistory
<1>4. CASE RequestTool
  BY <1>4, RequestKeepsHistory
<1>5. CASE \E e \in Carried(ed) : Frame(e) /\ Untouched
  BY <1>5, FrameKeepsHistory
<1> QED
  BY <1>1, <1>2, <1>3, <1>4, <1>5, GestureCarries

LEMMA HistoryStarts ==
  ASSUME PageInit
  PROVE  HistoryInvariant
<1>1. /\ queue = <<>> /\ served = <<>> /\ log = <<file>> /\ UniqueIds(file)
      /\ session.opened \in Nat /\ file \in [1..session.opened -> {NewCell(id) : id \in CellId}]
  BY PageAssumption DEF PageInit
<1>2. ed.undo = <<>> /\ ed.redo = <<>> /\ ed.outbound = <<>>
  BY DEF PageInit, NewEditor
<1> PICK f : f = file
  OBVIOUS
<1>3. PlainList(f)
  <2>1. \A id \in CellId : NewCell(id) \in PlainCell
    <3>1. Start \in Source
      BY CellsAssumption DEF Start
    <3> QED
      BY <3>1, CellsAssumption DEF NewCell, Cell, NoOutput, PlainCell
  <2>2. f \in [1..session.opened -> PlainCell]
    BY <1>1, <2>1
  <2>3. f \in Seq(PlainCell)
    BY <1>1, <2>2
  <2> QED
    BY <1>1, <2>3 DEF PlainList
<1>4. PlainLog(file, log)
  <2> PICK l : l = <<f>>
    OBVIOUS
  <2>1. f \in Cells
    BY <1>3, PlainTyped
  <2>2. l \in Seq(Cells) /\ Len(l) = 1 /\ l[1] = f
    BY <2>1
  <2>3. \A r \in 1..Len(l) : PlainList(l[r])
    BY <1>3, <2>2
  <2>4. PlainLog(f, l)
    BY <1>3, <2>2, <2>3 DEF PlainLog
  <2> QED
    BY <1>1, <2>4
<1>5. StacksOK(ed)
  BY <1>2 DEF StacksOK
<1>6. HeldAhead(ed, Ids(file), queue, issued, served)
  <2> SUFFICES ASSUME NEW V \in IdSet PROVE Held(ed, V)
    BY DEF HeldAhead
  <2> QED
    BY <1>2, ReplaysNone DEF Held
<1>7. Len(queue) = 0 /\ Len(served) = 0
  BY <1>1
<1> QED
  BY <1>4, <1>5, <1>6, <1>7 DEF HistoryInvariant

\* The history can be replayed in every reachable state.
THEOREM HistoryInvariantHolds == PageSpec => []HistoryInvariant
<1>1. PageInit => HistoryInvariant
  BY HistoryStarts
<1>2. ASSUME PageInvariant, PageInvariant', HistoryInvariant, [PageNext]_allVars
      PROVE  HistoryInvariant'
  <2>1. CASE Gesture
    BY <1>2, <2>1, GestureKeepsHistory
  <2>2. CASE Send
    BY <1>2, <2>2, SendKeepsHistory
  <2>3. CASE Serve
    BY <1>2, <2>3, ServeKeepsHistory
  <2>4. CASE Receive \/ ReceiveNothing
    BY <1>2, <2>4, ReceiveKeepsHistory
  <2>5. CASE Adopt
    BY <1>2, <2>5, AdoptKeepsHistory
  <2>6. CASE Output
    BY <1>2, <2>6, OutputKeepsHistory
  <2>7. CASE Finish \/ FailRun \/ Lose \/ UNCHANGED allVars
    BY <1>2, <2>7, RunKeepsHistory
  <2>8. CASE ForeignWrite \/ ForeignClaim \/ ForeignCommit
    BY <1>2, <2>8, ForeignKeepsHistory
  <2>9. CASE Watch
    BY <1>2, <2>9, WatchKeepsHistory
  <2> QED
    BY <1>2, <2>1, <2>2, <2>3, <2>4, <2>5, <2>6, <2>7, <2>8, <2>9 DEF PageNext, Progress, Others
<1> QED
  BY <1>1, <1>2, PageInvariantHolds, PTL DEF PageSpec

\* n increasing numbers from 1 to n are all of them.
LEMMA AllServed ==
  ASSUME NEW n \in Nat, NEW d \in Seq(Nat), Len(d) = n,
         \A k \in 1..n : d[k] >= 1 /\ d[k] <= n,
         \A i, j \in 1..n : i < j => d[i] < d[j]
  PROVE  \A m \in 1..n : d[m] = m
<1>0. \A k \in 1..n : d[k] \in Nat
  OBVIOUS
<1> DEFINE A == {k \in Nat : k \in 1..n => d[k] >= k}
           B == {k \in Nat : n - k \in 1..n => d[n - k] <= n - k}
<1>1. \A k \in Nat : k \in A
  <2>1. 0 \in A
    OBVIOUS
  <2>2. ASSUME NEW k \in Nat, k \in A PROVE k + 1 \in A
    <3> SUFFICES ASSUME k + 1 \in 1..n PROVE d[k + 1] >= k + 1
      OBVIOUS
    <3>1. CASE k = 0
      BY <3>1
    <3>2. CASE k # 0
      <4>1. k \in 1..n /\ k < k + 1
        BY <3>2
      <4>2. d[k] < d[k + 1] /\ d[k] >= k
        BY <2>2, <4>1
      <4> QED
        BY <1>0, <4>1, <4>2
    <3> QED
      BY <3>1, <3>2
  <2> HIDE DEF A
  <2> QED
    BY <2>1, <2>2, Induction
<1>2. \A k \in Nat : k \in B
  <2>1. 0 \in B
    OBVIOUS
  <2>2. ASSUME NEW k \in Nat, k \in B PROVE k + 1 \in B
    <3> PICK i : i = n - (k + 1)
      OBVIOUS
    <3> SUFFICES ASSUME i \in 1..n PROVE d[i] <= i
      OBVIOUS
    <3>1. i + 1 = n - k /\ i + 1 \in 1..n /\ i < i + 1
      OBVIOUS
    <3>2. d[i] < d[i + 1] /\ d[i + 1] <= i + 1
      BY <2>2, <3>1
    <3> QED
      BY <1>0, <3>1, <3>2
  <2> HIDE DEF B
  <2> QED
    BY <2>1, <2>2, Induction
<1> TAKE m \in 1..n
<1>3. m \in Nat /\ n - m \in Nat /\ n - (n - m) = m
  OBVIOUS
<1>4. d[m] >= m
  BY <1>1, <1>3
<1>5. d[m] <= m
  <2> PICK k \in Nat : k = n - m
    BY <1>3
  <2>1. k \in B
    BY <1>2
  <2> QED
    BY <1>3, <2>1
<1> QED
  BY <1>0, <1>4, <1>5

\* Undo follows the notebook: while every modification was committed and shown,
\* whatever was typed, copied, moved, deleted, undone and redone before, and
\* whatever others wrote into the cells, the batch on top of the undo stack can
\* be applied to the cells that are shown.
THEOREM UndoAppliesHolds == PageSpec => []UndoApplies
<1>1. ASSUME PageInvariant, HistoryInvariant PROVE UndoApplies
  <2> SUFFICES ASSUME queue = <<>>, Len(served) = issued, ed.rev = Rev, ed.undo # <<>>,
                      Last(ed.undo) # <<>>
               PROVE  Proposal(ed.cells, Last(ed.undo)).ok
    BY DEF UndoApplies
  <2> PICK d : d = ed
    OBVIOUS
  <2> PICK q : q = queue
    OBVIOUS
  <2> PICK done : done = served
    OBVIOUS
  <2> PICK n : n = issued
    OBVIOUS
  <2> PICK D : D = Ids(file)
    OBVIOUS
  <2>1. /\ n \in Nat /\ done \in Seq(Nat) /\ Len(done) = n /\ D \in IdSet /\ Len(q) = 0
        /\ \A k \in 1..n : done[k] >= 1 /\ done[k] <= n
        /\ \A i, j \in 1..n : i < j => done[i] < done[j]
    BY <1>1, HistoryFacts DEF HistoryInvariant, QueueOK, Used
  <2>2. Whole(q, n, done)
    BY <2>1, AllServed DEF Whole
  <2>3. Gone(q, done) = 0
    BY DEF Gone, HeadServed
  <2>4. Held(d, D)
    <3>1. Leads(D, q, 0, D)
      BY <2>1, LeadsNone
    <3>2. HeldAhead(d, D, q, n, done)
      BY <1>1 DEF HistoryInvariant
    <3> QED
      BY <2>1, <2>2, <2>3, <3>1, <3>2 DEF HeldAhead
  <2>5. D = Ids(d.cells) /\ PlainList(d.cells) /\ d.undo \in Seq(History)
    <3>1. d.cells = log[d.rev] /\ d.rev = Len(log)
      BY <1>1 DEF PageInvariant, SeenOK
    <3> QED
      BY <1>1, <3>1 DEF HistoryInvariant, PlainLog, StacksOK
  <2> PICK st : st = d.undo
    OBVIOUS
  <2> PICK b : b = Last(st)
    OBVIOUS
  <2>6. b \in History /\ st \in Seq(Changes)
    <3>1. \A x \in History : x \in Changes
      BY DEF History
    <3>2. Last(st) \in History
      BY <2>5, StackTop
    <3> HIDE DEF History
    <3> QED
      BY <2>5, <3>1, <3>2
  <2>7. CanApply(D, b)
    BY <2>4, <2>6, ReplaysTop DEF Held
  <2>8. Proposal(d.cells, b).ok
    BY <2>5, <2>6, <2>7, Replays DEF History
  <2> QED
    BY <2>8
<1> QED
  BY <1>1, PageInvariantHolds, HistoryInvariantHolds, PTL

-----------------------------------------------------------------------------
(* Completions. *)

Chars == Bytes \cup {Match}

\* The number of bytes before each character.
IsCounting(w, text, n) ==
  /\ w \in [0..n -> Nat] /\ w[0] = 0
  /\ \A k \in 1..n : w[k] = w[k - 1] + Width(text[k])

LEMMA CountingChain ==
  ASSUME NEW list, NEW n \in Nat, DOMAIN list = 1..n, \A k \in 1..n : Width(list[k]) \in Nat
  PROVE  \E w : IsCounting(w, list, n) /\ w[n] = FoldLeft(Passed, 0, list)
<1> DEFINE start == 0
           Body(r, x) == Passed(r, x)
           step == [k \in 1..n |-> [r \in Nat |-> Body(r, list[k])]]
           Eq(g) == g = [s \in SUBSET DOMAIN list |->
                           IF s = {} THEN start
                           ELSE LET x == Max(s) IN Body(g[s \ {x}], list[x])]
           iter == CHOOSE g : Eq(g)
<1>0. \A k \in 1..n : \A r \in Nat : Body(r, list[k]) \in Nat
  BY DEF Passed
<1>1. step \in [1..n -> [Nat -> Nat]] /\ start \in Nat
  BY <1>0
<1>2. \A k \in 1..n : \A r \in Nat : step[k][r] = Body(r, list[k])
  OBVIOUS
<1>3. \A s \in SUBSET (1..n) : s # {} => Max(s) \in 1..n /\ s \ {Max(s)} \in SUBSET (1..n)
  BY LastIndex
<1> HIDE DEF step, start, Body
<1>4. PICK h : h \in [SUBSET (1..n) -> Nat] /\ IsFold(h, n, Nat, start, step)
  BY <1>1, FoldExists
<1>5. \A s \in SUBSET (1..n) :
        h[s] = IF s = {} THEN start ELSE Body(h[s \ {Max(s)}], list[Max(s)])
  BY <1>2, <1>3, <1>4 DEF IsFold
<1>6. Eq(h)
  BY <1>4, <1>5
<1> HIDE DEF Eq
<1>7. Eq(iter)
  BY <1>6
<1> HIDE DEF iter
<1>8. \A s \in SUBSET (1..n) :
        iter[s] = IF s = {} THEN start ELSE Body(iter[s \ {Max(s)}], list[Max(s)])
  BY <1>7 DEF Eq
<1>9. IsFold(iter, n, Nat, start, step)
  BY <1>2, <1>3, <1>8 DEF IsFold
<1>10. PICK chain : IsChain(chain, n, Nat, start, step, iter[1..n])
  BY <1>1, <1>9, FoldChain
<1>11. iter[DOMAIN list] = FoldLeft(Passed, 0, list)
  BY DEF iter, Eq, Body, start, FoldLeft, MapThenFoldSet
<1>12. chain \in [0..n -> Nat] /\ chain[0] = start /\ chain[n] = iter[1..n]
  BY <1>10 DEF IsChain
<1>13. \A k \in 1..n : chain[k] = Body(chain[k - 1], list[k])
  <2> TAKE k \in 1..n
  <2>1. chain[k - 1] \in Nat
    BY <1>12
  <2>2. chain[k] = step[k][chain[k - 1]]
    BY <1>10 DEF IsChain
  <2> QED
    BY <1>2, <2>1, <2>2
<1>14. IsCounting(chain, list, n)
  BY <1>12, <1>13 DEF IsCounting, start, Body, Passed
<1> QED
  BY <1>11, <1>12, <1>14

\* ByteOf counts the bytes of the first i characters.
LEMMA ByteCount ==
  ASSUME NEW text \in Seq(Chars)
  PROVE  \E w : /\ IsCounting(w, text, Len(text))
                /\ \A i \in 0..Len(text) : ByteOf(text, i) = w[i]
<1> DEFINE n == Len(text)
<1>1. n \in Nat /\ DOMAIN text = 1..n /\ \A k \in 1..n : text[k] \in Chars
  OBVIOUS
<1>2. \A ch \in Chars : Width(ch) \in Nat
  BY CompletionAssumption DEF Chars, Width
<1>3. PICK w : IsCounting(w, text, n)
  BY <1>1, <1>2, CountingChain
<1>4. ASSUME NEW i \in 0..n PROVE ByteOf(text, i) = w[i]
  <2> DEFINE part == SubSeq(text, 1, i)
  <2>1. DOMAIN part = 1..i /\ \A k \in 1..i : part[k] = text[k]
    BY <1>1
  <2>2. \A k \in 1..i : Width(part[k]) \in Nat
    BY <1>1, <1>2, <2>1
  <2> HIDE DEF part
  <2>3. PICK v : IsCounting(v, part, i) /\ v[i] = FoldLeft(Passed, 0, part)
    BY <1>1, <2>1, <2>2, CountingChain
  <2> DEFINE A == {k \in Nat : k <= i => v[k] = w[k]}
  <2>4. 0 \in A
    BY <1>3, <2>3 DEF IsCounting
  <2>5. ASSUME NEW k \in Nat, k \in A PROVE k + 1 \in A
    <3> SUFFICES ASSUME k + 1 <= i PROVE v[k + 1] = w[k + 1]
      OBVIOUS
    <3>1. k + 1 \in 1..i /\ k + 1 \in 1..n /\ (k + 1) - 1 = k /\ v[k] = w[k]
      BY <1>1, <2>5
    <3>2. v[k + 1] = v[k] + Width(part[k + 1]) /\ w[k + 1] = w[k] + Width(text[k + 1])
      BY <1>3, <2>3, <3>1 DEF IsCounting
    <3> QED
      BY <2>1, <3>1, <3>2
  <2> HIDE DEF A
  <2>6. i \in A
    BY <1>1, <2>4, <2>5, Induction
  <2> QED
    BY <2>3, <2>6 DEF A, part, ByteOf
<1> QED
  BY <1>3, <1>4

\* Positions in bytes are positions in characters when there are as many bytes
\* as characters.
LEMMA BytesAreCharacters ==
  ASSUME NEW text \in Seq(Chars), Size(text) = Len(text)
  PROVE  \A i \in 0..Len(text) : ByteOf(text, i) = i
<1> DEFINE n == Len(text)
<1>1. n \in Nat /\ \A k \in 1..n : text[k] \in Chars
  OBVIOUS
<1>2. \A ch \in Chars : Width(ch) \in Nat /\ Width(ch) >= 1
  BY CompletionAssumption DEF Chars, Width
<1>3. PICK w : IsCounting(w, text, n) /\ \A i \in 0..n : ByteOf(text, i) = w[i]
  BY ByteCount
<1>4. w \in [0..n -> Nat] /\ w[0] = 0 /\ w[n] = n
  BY <1>1, <1>3 DEF IsCounting, Size
<1>5. \A k \in 1..n : w[k] >= w[k - 1] + 1
  <2> TAKE k \in 1..n
  <2>1. w[k] = w[k - 1] + Width(text[k]) /\ Width(text[k]) \in Nat /\ Width(text[k]) >= 1
    BY <1>1, <1>2, <1>3 DEF IsCounting
  <2>2. w[k - 1] \in Nat
    BY <1>4
  <2> QED
    BY <2>1, <2>2
<1> HIDE DEF n
<1> DEFINE A == {k \in Nat : k <= n => w[k] >= k}
           B == {k \in Nat : k <= n => w[n - k] <= n - k}
<1>6. \A k \in Nat : k \in A
  <2>1. 0 \in A
    BY <1>1, <1>4
  <2>2. ASSUME NEW k \in Nat, k \in A PROVE k + 1 \in A
    <3> SUFFICES ASSUME k + 1 <= n PROVE w[k + 1] >= k + 1
      OBVIOUS
    <3>1. k + 1 \in 1..n /\ (k + 1) - 1 = k /\ k \in 0..n /\ k + 1 \in 0..n
      BY <1>1
    <3>2. w[k + 1] >= w[k] + 1 /\ w[k] >= k /\ w[k] \in Nat /\ w[k + 1] \in Nat
      BY <1>1, <1>4, <1>5, <2>2, <3>1
    <3> QED
      BY <3>2
  <2> HIDE DEF A
  <2> QED
    BY <2>1, <2>2, Induction
<1>7. \A k \in Nat : k \in B
  <2>1. 0 \in B
    BY <1>1, <1>4
  <2>2. ASSUME NEW k \in Nat, k \in B PROVE k + 1 \in B
    <3> SUFFICES ASSUME k + 1 <= n PROVE w[n - (k + 1)] <= n - (k + 1)
      OBVIOUS
    <3>1. n - k \in 1..n /\ (n - k) - 1 = n - (k + 1) /\ n - k \in 0..n /\ n - (k + 1) \in 0..n
      BY <1>1
    <3>2. w[n - k] >= w[n - (k + 1)] + 1 /\ w[n - k] <= n - k /\ w[n - k] \in Nat
          /\ w[n - (k + 1)] \in Nat
      BY <1>1, <1>4, <1>5, <2>2, <3>1
    <3> QED
      BY <1>1, <3>2
  <2> HIDE DEF B
  <2> QED
    BY <2>1, <2>2, Induction
<1>8. ASSUME NEW i \in 0..n PROVE w[i] = i
  <2>1. i \in Nat /\ n - i \in Nat /\ n - i <= n /\ i <= n /\ n - (n - i) = i /\ w[i] \in Nat
    BY <1>1, <1>4
  <2>2. w[i] >= i
    BY <1>6, <2>1
  <2>3. w[i] <= i
    <3>1. n - i \in B
      BY <1>7, <2>1
    <3> QED
      BY <2>1, <3>1
  <2> QED
    BY <2>1, <2>2, <2>3
<1> QED
  BY <1>3, <1>8 DEF n

-----------------------------------------------------------------------------
(* What is asked and answered. *)

EditorsOK ==
  /\ editor \in [Field -> Seq(Chars)] /\ caret \in [Field -> Nat]
  /\ \A c \in Field : caret[c] <= Len(editor[c])
  /\ due \subseteq Field

\* A request is known by its number, which is one cell's.
AskedOK ==
  /\ asked \in Nat
  /\ requests \in Seq([id : Nat, code : Seq(Chars), cursor : Nat])
  /\ pending \subseteq [id : 1..asked, cell : Field]
  /\ \A p, q \in pending : p.id = q.id => p = q

\* A popup shows what was meant for its cell.
Means(m, c, r) ==
  /\ m.cell = c /\ m.code \in Seq(Chars)
  /\ r.start = m.start /\ r.end = m.end
  /\ m.start \in Nat /\ m.end \in Nat /\ m.start <= m.end /\ m.end <= Len(m.code)
MeantOK ==
  /\ DOMAIN suggestion = Field /\ DOMAIN meant = Field
  /\ \A c \in Field : \A r \in suggestion[c] : Means(meant[c], c, r)

CompletionInvariant == EditorsOK /\ AskedOK /\ MeantOK /\ ReplacesKernelRange

\* A text with one character in the place of those after i up to j.
Spliced(text, i, x, j) == SubSeq(text, 1, i) \o <<x>> \o SubSeq(text, j + 1, Len(text))

LEMMA SplicedSeq ==
  ASSUME NEW text \in Seq(Chars), NEW x \in Chars, NEW i \in 0..Len(text), NEW j \in 0..Len(text)
  PROVE  /\ Spliced(text, i, x, j) \in Seq(Chars)
         /\ Len(Spliced(text, i, x, j)) = i + 1 + (Len(text) - j)
<1> DEFINE a == SubSeq(text, 1, i)
           b == SubSeq(text, j + 1, Len(text))
<1>1. a \in Seq(Chars) /\ Len(a) = i /\ b \in Seq(Chars) /\ Len(b) = Len(text) - j
  OBVIOUS
<1>2. <<x>> \in Seq(Chars) /\ Len(<<x>>) = 1
  OBVIOUS
<1> HIDE DEF a, b
<1>3. a \o <<x>> \in Seq(Chars) /\ Len(a \o <<x>>) = i + 1
  BY <1>1, <1>2, JoinedSeq
<1> DEFINE ax == a \o <<x>>
<1> HIDE DEF ax
<1>4. ax \o b \in Seq(Chars) /\ Len(ax \o b) = Len(ax) + Len(b)
  BY <1>1, <1>3, JoinedSeq DEF ax
<1> QED
  BY <1>1, <1>3, <1>4 DEF a, b, ax, Spliced

LEMMA CompletionStarts == CompletionInit => CompletionInvariant
<1> SUFFICES ASSUME CompletionInit PROVE CompletionInvariant
  OBVIOUS
<1>1. EditorsOK
  BY DEF CompletionInit, EditorsOK
<1>2. AskedOK
  BY DEF CompletionInit, AskedOK
<1>3. MeantOK
  BY DEF CompletionInit, MeantOK
<1>4. ReplacesKernelRange
  BY DEF CompletionInit, ReplacesKernelRange
<1> QED
  BY <1>1, <1>2, <1>3, <1>4 DEF CompletionInvariant

LEMMA SameAccepted ==
  ASSUME CompletionInvariant, UNCHANGED accepted
  PROVE  ReplacesKernelRange'
BY DEF CompletionInvariant, ReplacesKernelRange, ReplacedAsMeant

LEMMA TypeTextStep ==
  ASSUME CompletionInvariant, NEW c \in Field, NEW ch \in Bytes, TypeText(c, ch)
  PROVE  CompletionInvariant'
<1> DEFINE text == Spliced(editor[c], caret[c], ch, caret[c])
<1>1. editor[c] \in Seq(Chars) /\ caret[c] \in 0..Len(editor[c]) /\ ch \in Chars
  BY DEF CompletionInvariant, EditorsOK, Chars
<1>2. text \in Seq(Chars) /\ Len(text) = Len(editor[c]) + 1
  BY <1>1, SplicedSeq
<1>3. editor' = [editor EXCEPT ![c] = text]
  BY DEF TypeText, Spliced
<1> HIDE DEF text
<1>4. EditorsOK'
  <2>0. caret' = [caret EXCEPT ![c] = caret[c] + 1] /\ caret[c] + 1 \in Nat
        /\ due' = due \cup {c}
    BY DEF CompletionInvariant, EditorsOK, TypeText
  <2>1. editor' \in [Field -> Seq(Chars)] /\ caret' \in [Field -> Nat] /\ due' \subseteq Field
    BY <1>2, <1>3, <2>0 DEF CompletionInvariant, EditorsOK
  <2>2. ASSUME NEW d \in Field PROVE caret'[d] <= Len(editor'[d])
    <3>1. CASE d = c
      BY <3>1, <1>1, <1>2, <1>3 DEF CompletionInvariant, EditorsOK, TypeText
    <3>2. CASE d # c
      BY <3>2, <1>3 DEF CompletionInvariant, EditorsOK, TypeText
    <3> QED
      BY <3>1, <3>2
  <2> QED
    BY <2>1, <2>2 DEF EditorsOK
<1>5. AskedOK'
  BY DEF CompletionInvariant, AskedOK, TypeText
<1>6. MeantOK'
  BY DEF CompletionInvariant, MeantOK, TypeText
<1> QED
  BY <1>4, <1>5, <1>6, SameAccepted DEF CompletionInvariant, TypeText

LEMMA MoveCaretStep ==
  ASSUME CompletionInvariant, NEW c \in Field, MoveCaret(c)
  PROVE  CompletionInvariant'
<1>1. PICK i \in 0..Len(editor[c]) : caret' = [caret EXCEPT ![c] = i]
  BY DEF MoveCaret
<1>2. Len(editor[c]) \in Nat
  BY DEF CompletionInvariant, EditorsOK
<1>3. EditorsOK'
  BY <1>1, <1>2 DEF CompletionInvariant, EditorsOK, MoveCaret
<1>4. AskedOK'
  BY DEF CompletionInvariant, AskedOK, MoveCaret
<1>5. MeantOK'
  BY DEF CompletionInvariant, MeantOK, MoveCaret
<1> QED
  BY <1>3, <1>4, <1>5, SameAccepted DEF CompletionInvariant, MoveCaret

LEMMA AskStep ==
  ASSUME CompletionInvariant, NEW c \in Field, Ask(c)
  PROVE  CompletionInvariant'
<1>1. EditorsOK'
  BY DEF CompletionInvariant, EditorsOK, Ask
<1>2. MeantOK'
  BY DEF CompletionInvariant, MeantOK, Ask
<1>3. AskedOK'
  <2>1. CASE UNCHANGED <<asked, pending, requests>>
    BY <2>1 DEF CompletionInvariant, AskedOK
  <2>2. CASE ~UNCHANGED <<asked, pending, requests>>
    <3> DEFINE p == [id |-> asked + 1, cell |-> c]
               at == ByteOf(editor[c], caret[c])
               m == [id |-> asked + 1, code |-> editor[c], cursor |-> at]
    <3>1. asked' = asked + 1 /\ pending' = pending \cup {p} /\ requests' = Append(requests, m)
      BY <2>2 DEF Ask
    <3>2. asked \in Nat /\ requests \in Seq([id : Nat, code : Seq(Chars), cursor : Nat])
          /\ pending \subseteq [id : 1..asked, cell : Field]
          /\ \A r, q \in pending : r.id = q.id => r = q
      BY DEF CompletionInvariant, AskedOK
    <3>3. at \in Nat
      <4>1. editor[c] \in Seq(Chars) /\ caret[c] \in 0..Len(editor[c])
        BY DEF CompletionInvariant, EditorsOK
      <4>2. PICK w : IsCounting(w, editor[c], Len(editor[c]))
                     /\ \A i \in 0..Len(editor[c]) : ByteOf(editor[c], i) = w[i]
        BY <4>1, ByteCount
      <4> QED
        BY <4>1, <4>2 DEF IsCounting
    <3> HIDE DEF at
    <3>4. m \in [id : Nat, code : Seq(Chars), cursor : Nat]
      BY <3>2, <3>3 DEF CompletionInvariant, EditorsOK
    <3>5. requests' \in Seq([id : Nat, code : Seq(Chars), cursor : Nat])
      BY <3>1, <3>2, <3>4
    <3>6. pending' \subseteq [id : 1..asked', cell : Field]
      BY <3>1, <3>2
    <3>7. \A r \in pending : r.id # asked + 1
      BY <3>2
    <3>8. \A r, q \in pending' : r.id = q.id => r = q
      BY <3>1, <3>2, <3>7
    <3> QED
      BY <3>1, <3>2, <3>5, <3>6, <3>8 DEF AskedOK
  <2> QED
    BY <2>1, <2>2
<1> QED
  BY <1>1, <1>2, <1>3, SameAccepted DEF CompletionInvariant, Ask

LEMMA SuggestStep ==
  ASSUME CompletionInvariant, Suggest
  PROVE  CompletionInvariant'
<1> DEFINE Requests == [id : Nat, code : Seq(Chars), cursor : Nat]
           m == Head(requests)
<1>1. EditorsOK'
  BY DEF CompletionInvariant, EditorsOK, Suggest
<1>2. requests \in Seq(Requests) /\ requests # <<>> /\ requests' = Tail(requests)
  BY DEF CompletionInvariant, AskedOK, Suggest
<1>3. requests' \in Seq(Requests) /\ m \in Requests
  <2> HIDE DEF Requests
  <2>1. requests' \in Seq(Requests)
    BY <1>2, TailSeq
  <2>2. Head(requests) \in Requests
    BY <1>2
  <2> QED
    BY <2>1, <2>2
<1> HIDE DEF m
<1>4. pending' \subseteq pending
  BY DEF Suggest
<1>5. AskedOK'
  BY <1>3, <1>4 DEF CompletionInvariant, AskedOK, Suggest
<1>6. MeantOK'
  <2>1. CASE UNCHANGED <<pending, suggestion, meant>>
    BY <2>1 DEF CompletionInvariant, MeantOK
  <2>2. CASE ~UNCHANGED <<pending, suggestion, meant>>
    <3> DEFINE Asker == CHOOSE d \in Field : \E p \in pending : p.id = m.id /\ p.cell = d
    <3>1. PICK r \in Ranges(m), c \in For(m.id) :
            /\ suggestion' = [suggestion EXCEPT ![c] = {r}]
            /\ meant' = [meant EXCEPT ![c] =
                 [cell |-> Asker, code |-> m.code, start |-> r.start, end |-> r.end]]
      BY <2>2 DEF Suggest, m
    <3>2. PICK p \in pending : p.id = m.id /\ p.cell = c
      BY <3>1 DEF For
    <3>3. c \in Field /\ Asker = c
      <4>1. \A q \in pending : q.id = m.id => q.cell = c
        BY <3>2 DEF CompletionInvariant, AskedOK
      <4>2. c \in Field
        BY <3>2 DEF CompletionInvariant, AskedOK
      <4> QED
        BY <3>2, <4>1, <4>2
    <3> HIDE DEF Asker
    <3>4. /\ r.start \in Nat /\ r.end \in Nat /\ r.start <= r.end /\ r.end <= Len(m.code)
          /\ m.code \in Seq(Chars)
      BY <1>3, <3>1 DEF Ranges
    <3>5. ASSUME NEW d \in Field, NEW q \in suggestion'[d] PROVE Means(meant'[d], d, q)
      <4>1. CASE d = c
        BY <4>1, <3>1, <3>3, <3>4 DEF Means, CompletionInvariant, MeantOK
      <4>2. CASE d # c
        BY <4>2, <3>1, <3>3 DEF Means, CompletionInvariant, MeantOK
      <4> QED
        BY <4>1, <4>2
    <3>6. DOMAIN suggestion' = Field /\ DOMAIN meant' = Field
      BY <3>1 DEF CompletionInvariant, MeantOK
    <3> QED
      BY <3>5, <3>6 DEF MeantOK
  <2> QED
    BY <2>1, <2>2
<1> QED
  BY <1>1, <1>5, <1>6, SameAccepted DEF CompletionInvariant, Suggest

LEMMA CloseStep ==
  ASSUME CompletionInvariant, NEW c \in Field, Close(c)
  PROVE  CompletionInvariant'
<1>1. EditorsOK'
  BY DEF CompletionInvariant, EditorsOK, Close
<1>2. AskedOK'
  BY DEF CompletionInvariant, AskedOK, Close
<1>3. MeantOK'
  BY DEF CompletionInvariant, MeantOK, Close
<1> QED
  BY <1>1, <1>2, <1>3, SameAccepted DEF CompletionInvariant, Close

\* What is accepted replaces the range it was meant for in a text of one byte a
\* character; the editors keep their type in any text.
LEMMA AcceptStep ==
  ASSUME CompletionInvariant, NEW c \in Field, Accept(c)
  PROVE  CompletionInvariant'
<1> PICK text : text = editor[c]
  OBVIOUS
<1>0. text \in Seq(Chars) /\ Len(text) \in Nat
  BY DEF CompletionInvariant, EditorsOK
<1> PICK r \in suggestion[c] :
       LET start == Least(r.start, Size(text))
           end == IF Least(r.end, Size(text)) < start THEN start ELSE Least(r.end, Size(text))
       IN IF {start, end} \subseteq Boundaries(text)
          THEN LET from == CharAt(text, start)
                   new == Replaced(text, from, CharAt(text, end))
               IN /\ editor' = [editor EXCEPT ![c] = new]
                  /\ caret' = [caret EXCEPT ![c] = from + 1]
                  /\ accepted' = [cell |-> c, meant |-> meant[c], text |-> text, new |-> new]
          ELSE UNCHANGED <<editor, caret, accepted>>
  BY DEF Accept
<1> DEFINE start == Least(r.start, Size(text))
           end == IF Least(r.end, Size(text)) < start THEN start ELSE Least(r.end, Size(text))
           from == CharAt(text, start)
           to == CharAt(text, end)
           new == Replaced(text, from, to)
           done == [cell |-> c, meant |-> meant[c], text |-> text, new |-> new]
<1>1. AskedOK'
  BY DEF CompletionInvariant, AskedOK, Accept
<1>2. MeantOK'
  BY DEF CompletionInvariant, MeantOK, Accept
<1>3. due' = due /\ Means(meant[c], c, r)
  BY DEF Accept, CompletionInvariant, MeantOK
<1>4. CASE ~({start, end} \subseteq Boundaries(text))
  <2>1. UNCHANGED <<editor, caret, accepted>>
    BY <1>4
  <2>2. EditorsOK'
    BY <1>3, <2>1 DEF CompletionInvariant, EditorsOK
  <2> QED
    BY <1>1, <1>2, <2>1, <2>2, SameAccepted DEF CompletionInvariant
<1>5. CASE {start, end} \subseteq Boundaries(text)
  <2>1. editor' = [editor EXCEPT ![c] = new] /\ caret' = [caret EXCEPT ![c] = from + 1] /\ accepted' = done
    BY <1>5
  <2>2. from \in 0..Len(text) /\ to \in 0..Len(text)
    <3>1. (\E i \in 0..Len(text) : ByteOf(text, i) = start)
          /\ (\E i \in 0..Len(text) : ByteOf(text, i) = end)
      <4> HIDE DEF start, end
      <4> QED
        BY <1>5 DEF Boundaries
    <3> HIDE DEF start, end
    <3> QED
      BY <3>1 DEF CharAt
  <2>3. ASSUME text = meant[c].code, Size(text) = Len(text)
        PROVE  new = Replaced(meant[c].code, meant[c].start, meant[c].end)
    <3>1. /\ r.start = meant[c].start /\ r.end = meant[c].end
          /\ r.start \in 0..Len(text) /\ r.end \in 0..Len(text) /\ r.start <= r.end
      BY <1>0, <1>3, <2>3 DEF Means
    <3>2. start = r.start /\ end = r.end
      BY <1>0, <2>3, <3>1 DEF Least
    <3> HIDE DEF start, end
    <3>3. \A i \in 0..Len(text) : ByteOf(text, i) = i
      BY <1>0, <2>3, BytesAreCharacters
    <3>4. from = r.start /\ to = r.end
      BY <3>1, <3>2, <3>3 DEF CharAt
    <3> QED
      BY <2>3, <3>1, <3>4
  <2>4. new \in Seq(Chars) /\ Len(new) = from + 1 + (Len(text) - to)
    <3> HIDE DEF from, to
    <3>1. Match \in Chars
      BY DEF Chars
    <3>2. new = Spliced(text, from, Match, to)
      BY DEF Replaced, Spliced
    <3> HIDE DEF new
    <3> QED
      BY ONLY <1>0, <2>2, <3>1, <3>2, SplicedSeq
  <2> HIDE DEF new, from, to, start, end
  <2>5. EditorsOK'
    <3>1. editor' \in [Field -> Seq(Chars)] /\ caret' \in [Field -> Nat] /\ due' \subseteq Field
      BY <1>3, <2>1, <2>2, <2>4 DEF CompletionInvariant, EditorsOK
    <3>2. ASSUME NEW d \in Field PROVE caret'[d] <= Len(editor'[d])
      <4>1. CASE d = c
        <5>1. caret'[d] = from + 1 /\ editor'[d] = new
          BY <4>1, <2>1 DEF CompletionInvariant, EditorsOK
        <5> QED
          BY <5>1, <1>0, <2>2, <2>4
      <4>2. CASE d # c
        BY <4>2, <2>1 DEF CompletionInvariant, EditorsOK
      <4> QED
        BY <4>1, <4>2
    <3> QED
      BY <3>1, <3>2 DEF EditorsOK
  <2>6. ReplacesKernelRange'
    <3> SUFFICES ASSUME accepted'.text = accepted'.meant.code,
                        Size(accepted'.text) = Len(accepted'.text)
                 PROVE  /\ accepted'.meant.cell = accepted'.cell
                        /\ accepted'.new = Replaced(accepted'.meant.code, accepted'.meant.start,
                                                    accepted'.meant.end)
      BY DEF ReplacesKernelRange, ReplacedAsMeant
    <3>1. accepted'.text = text /\ accepted'.meant = meant[c] /\ accepted'.cell = c /\ accepted'.new = new
      BY <2>1
    <3> QED
      BY <1>3, <2>3, <3>1 DEF Means
  <2> QED
    BY <1>1, <1>2, <2>5, <2>6 DEF CompletionInvariant
<1> QED
  BY <1>4, <1>5

\* Whatever is typed while answers are on their way, an accepted completion
\* replaces what the kernel meant when the text is the one it was asked about and
\* has one byte a character (accept_completion, lib.rs:686).
THEOREM ReplacesKernelRangeHolds == CompletionSpec => []ReplacesKernelRange
<1>1. ASSUME CompletionInvariant, [CompletionNext]_completionVars
      PROVE  CompletionInvariant'
  <2>1. CASE UNCHANGED completionVars
    <3>1. EditorsOK'
      BY <1>1, <2>1 DEF CompletionInvariant, EditorsOK, completionVars
    <3>2. AskedOK'
      BY <1>1, <2>1 DEF CompletionInvariant, AskedOK, completionVars
    <3>3. MeantOK'
      BY <1>1, <2>1 DEF CompletionInvariant, MeantOK, Means, completionVars
    <3> QED
      BY <1>1, <2>1, <3>1, <3>2, <3>3, SameAccepted DEF CompletionInvariant, completionVars
  <2> QED
    BY <1>1, <2>1, TypeTextStep, MoveCaretStep, AskStep, SuggestStep, AcceptStep, CloseStep
    DEF CompletionNext
<1>2. CompletionInvariant => ReplacesKernelRange
  BY DEF CompletionInvariant
<1> QED
  BY <1>1, <1>2, CompletionStarts, PTL DEF CompletionSpec

-----------------------------------------------------------------------------
(* Leases. *)

Lease == [tab : Tab, path : Path]
Record == [owner : Tab \cup {NoTab}, fresh : BOOLEAN]
LeaseStage == {"granted", "setup", "open"}
Notebook == [tab : Tab, lease : Nat, path : Path, stage : LeaseStage, log : Seq(Nat)]

LeaseTypes ==
  /\ leases \in Seq(Lease)
  /\ lock \in [Path -> 0 .. Len(leases)]
  /\ live \subseteq 1 .. Len(leases)
  /\ record \in [Path -> Record]
  /\ contexts \subseteq Notebook /\ \A c \in contexts : c.lease \in 1 .. Len(leases)
  /\ stored \in [Path -> Seq(Nat) \cup {Absent}]
  /\ count \in [writes : Nat, renames : Nat, deaths : Nat]

\* Locks are held by leases of their path, and by all that are live.
LocksMatch ==
  /\ \A p \in Path : lock[p] # 0 => leases[lock[p]].path = p
  /\ \A l \in live : lock[leases[l].path] = l
  /\ \A c \in contexts : c.tab = leases[c.lease].tab

\* A lease that is granted but not announced is one notebook's alone.
GrantedAlone ==
  /\ \A c \in contexts : c.stage = "granted" =>
       /\ c.lease \notin live /\ lock[c.path] = c.lease /\ leases[c.lease].path = c.path
       /\ \A d \in contexts : d.lease = c.lease => d = c
  /\ \A p \in Path : lock[p] \notin live \cup {0} =>
       \E c \in contexts : c.stage = "granted" /\ c.lease = lock[p]

\* Without renames, a notebook is open under the lock of its path, alone, and
\* shows what is stored.
OwnLease(c) ==
  /\ lock[c.path] = c.lease /\ leases[c.lease].path = c.path
  /\ \A d \in contexts : d.lease = c.lease => d = c
  /\ c.stage = "open" => stored[c.path] = c.log
  /\ c.stage # "open" => c.log = <<>>
Unrenamed == count.renames = 0 => \A c \in contexts : OwnLease(c)

LeaseInvariant ==
  /\ LeaseTypes /\ LocksMatch /\ GrantedAlone /\ Unrenamed
  /\ LocksAreUsed /\ RecordNamesHolder

-----------------------------------------------------------------------------
(* What lists of leases and of changes do when they grow. *)

LEMMA Granting ==
  ASSUME leases \in Seq(Lease), NEW x \in Lease
  PROVE  LET ls == Append(leases, x) IN
         /\ ls \in Seq(Lease) /\ Len(ls) = Len(leases) + 1 /\ ls[Len(leases) + 1] = x
         /\ \A l \in 1 .. Len(leases) : ls[l] = leases[l]
OBVIOUS

LEMMA PrefixReflexive ==
  ASSUME NEW s \in Seq(Nat)
  PROVE  IsPrefix(s, s)
BY DEF IsPrefix

LEMMA PrefixAppend ==
  ASSUME NEW s \in Seq(Nat), NEW x \in Nat
  PROVE  Append(s, x) \in Seq(Nat) /\ IsPrefix(s, Append(s, x))
<1>1. Append(s, x) \in Seq(Nat) /\ Len(Append(s, x)) = Len(s) + 1
  OBVIOUS
<1>2. SubSeq(s, 1, Len(s)) = SubSeq(Append(s, x), 1, Len(s))
  OBVIOUS
<1> QED
  BY <1>1, <1>2 DEF IsPrefix

\* A notebook that is open or set up goes on under its lease.
LEMMA GoesOn ==
  ASSUME LeaseInvariant, NEW c \in contexts, c.stage # "granted",
         NEW d \in Notebook, d.stage # "granted", d.tab = c.tab, d.lease = c.lease,
         Becomes(c, d), UNCHANGED <<leases, lock, live, record>>,
         stored' \in [Path -> Seq(Nat) \cup {Absent}],
         count' \in [writes : Nat, renames : Nat, deaths : Nat],
         Unrenamed'
  PROVE  LeaseInvariant'
<1>1. contexts' = (contexts \ {c}) \cup {d}
  BY DEF Becomes
<1>2. LeaseTypes'
  BY <1>1 DEF LeaseInvariant, LeaseTypes
<1>3. LocksMatch'
  BY <1>1 DEF LeaseInvariant, LocksMatch
<1>4. GrantedAlone'
  BY <1>1 DEF LeaseInvariant, GrantedAlone
<1>5. LocksAreUsed'
  BY <1>1 DEF LeaseInvariant, LocksAreUsed
<1>6. RecordNamesHolder'
  BY DEF LeaseInvariant, RecordNamesHolder
<1> QED
  BY <1>2, <1>3, <1>4, <1>5, <1>6 DEF LeaseInvariant

\* A notebook that is closed, or could not be set up, gives its lease back.
LEMMA GivenBack ==
  ASSUME LeaseInvariant, NEW c \in contexts, c.stage # "granted",
         contexts' = contexts \ {c}, Release(c.lease), UNCHANGED <<leases, stored, count>>
  PROVE  LeaseInvariant'
<1> DEFINE p == leases[c.lease].path
<1>1. /\ c.lease \in 1 .. Len(leases) /\ leases[c.lease] \in Lease /\ p \in Path
      /\ lock \in [Path -> 0 .. Len(leases)] /\ record \in [Path -> Record]
      /\ live \subseteq 1 .. Len(leases)
  <2>1. c.lease \in 1 .. Len(leases) /\ leases \in Seq(Lease)
    BY DEF LeaseInvariant, LeaseTypes
  <2>2. leases[c.lease] \in Lease
    BY <2>1
  <2>3. p \in Path
    BY <2>2 DEF Lease
  <2> QED
    BY <2>1, <2>2, <2>3 DEF LeaseInvariant, LeaseTypes
<1>2. CASE c.lease \notin live
  <2>1. UNCHANGED <<live, lock, record>>
    BY <1>2 DEF Release
  <2>2. LeaseTypes' /\ LocksMatch'
    BY <2>1 DEF LeaseInvariant, LeaseTypes, LocksMatch
  <2>3. GrantedAlone'
    BY <2>1 DEF LeaseInvariant, GrantedAlone
  <2>4. LocksAreUsed'
    BY <1>1, <1>2, <2>1 DEF LeaseInvariant, GrantedAlone, LocksAreUsed
  <2>5. Unrenamed' /\ RecordNamesHolder'
    BY <2>1 DEF LeaseInvariant, Unrenamed, OwnLease, RecordNamesHolder
  <2> QED
    BY <2>2, <2>3, <2>4, <2>5 DEF LeaseInvariant
<1>3. CASE c.lease \in live
  <2>1. /\ live' = live \ {c.lease} /\ lock' = [lock EXCEPT ![p] = 0]
        /\ record' \in {record, [record EXCEPT ![p] = NoRecord]} /\ lock[p] = c.lease
    BY <1>3 DEF Release, LeaseInvariant, LocksMatch
  <2>2. LeaseTypes'
    <3>1. NoRecord \in Record
      BY DEF NoRecord, Record
    <3>2. record' \in [Path -> Record] /\ lock' \in [Path -> 0 .. Len(leases)]
      BY <1>1, <2>1, <3>1
    <3> QED
      BY <1>1, <2>1, <3>2 DEF LeaseInvariant, LeaseTypes
  <2>3. LocksMatch'
    BY <1>1, <2>1 DEF LeaseInvariant, LeaseTypes, LocksMatch, Lease
  <2>4. GrantedAlone'
    <3>1. ASSUME NEW d \in contexts', d.stage = "granted"
          PROVE  /\ d.lease \notin live' /\ lock'[d.path] = d.lease
                 /\ \A e \in contexts' : e.lease = d.lease => e = d
      <4>1. d.path \in Path /\ lock[d.path] = d.lease /\ d.lease \notin live
        BY <3>1 DEF LeaseInvariant, LeaseTypes, Notebook, GrantedAlone
      <4>2. d.path # p
        BY <1>3, <2>1, <4>1
      <4> QED
        BY <1>1, <2>1, <3>1, <4>1, <4>2 DEF LeaseInvariant, GrantedAlone
    <3>2. ASSUME NEW q \in Path, lock'[q] \notin live' \cup {0}
          PROVE  \E d \in contexts' : d.stage = "granted" /\ d.lease = lock'[q]
      <4>1. q # p /\ lock'[q] = lock[q] /\ lock[q] # 0
        BY <1>1, <2>1, <3>2
      <4>2. lock[q] # c.lease
        BY <4>1 DEF LeaseInvariant, LocksMatch
      <4> QED
        BY <2>1, <3>2, <4>1, <4>2 DEF LeaseInvariant, GrantedAlone
    <3> QED
      BY <3>1, <3>2 DEF GrantedAlone, LeaseInvariant
  <2>5. LocksAreUsed'
    <3> SUFFICES ASSUME NEW q \in Path, lock'[q] # 0
                 PROVE  \E d \in contexts' : d.lease = lock'[q]
      BY DEF LocksAreUsed
    <3>1. q # p /\ lock'[q] = lock[q]
      BY <1>1, <2>1
    <3>2. lock[q] # c.lease
      BY <3>1 DEF LeaseInvariant, LocksMatch
    <3> QED
      BY <3>1, <3>2 DEF LeaseInvariant, LocksAreUsed
  <2>6. Unrenamed'
    <3> SUFFICES ASSUME count.renames = 0, NEW d \in contexts' PROVE OwnLease(d)'
      BY DEF Unrenamed
    <3>1. OwnLease(d) /\ d.path \in Path /\ OwnLease(c)
      BY DEF LeaseInvariant, Unrenamed, LeaseTypes, Notebook
    <3>2. d.lease # c.lease
      BY <3>1 DEF OwnLease
    <3>3. d.path # p
      BY <2>1, <3>1, <3>2 DEF OwnLease
    <3> QED
      BY <1>1, <2>1, <3>1, <3>3 DEF OwnLease
  <2>7. RecordNamesHolder'
    <3>1. 0 \notin live'
      BY <1>1, <2>1
    <3>2. \A q \in Path : q # p => record'[q] = record[q] /\ lock'[q] = lock[q]
      BY <1>1, <2>1
    <3>3. lock'[p] = 0
      BY <1>1, <2>1
    <3> QED
      BY <2>1, <3>1, <3>2, <3>3 DEF LeaseInvariant, RecordNamesHolder
  <2> QED
    BY <2>2, <2>3, <2>4, <2>5, <2>6, <2>7 DEF LeaseInvariant
<1> QED
  BY <1>2, <1>3

-----------------------------------------------------------------------------
(* The steps. *)

\* Every step but a rename keeps what is stored as a prefix.
Continues ==
  count'.renames = 0 =>
    \A p \in Path : stored[p] # Absent /\ stored'[p] # Absent => IsPrefix(stored[p], stored'[p])

LEMMA StoredApart ==
  ASSUME LeaseTypes, UNCHANGED stored
  PROVE  Continues
BY PrefixReflexive DEF Continues, LeaseTypes

LEMMA AcquireKeeps ==
  ASSUME LeaseInvariant, NEW t \in Tab, NEW p \in Path, Acquire(t, p)
  PROVE  LeaseInvariant'
<1>1. /\ UNCHANGED <<record, stored, count, live>>
      /\ ~ \E c \in contexts : c.tab = t /\ c.path = p
  BY DEF Acquire
<1>2. ASSUME NEW l \in Mine(t, p), contexts' = contexts \cup {Context(t, l, p)},
             UNCHANGED <<leases, lock>>
      PROVE  LeaseInvariant'
  <2> DEFINE d == Context(t, l, p)
  <2>1. l \in live /\ l \in 1 .. Len(leases) /\ leases[l].tab = t /\ leases[l].path = p
    BY DEF Mine, LeaseInvariant, LeaseTypes
  <2>2. /\ d \in Notebook /\ d.tab = t /\ d.lease = l /\ d.path = p /\ d.stage = "setup"
        /\ d.log = <<>> /\ contexts' = contexts \cup {d}
    BY <1>2, <2>1 DEF Context, Notebook, LeaseStage
  <2> HIDE DEF d
  <2>3. LeaseTypes'
    BY <1>1, <1>2, <2>1, <2>2 DEF LeaseInvariant, LeaseTypes
  <2>4. LocksMatch' /\ RecordNamesHolder'
    BY <1>1, <1>2, <2>1, <2>2 DEF LeaseInvariant, LocksMatch, RecordNamesHolder
  <2>5. GrantedAlone'
    BY <1>1, <1>2, <2>1, <2>2 DEF LeaseInvariant, GrantedAlone
  <2>6. LocksAreUsed'
    BY <1>2 DEF LeaseInvariant, LocksAreUsed
  <2>7. count.renames # 0
    <3> SUFFICES ASSUME count.renames = 0 PROVE FALSE
      OBVIOUS
    <3>1. lock[p] = l /\ l # 0
      BY <2>1 DEF LeaseInvariant, LocksMatch
    <3>2. PICK c \in contexts : c.lease = l
      BY <3>1 DEF LeaseInvariant, LocksAreUsed
    <3>3. c.tab = t /\ c.path = p
      BY <2>1, <3>2 DEF LeaseInvariant, LocksMatch, Unrenamed, OwnLease
    <3> QED
      BY <1>1, <3>3
  <2> QED
    BY <1>1, <2>3, <2>4, <2>5, <2>6, <2>7 DEF LeaseInvariant, Unrenamed
<1>3. ASSUME ~Locked(p),
             leases' = Append(leases, [tab |-> t, path |-> p]),
             lock' = [lock EXCEPT ![p] = Len(leases) + 1],
             contexts' = contexts \cup {[Context(t, Len(leases) + 1, p) EXCEPT !.stage = "granted"]}
      PROVE  LeaseInvariant'
  <2> DEFINE l == Len(leases) + 1
             d == [Context(t, l, p) EXCEPT !.stage = "granted"]
  <2>1. /\ [tab |-> t, path |-> p] \in Lease /\ leases \in Seq(Lease) /\ Len(leases) \in Nat
        /\ live \subseteq 1 .. Len(leases) /\ lock \in [Path -> 0 .. Len(leases)]
        /\ \A c \in contexts : c.lease \in 1 .. Len(leases)
    BY DEF LeaseInvariant, LeaseTypes, Lease
  <2>2. /\ leases' \in Seq(Lease) /\ Len(leases') = l
        /\ leases'[l].tab = t /\ leases'[l].path = p
        /\ \A i \in 1 .. Len(leases) : leases'[i] = leases[i]
    BY <1>3, <2>1, Granting
  <2>3. /\ d \in Notebook /\ d.tab = t /\ d.lease = l /\ d.path = p /\ d.stage = "granted"
        /\ d.log = <<>>
    <3>1. d = [tab |-> t, lease |-> l, path |-> p, stage |-> "granted", log |-> <<>>]
      BY DEF Context
    <3>2. l \in Nat /\ <<>> \in Seq(Nat) /\ "granted" \in LeaseStage
      BY <2>1 DEF LeaseStage
    <3> QED
      BY <3>1, <3>2 DEF Notebook
  <2>4. l \in Nat /\ l # 0 /\ l \notin live /\ lock[p] = 0 /\ \A c \in contexts : c.lease # l
    BY <1>3, <2>1 DEF Locked
  <2>5. contexts' = contexts \cup {d} /\ lock' = [lock EXCEPT ![p] = l]
    BY <1>3
  <2> HIDE DEF d
  <2>6. LeaseTypes'
    <3>1. lock' \in [Path -> 0 .. l] /\ live \subseteq 1 .. l /\ \A c \in contexts' : c.lease \in 1 .. l
      BY <2>1, <2>3, <2>4, <2>5
    <3> QED
      BY <1>1, <2>2, <2>3, <2>5, <3>1 DEF LeaseInvariant, LeaseTypes
  <2> HIDE DEF l
  <2>7. lock'[p] = l /\ \A q \in Path \ {p} : lock'[q] = lock[q]
    BY <2>1, <2>5
  <2>8. \A k \in live : lock[leases[k].path] = k /\ k # 0 /\ leases[k].path \in Path
    <3> TAKE k \in live
    <3>1. k \in 1 .. Len(leases) /\ leases[k] \in Lease
      BY <2>1
    <3> QED
      BY <3>1 DEF LeaseInvariant, LocksMatch, Lease
  <2>9. LocksMatch'
    <3>1. \A q \in Path : lock'[q] # 0 => leases'[lock'[q]].path = q
      BY <2>1, <2>2, <2>7 DEF LeaseInvariant, LocksMatch
    <3>2. \A k \in live' : lock'[leases'[k].path] = k
      BY <1>1, <2>1, <2>2, <2>4, <2>7, <2>8
    <3>3. \A c \in contexts' : c.tab = leases'[c.lease].tab
      BY <2>1, <2>2, <2>3, <2>5 DEF LeaseInvariant, LocksMatch
    <3> QED
      BY <3>1, <3>2, <3>3 DEF LocksMatch
  <2>10. GrantedAlone'
    <3>1. ASSUME NEW c \in contexts', c.stage = "granted"
          PROVE  /\ c.lease \notin live' /\ lock'[c.path] = c.lease
                 /\ leases'[c.lease].path = c.path
                 /\ \A e \in contexts' : e.lease = c.lease => e = c
      <4>1. CASE c = d
        BY <1>1, <2>2, <2>3, <2>4, <2>5, <2>7, <4>1
      <4>2. CASE c \in contexts
        <5>1. /\ c.lease \notin live /\ lock[c.path] = c.lease /\ leases[c.lease].path = c.path
              /\ \A e \in contexts : e.lease = c.lease => e = c
              /\ c.lease \in 1 .. Len(leases) /\ c.path \in Path
          BY <3>1, <4>2 DEF LeaseInvariant, GrantedAlone, LeaseTypes, Notebook
        <5>2. c.path # p
          BY <2>4, <5>1
        <5> QED
          BY <1>1, <2>2, <2>3, <2>4, <2>5, <2>7, <4>2, <5>1, <5>2
      <4> QED
        BY <2>5, <4>1, <4>2
    <3>2. ASSUME NEW q \in Path, lock'[q] \notin live' \cup {0}
          PROVE  \E c \in contexts' : c.stage = "granted" /\ c.lease = lock'[q]
      <4>1. CASE q = p
        BY <2>3, <2>5, <2>7, <4>1
      <4>2. CASE q # p
        BY <1>1, <2>5, <2>7, <3>2, <4>2 DEF LeaseInvariant, GrantedAlone
      <4> QED
        BY <4>1, <4>2
    <3> QED
      BY <3>1, <3>2 DEF GrantedAlone
  <2>11. LocksAreUsed'
    BY <2>3, <2>5, <2>7 DEF LeaseInvariant, LocksAreUsed
  <2>12. Unrenamed'
    <3> SUFFICES ASSUME count.renames = 0, NEW c \in contexts' PROVE OwnLease(c)'
      BY <1>1 DEF Unrenamed
    <3>1. CASE c = d
      BY <1>1, <2>2, <2>3, <2>4, <2>5, <2>7, <3>1 DEF OwnLease
    <3>2. CASE c \in contexts
      <4>1. OwnLease(c) /\ c.lease \in 1 .. Len(leases) /\ c.path \in Path
        BY <3>2 DEF LeaseInvariant, Unrenamed, LeaseTypes, Notebook
      <4>2. c.path # p
        BY <2>4, <4>1 DEF OwnLease
      <4> QED
        BY <1>1, <2>2, <2>3, <2>4, <2>5, <2>7, <3>2, <4>1, <4>2 DEF OwnLease
    <3> QED
      BY <2>5, <3>1, <3>2
  <2>13. RecordNamesHolder'
    BY <1>1, <2>1, <2>2, <2>4, <2>7 DEF LeaseInvariant, RecordNamesHolder
  <2> QED
    BY <2>6, <2>9, <2>10, <2>11, <2>12, <2>13 DEF LeaseInvariant
<1> QED
  BY <1>2, <1>3 DEF Acquire

\* A step that only tells the other tabs about the holder of a lock.
LEMMA Announced ==
  ASSUME LeaseInvariant, NEW l \in 1 .. Len(leases), lock[leases[l].path] = l,
         Announce(leases[l].path, leases[l].tab)
  PROVE  /\ record' \in [Path -> Record] /\ record'[leases[l].path].owner = leases[l].tab
         /\ \A p \in Path : record'[p].fresh =>
              record'[p] = record[p] \/ (lock[p] = l /\ record'[p].owner = leases[l].tab)
<1>1. leases[l] \in Lease /\ record \in [Path -> Record]
  BY DEF LeaseInvariant, LeaseTypes
<1>2. [owner |-> leases[l].tab, fresh |-> TRUE] \in Record /\ leases[l].path \in Path
  BY <1>1 DEF Lease, Record
<1> QED
  BY <1>1, <1>2 DEF Announce

LEMMA GrantedKeeps ==
  ASSUME LeaseInvariant, NEW c \in contexts, Granted(c)
  PROVE  LeaseInvariant'
<1> DEFINE d == [c EXCEPT !.stage = "setup"]
<1>1. /\ c.stage = "granted" /\ c \in Notebook /\ c.lease \in 1 .. Len(leases)
      /\ lock[c.path] = c.lease /\ leases[c.lease].path = c.path /\ leases[c.lease].tab = c.tab
      /\ \A e \in contexts : e.lease = c.lease => e = c
  BY DEF Granted, LeaseInvariant, LeaseTypes, LocksMatch, GrantedAlone
<1>2. /\ d \in Notebook /\ d.stage = "setup" /\ d.lease = c.lease /\ d.path = c.path
      /\ d.tab = c.tab /\ d.log = c.log
  BY <1>1 DEF Notebook, LeaseStage
<1>3. /\ contexts' = (contexts \ {c}) \cup {d} /\ live' = live \cup {c.lease}
      /\ UNCHANGED <<leases, lock, stored, count>>
  BY DEF Granted, Becomes
<1> HIDE DEF d
<1>4. /\ record' \in [Path -> Record] /\ record'[c.path].owner = c.tab
      /\ \A p \in Path : record'[p].fresh =>
           record'[p] = record[p] \/ (lock[p] = c.lease /\ record'[p].owner = leases[c.lease].tab)
  BY <1>1, Announced DEF Granted
<1>5. LeaseTypes'
  BY <1>1, <1>2, <1>3, <1>4 DEF LeaseInvariant, LeaseTypes
<1>6. LocksMatch'
  BY <1>1, <1>2, <1>3 DEF LeaseInvariant, LocksMatch
<1>7. GrantedAlone'
  <2>1. ASSUME NEW e \in contexts', e.stage = "granted"
        PROVE  /\ e.lease \notin live' /\ lock'[e.path] = e.lease
               /\ leases'[e.lease].path = e.path
               /\ \A f \in contexts' : f.lease = e.lease => f = e
    <3>1. e \in contexts /\ e # c
      BY <1>2, <1>3, <2>1
    <3>2. e.lease # c.lease
      BY <1>1, <3>1
    <3> QED
      BY <1>2, <1>3, <2>1, <3>1, <3>2 DEF LeaseInvariant, GrantedAlone
  <2>2. ASSUME NEW q \in Path, lock'[q] \notin live' \cup {0}
        PROVE  \E e \in contexts' : e.stage = "granted" /\ e.lease = lock'[q]
    <3>1. lock[q] \notin live \cup {0} /\ lock[q] # c.lease
      BY <1>3, <2>2
    <3> QED
      BY <1>3, <3>1 DEF LeaseInvariant, GrantedAlone
  <2> QED
    BY <2>1, <2>2 DEF GrantedAlone
<1>8. LocksAreUsed'
  BY <1>2, <1>3 DEF LeaseInvariant, LocksAreUsed
<1>9. Unrenamed'
  <2> SUFFICES ASSUME count.renames = 0, NEW e \in contexts' PROVE OwnLease(e)'
    BY <1>3 DEF Unrenamed
  <2>1. CASE e = d
    <3>1. OwnLease(c)
      BY DEF LeaseInvariant, Unrenamed
    <3> QED
      BY <1>1, <1>2, <1>3, <2>1, <3>1 DEF OwnLease
  <2>2. CASE e \in contexts /\ e # c
    <3>1. OwnLease(e) /\ e.lease # c.lease
      BY <1>1, <2>2 DEF LeaseInvariant, Unrenamed
    <3> QED
      BY <1>2, <1>3, <3>1 DEF OwnLease
  <2> QED
    BY <1>3, <2>1, <2>2
<1>10. RecordNamesHolder'
  <2> SUFFICES ASSUME NEW p \in Path, record'[p].fresh, lock[p] \in live \cup {c.lease}
               PROVE  record'[p].owner = leases[lock[p]].tab
    BY <1>3 DEF RecordNamesHolder
  <2>1. CASE lock[p] = c.lease
    <3>1. p = c.path
      BY <1>1, <2>1 DEF LeaseInvariant, LocksMatch
    <3> QED
      BY <1>1, <1>4, <2>1, <3>1
  <2>2. CASE lock[p] \in live /\ lock[p] # c.lease
    BY <1>4, <2>2 DEF LeaseInvariant, RecordNamesHolder
  <2> QED
    BY <2>1, <2>2
<1> QED
  BY <1>5, <1>6, <1>7, <1>8, <1>9, <1>10 DEF LeaseInvariant

\* A step that changes records only.
LEMMA RecordStep ==
  ASSUME LeaseInvariant, UNCHANGED <<leases, lock, live, contexts, stored, count>>,
         record' \in [Path -> Record], RecordNamesHolder'
  PROVE  LeaseInvariant'
<1>1. LeaseTypes' /\ LocksMatch' /\ GrantedAlone'
  BY DEF LeaseInvariant, LeaseTypes, LocksMatch, GrantedAlone
<1>2. Unrenamed' /\ LocksAreUsed'
  BY DEF LeaseInvariant, Unrenamed, OwnLease, LocksAreUsed
<1> QED
  BY <1>1, <1>2 DEF LeaseInvariant

LEMMA HeartbeatKeeps ==
  ASSUME LeaseInvariant, NEW l \in live, Heartbeat(l)
  PROVE  LeaseInvariant'
<1>1. l \in 1 .. Len(leases) /\ lock[leases[l].path] = l
  BY DEF LeaseInvariant, LeaseTypes, LocksMatch
<1>2. /\ record' \in [Path -> Record]
      /\ \A p \in Path : record'[p].fresh =>
           record'[p] = record[p] \/ (lock[p] = l /\ record'[p].owner = leases[l].tab)
  BY <1>1, Announced DEF Heartbeat
<1>3. RecordNamesHolder'
  BY <1>2 DEF Heartbeat, LeaseInvariant, RecordNamesHolder
<1> QED
  BY <1>2, <1>3, RecordStep DEF Heartbeat

LEMMA StaleKeeps ==
  ASSUME LeaseInvariant, NEW p \in Path, Stale(p)
  PROVE  LeaseInvariant'
<1>1. record \in [Path -> Record] /\ record' = [record EXCEPT ![p].fresh = FALSE]
  BY DEF LeaseInvariant, LeaseTypes, Stale
<1>2. [record[p] EXCEPT !.fresh = FALSE] \in Record /\ ~[record[p] EXCEPT !.fresh = FALSE].fresh
  BY <1>1 DEF Record
<1>3. record' \in [Path -> Record] /\ ~record'[p].fresh /\ \A q \in Path \ {p} : record'[q] = record[q]
  BY <1>1, <1>2
<1>4. RecordNamesHolder'
  BY <1>3 DEF Stale, LeaseInvariant, RecordNamesHolder
<1> QED
  BY <1>3, <1>4, RecordStep DEF Stale

LEMMA SetupKeeps ==
  ASSUME LeaseInvariant, NEW c \in contexts, Setup(c)
  PROVE  LeaseInvariant' /\ Continues
<1>1. /\ c.stage = "setup" /\ c \in Notebook /\ c.path \in Path
      /\ stored \in [Path -> Seq(Nat) \cup {Absent}] /\ UNCHANGED <<leases, count>>
      /\ count \in [writes : Nat, renames : Nat, deaths : Nat]
  BY DEF Setup, LeaseInvariant, LeaseTypes, Notebook
<1>2. ASSUME stored[c.path] # Absent, Becomes(c, [c EXCEPT !.stage = "open", !.log = stored[c.path]]),
             UNCHANGED <<live, lock, record, stored>>
      PROVE  LeaseInvariant' /\ Continues
  <2> DEFINE d == [c EXCEPT !.stage = "open", !.log = stored[c.path]]
  <2>1. stored[c.path] \in Seq(Nat)
    BY <1>1, <1>2
  <2>2. /\ d \in Notebook /\ d.stage = "open" /\ d.lease = c.lease /\ d.path = c.path
        /\ d.tab = c.tab /\ d.log = stored[c.path] /\ Becomes(c, d)
    BY <1>1, <1>2, <2>1 DEF Notebook, LeaseStage
  <2> HIDE DEF d
  <2>3. Unrenamed'
    BY <1>1, <1>2, <2>2 DEF LeaseInvariant, Unrenamed, OwnLease, Becomes
  <2>4. LeaseInvariant'
    BY <1>1, <1>2, <2>2, <2>3, GoesOn
  <2> QED
    BY <1>2, <2>4, StoredApart DEF LeaseInvariant
<1>3. ASSUME stored[c.path] = Absent, Becomes(c, [c EXCEPT !.stage = "open"]),
             stored' = [stored EXCEPT ![c.path] = <<>>], UNCHANGED <<live, lock, record>>
      PROVE  LeaseInvariant' /\ Continues
  <2> DEFINE d == [c EXCEPT !.stage = "open"]
  <2>1. /\ d \in Notebook /\ d.stage = "open" /\ d.lease = c.lease /\ d.path = c.path
        /\ d.tab = c.tab /\ d.log = c.log /\ Becomes(c, d)
    BY <1>1, <1>3 DEF Notebook, LeaseStage
  <2> HIDE DEF d
  <2>2. stored' \in [Path -> Seq(Nat) \cup {Absent}]
    BY <1>1, <1>3
  <2>3. Unrenamed'
    <3> SUFFICES ASSUME count.renames = 0, NEW e \in contexts' PROVE OwnLease(e)'
      BY <1>1 DEF Unrenamed
    <3>1. OwnLease(c)
      BY DEF LeaseInvariant, Unrenamed
    <3>2. CASE e = d
      BY <1>1, <1>3, <2>1, <3>1, <3>2 DEF OwnLease, Becomes
    <3>3. CASE e \in contexts /\ e # c
      <4>1. OwnLease(e) /\ e.lease # c.lease /\ e.path \in Path
        BY <3>1, <3>3 DEF LeaseInvariant, Unrenamed, OwnLease, LeaseTypes, Notebook
      <4>2. e.path # c.path
        BY <3>1, <4>1 DEF OwnLease
      <4> QED
        BY <1>1, <1>3, <2>1, <3>3, <4>1, <4>2 DEF OwnLease, Becomes
    <3> QED
      BY <2>1, <3>2, <3>3 DEF Becomes
  <2>4. LeaseInvariant'
    BY <1>1, <1>3, <2>1, <2>2, <2>3, GoesOn
  <2>5. Continues
    BY <1>1, <1>3, PrefixReflexive DEF Continues
  <2> QED
    BY <2>4, <2>5
<1>4. ASSUME contexts' = contexts \ {c}, Release(c.lease), UNCHANGED stored
      PROVE  LeaseInvariant' /\ Continues
  BY <1>1, <1>4, GivenBack, StoredApart DEF LeaseInvariant
<1> QED
  BY <1>2, <1>3, <1>4 DEF Setup

LEMMA WriteKeeps ==
  ASSUME LeaseInvariant, NEW c \in contexts, PutSnapshot(c)
  PROVE  LeaseInvariant' /\ Continues
<1> DEFINE content == Append(c.log, count.writes + 1)
           d == [c EXCEPT !.log = content]
<1>1. /\ c.stage = "open" /\ c \in Notebook /\ c.path \in Path /\ c.log \in Seq(Nat)
      /\ stored \in [Path -> Seq(Nat) \cup {Absent}]
      /\ count \in [writes : Nat, renames : Nat, deaths : Nat] /\ count.writes + 1 \in Nat
  BY DEF PutSnapshot, LeaseInvariant, LeaseTypes, Notebook
<1>2. content \in Seq(Nat) /\ IsPrefix(c.log, content)
  BY <1>1, PrefixAppend
<1>3. /\ stored' = [stored EXCEPT ![c.path] = content] /\ Becomes(c, d)
      /\ count' = [count EXCEPT !.writes = @ + 1] /\ UNCHANGED <<leases, lock, live, record>>
  BY DEF PutSnapshot
<1> HIDE DEF content
<1>4. /\ d \in Notebook /\ d.stage = "open" /\ d.lease = c.lease /\ d.path = c.path
      /\ d.tab = c.tab /\ d.log = content
  BY <1>1, <1>2 DEF Notebook
<1> HIDE DEF d
<1>5. /\ stored' \in [Path -> Seq(Nat) \cup {Absent}]
      /\ count' \in [writes : Nat, renames : Nat, deaths : Nat] /\ count'.renames = count.renames
  BY <1>1, <1>2, <1>3
<1>6. Unrenamed'
  <2> SUFFICES ASSUME count.renames = 0, NEW e \in contexts' PROVE OwnLease(e)'
    BY <1>5 DEF Unrenamed
  <2>1. OwnLease(c)
    BY DEF LeaseInvariant, Unrenamed
  <2>2. CASE e = d
    BY <1>1, <1>3, <1>4, <2>1, <2>2 DEF OwnLease, Becomes
  <2>3. CASE e \in contexts /\ e # c
    <3>1. OwnLease(e) /\ e.lease # c.lease /\ e.path \in Path
      BY <2>1, <2>3 DEF LeaseInvariant, Unrenamed, OwnLease, LeaseTypes, Notebook
    <3>2. e.path # c.path
      BY <2>1, <3>1 DEF OwnLease
    <3> QED
      BY <1>1, <1>3, <1>4, <2>3, <3>1, <3>2 DEF OwnLease, Becomes
  <2> QED
    BY <1>3, <2>2, <2>3 DEF Becomes
<1>7. LeaseInvariant'
  BY <1>1, <1>3, <1>4, <1>5, <1>6, GoesOn
<1>8. Continues
  <2> SUFFICES ASSUME count.renames = 0, NEW p \in Path, stored[p] # Absent
               PROVE  IsPrefix(stored[p], stored'[p])
    BY <1>5 DEF Continues
  <2>1. CASE p = c.path
    BY <1>1, <1>2, <1>3, <2>1 DEF LeaseInvariant, Unrenamed, OwnLease
  <2>2. CASE p # c.path
    BY <1>1, <1>3, <2>2, PrefixReflexive
  <2> QED
    BY <2>1, <2>2
<1> QED
  BY <1>7, <1>8

LEMMA RenameKeeps ==
  ASSUME LeaseInvariant, NEW c \in contexts, NEW p \in Path, Rename(c, p)
  PROVE  LeaseInvariant' /\ Continues
<1> DEFINE d == [c EXCEPT !.path = p]
<1>1. /\ c.stage = "open" /\ c \in Notebook /\ c.path \in Path /\ c.log \in Seq(Nat)
      /\ stored \in [Path -> Seq(Nat) \cup {Absent}]
      /\ count \in [writes : Nat, renames : Nat, deaths : Nat]
  BY DEF Rename, LeaseInvariant, LeaseTypes, Notebook
<1>2. /\ d \in Notebook /\ d.stage = "open" /\ d.lease = c.lease /\ d.tab = c.tab
  BY <1>1 DEF Notebook
<1>3. /\ Becomes(c, d) /\ UNCHANGED <<leases, lock, live, record>>
      /\ count' = [count EXCEPT !.renames = @ + 1]
      /\ stored' = [stored EXCEPT ![p] = c.log, ![c.path] = Absent]
  BY DEF Rename
<1> HIDE DEF d
<1>4. stored' \in [Path -> Seq(Nat) \cup {Absent}]
  BY <1>1, <1>3
<1>5. count' \in [writes : Nat, renames : Nat, deaths : Nat] /\ count'.renames # 0
  BY <1>1, <1>3
<1>6. Unrenamed' /\ Continues
  BY <1>5 DEF Unrenamed, Continues
<1> QED
  BY <1>1, <1>2, <1>3, <1>4, <1>5, <1>6, GoesOn

LEMMA CloseKeeps ==
  ASSUME LeaseInvariant, NEW c \in contexts, CloseNotebook(c)
  PROVE  LeaseInvariant' /\ Continues
<1>1. LeaseInvariant'
  BY GivenBack DEF CloseNotebook
<1> QED
  BY <1>1, StoredApart DEF CloseNotebook, LeaseInvariant

\* All that a tab held goes with it, and nothing else.
LEMMA DieKeeps ==
  ASSUME LeaseInvariant, NEW t \in Tab, Die(t)
  PROVE  LeaseInvariant' /\ Continues
<1>1. /\ contexts' = {c \in contexts : c.tab # t} /\ live' = {l \in live : leases[l].tab # t}
      /\ lock' = [p \in Path |-> IF lock[p] # 0 /\ leases[lock[p]].tab = t THEN 0 ELSE lock[p]]
      /\ UNCHANGED <<leases, record, stored>> /\ count' = [count EXCEPT !.deaths = @ + 1]
  BY DEF Die
<1>2. /\ lock \in [Path -> 0 .. Len(leases)] /\ Len(leases) \in Nat
      /\ live \subseteq 1 .. Len(leases)
      /\ leases \in Seq(Lease) /\ count \in [writes : Nat, renames : Nat, deaths : Nat]
  BY DEF LeaseInvariant, LeaseTypes
<1>3. /\ count' \in [writes : Nat, renames : Nat, deaths : Nat]
      /\ count'.renames = count.renames /\ lock' \in [Path -> 0 .. Len(leases)]
  BY <1>1, <1>2
<1>4. LeaseTypes'
  BY <1>1, <1>2, <1>3 DEF LeaseInvariant, LeaseTypes
<1>5. \A p \in Path : lock'[p] # 0 => lock'[p] = lock[p] /\ leases[lock[p]].tab # t
  BY <1>1
<1>6. \A p \in Path : lock[p] # 0 /\ leases[lock[p]].tab # t => lock'[p] = lock[p]
  BY <1>1
<1>7. LocksMatch'
  <2>1. \A l \in live' : lock'[leases'[l].path] = l
    <3> TAKE l \in live'
    <3>1. l \in live /\ l # 0 /\ leases[l].tab # t /\ leases[l] \in Lease
      BY <1>1, <1>2
    <3>2. leases[l].path \in Path /\ lock[leases[l].path] = l
      BY <3>1 DEF Lease, LeaseInvariant, LocksMatch
    <3> QED
      BY <1>1, <1>6, <3>1, <3>2
  <2> QED
    BY <1>1, <1>5, <2>1 DEF LeaseInvariant, LocksMatch
<1>8. GrantedAlone'
  <2>1. ASSUME NEW c \in contexts', c.stage = "granted"
        PROVE  /\ c.lease \notin live' /\ lock'[c.path] = c.lease
               /\ leases'[c.lease].path = c.path
               /\ \A e \in contexts' : e.lease = c.lease => e = c
    <3>1. /\ c \in contexts /\ c.tab # t /\ c.path \in Path /\ c.lease # 0
          /\ leases[c.lease].tab # t
      BY <1>1 DEF LeaseInvariant, LeaseTypes, Notebook, LocksMatch
    <3>2. /\ c.lease \notin live /\ lock[c.path] = c.lease /\ leases[c.lease].path = c.path
          /\ \A e \in contexts : e.lease = c.lease => e = c
      BY <2>1, <3>1 DEF LeaseInvariant, GrantedAlone
    <3> QED
      BY <1>1, <1>6, <3>1, <3>2
  <2>2. ASSUME NEW q \in Path, lock'[q] \notin live' \cup {0}
        PROVE  \E c \in contexts' : c.stage = "granted" /\ c.lease = lock'[q]
    <3>1. lock'[q] = lock[q] /\ lock[q] # 0 /\ leases[lock[q]].tab # t /\ lock[q] \notin live
      BY <1>1, <1>5, <2>2
    <3>2. PICK c \in contexts : c.stage = "granted" /\ c.lease = lock[q]
      BY <3>1 DEF LeaseInvariant, GrantedAlone
    <3>3. c.tab # t
      BY <3>1, <3>2 DEF LeaseInvariant, LocksMatch
    <3> QED
      BY <1>1, <3>1, <3>2, <3>3
  <2> QED
    BY <2>1, <2>2 DEF GrantedAlone
<1>9. LocksAreUsed'
  <2> SUFFICES ASSUME NEW p \in Path, lock'[p] # 0 PROVE \E c \in contexts' : c.lease = lock'[p]
    BY DEF LocksAreUsed
  <2>1. lock'[p] = lock[p] /\ leases[lock[p]].tab # t /\ lock[p] # 0
    BY <1>5
  <2>2. PICK c \in contexts : c.lease = lock[p]
    BY <2>1 DEF LeaseInvariant, LocksAreUsed
  <2> QED
    BY <1>1, <2>1, <2>2 DEF LeaseInvariant, LocksMatch
<1>10. Unrenamed'
  <2> SUFFICES ASSUME count.renames = 0, NEW c \in contexts' PROVE OwnLease(c)'
    BY <1>3 DEF Unrenamed
  <2>1. /\ c \in contexts /\ c.tab # t /\ c.path \in Path /\ c.lease # 0 /\ OwnLease(c)
        /\ leases[c.lease].tab # t
    BY <1>1 DEF LeaseInvariant, LeaseTypes, Notebook, Unrenamed, LocksMatch
  <2> QED
    BY <1>1, <1>6, <2>1 DEF OwnLease
<1>11. RecordNamesHolder'
  <2> SUFFICES ASSUME NEW p \in Path, record[p].fresh, lock'[p] \in live'
               PROVE  record[p].owner = leases[lock'[p]].tab
    BY <1>1 DEF RecordNamesHolder
  <2>1. lock'[p] # 0 /\ lock'[p] \in live
    BY <1>1, <1>2
  <2> QED
    BY <1>5, <2>1 DEF LeaseInvariant, RecordNamesHolder
<1> QED
  BY <1>1, <1>4, <1>7, <1>8, <1>9, <1>10, <1>11, StoredApart DEF LeaseInvariant

LEMMA LeaseInitEstablishes == LeaseInit => LeaseInvariant
<1> SUFFICES ASSUME LeaseInit PROVE LeaseInvariant
  OBVIOUS
<1>1. LeaseTypes
  <2>1. leases \in Seq(Lease) /\ Len(leases) = 0 /\ live = {} /\ contexts = {}
    BY DEF LeaseInit
  <2>2. stored \in [Path -> Seq(Nat) \cup {Absent}]
    <3>1. {Absent, <<>>} \subseteq Seq(Nat) \cup {Absent}
      OBVIOUS
    <3>2. stored \in [Path -> {Absent, <<>>}]
      BY DEF LeaseInit
    <3> QED
      BY <3>1, <3>2
  <2>3. record \in [Path -> Record] /\ lock \in [Path -> 0 .. Len(leases)]
    BY <2>1 DEF LeaseInit, NoRecord, Record
  <2>4. count \in [writes : Nat, renames : Nat, deaths : Nat]
    BY DEF LeaseInit
  <2> QED
    BY <2>1, <2>2, <2>3, <2>4 DEF LeaseTypes
<1> QED
  BY <1>1 DEF LeaseInit, LeaseInvariant, LocksMatch, GrantedAlone, Unrenamed, LocksAreUsed, RecordNamesHolder, NoRecord

LEMMA LeaseNextKeeps ==
  ASSUME LeaseInvariant, [LeaseNext]_leaseVars
  PROVE  LeaseInvariant' /\ Continues
<1>1. ASSUME NEW t \in Tab, NEW p \in Path, Acquire(t, p) PROVE LeaseInvariant' /\ Continues
  BY <1>1, AcquireKeeps, StoredApart DEF Acquire, LeaseInvariant
<1>2. ASSUME NEW c \in contexts, Granted(c) PROVE LeaseInvariant' /\ Continues
  BY <1>2, GrantedKeeps, StoredApart DEF Granted, LeaseInvariant
<1>3. ASSUME NEW l \in live, Heartbeat(l) PROVE LeaseInvariant' /\ Continues
  BY <1>3, HeartbeatKeeps, StoredApart DEF Heartbeat, LeaseInvariant
<1>4. ASSUME NEW p \in Path, Stale(p) PROVE LeaseInvariant' /\ Continues
  BY <1>4, StaleKeeps, StoredApart DEF Stale, LeaseInvariant
<1>5. CASE UNCHANGED leaseVars
  <2>1. record' \in [Path -> Record] /\ RecordNamesHolder'
    BY <1>5 DEF leaseVars, LeaseInvariant, LeaseTypes, RecordNamesHolder
  <2> QED
    BY <1>5, <2>1, RecordStep, StoredApart DEF leaseVars, LeaseInvariant
<1> QED
  BY <1>1, <1>2, <1>3, <1>4, <1>5, DieKeeps, SetupKeeps, WriteKeeps, CloseKeeps, RenameKeeps DEF LeaseNext

-----------------------------------------------------------------------------
(* The theorems. *)

\* The inductive invariant holds of every behaviour.
THEOREM LeaseInvariance == LeaseSpec => []LeaseInvariant
BY LeaseInitEstablishes, LeaseNextKeeps, PTL DEF LeaseSpec

\* "Closing the owner releases the lock", and the liveness record "reports the
\* owner": locks, records and open notebooks hang together through every order
\* of closing, dying, failing and renaming (browser-workspace.ts, acquire and
\* release).
THEOREM LeaseInvHolds == LeaseSpec => []LeaseInv
<1>1. LeaseInvariant => LeaseInv
  <2> SUFFICES ASSUME LeaseInvariant PROVE LeaseTypeOK
    BY DEF LeaseInvariant, LeaseInv
  <2>1. DOMAIN leases = 1 .. Len(leases)
    BY DEF LeaseInvariant, LeaseTypes
  <2> QED
    BY <2>1 DEF LeaseInvariant, LeaseTypes, LeaseTypeOK, Record, Notebook, LeaseStage
<1> QED
  BY <1>1, LeaseInvariance, PTL

\* Without renames, what is stored is only ever continued, never replaced by a
\* tab that has not seen the latest changes, although IndexedDB compares no
\* revisions (browser-store.ts; browser-workspace.ts).
THEOREM NoConflictingWritesHolds == LeaseSpec => NoConflictingWrites
<1>1. LeaseInvariant /\ [LeaseNext]_leaseVars => [Continues]_leaseVars
  BY LeaseNextKeeps
<1> QED
  BY <1>1, LeaseInvariance, PTL DEF LeaseSpec, NoConflictingWrites, Continues
=============================================================================
