----------------------------- MODULE NotebookPage -----------------------------
(***************************************************************************)
(* A notebook page at work: the editor (notebook-egui in the WASM bridge), *)
(* the replica (notebook-core), the page's queue of commands and tool      *)
(* transactions, and the gateway it talks to.                              *)
(*                                                                         *)
(* The editor emits commands at the end of a frame.  The queue lets one of *)
(* them out at a time: it is stamped with the replica's revision, prepared *)
(* on the replica, sent, and its result is given to the replica and then   *)
(* to the editor before the next one starts.  Progress of an execution     *)
(* goes to the editor only.  A JavaScript task runs to its next await, so  *)
(* the frame, the start and the end of a command are one step each.        *)
(*                                                                         *)
(* The gateway is reduced to what the page can observe (Gateway.tla has    *)
(* its steps): the notebook file, the revision it gave to the cells it     *)
(* committed last, and the answer under way.  Another program may write    *)
(* the file; answers may be lost; another client may drive.                *)
(***************************************************************************)
EXTENDS NotebookEditor

CONSTANTS
  Sessions,     \* what the user and others do: [gestures, opened, commands, changes]:
                \* kinds of gestures, cells at the start, bounds of commands and of
                \* changes made by others
  MaxFaults     \* bound of the model: lost answers and failed executions

ASSUME PageAssumption ==
  /\ MaxFaults \in Nat
  /\ \A s \in Sessions : s.opened \in 0..MaxCells /\ s.commands \in Nat /\ s.changes \in Nat

VARIABLES
  session,  \* the session, of Sessions
  ed,       \* the editor
  queue,    \* commands, tool requests and reconciliations, the head first
  replica,  \* NotebookApplication
  before,   \* the replica's snapshot when the head was started
  flight,   \* how far the head is, and its answer
  news,     \* watch: the snapshot to reconcile with, or none
  file,     \* Jupyter: the notebook file
  log,      \* gateway: the cells of each revision it committed; the last is current
  driver,   \* gateway: does this client drive
  origin,   \* gateway: who published the last snapshot
  issued,   \* number of commands emitted
  faults, foreign,
  served    \* history: the numbers of the modifications the gateway committed

pageVars == <<ed, queue, replica, before, news, issued>>
gatewayVars == <<file, log, driver, origin>>
allVars == <<session, pageVars, flight, gatewayVars, faults, foreign, served>>

NoFlight == [at |-> "idle"]
Waiting == [at |-> "sent"]
Running == [at |-> "running"]
Answer(ok, base, rev, cells) ==
  [at |-> "answered", ok |-> ok, base |-> base, rev |-> rev, cells |-> cells]
First == queue[1]
Rev == Len(log)
Current == Snapshot(log[Rev], Rev)

PageInit ==
  /\ session \in Sessions
  /\ file \in {c \in [1..session.opened -> {NewCell(id) : id \in CellId}] : UniqueIds(c)}
  /\ log = <<file>>
  /\ ed = NewEditor(Snapshot(file, 1), FALSE)
  /\ replica = NewReplica(Snapshot(file, 1))
  /\ before = Snapshot(file, 1)
  /\ queue = <<>> /\ flight = NoFlight /\ news = <<>>
  /\ driver = TRUE /\ origin = "me"
  /\ issued = 0 /\ faults = 0 /\ foreign = 0 /\ served = <<>>

-----------------------------------------------------------------------------
(* The user. *)

Enqueue(items) == queue' = queue \o items

\* The end of a frame: the commands it emitted are numbered and dispatched.
Frame(e) ==
  LET out == e.outbound IN
  /\ issued + Len(out) <= session.commands
  /\ ed' = Drained(e)
  /\ Enqueue([i \in DOMAIN out |-> [out[i] EXCEPT !.n = issued + i]])
  /\ issued' = issued + Len(out)

Untouched == UNCHANGED <<replica, before, flight, news, gatewayVars, faults, foreign, served>>

\* Ids that are in use somewhere: a new cell has a fresh one.
ChangeIds(batch) == {batch[i].cell.id : i \in {j \in DOMAIN batch : "cell" \in DOMAIN batch[j]}}
StackIds(stack) == UNION {ChangeIds(stack[i]) \cup
                          {stack[i][j].id : j \in {k \in DOMAIN stack[i] : "id" \in DOMAIN stack[i][k]}}
                          : i \in DOMAIN stack}
Taken == UNION {Ids(log[r]) : r \in 1..Rev} \cup StackIds(ed.undo) \cup StackIds(ed.redo)
         \cup UNION {ChangeIds(queue[i].changes) : i \in DOMAIN queue} \cup Ids(file)
Fresh == CellId \ Taken

Does(gesture) == gesture \in session.gestures

\* The editors take text unless the page is read-only or a tool is at work.
Type ==
  /\ Does("type") /\ ~ed.readOnly /\ ~ed.busy
  /\ \E id \in DOMAIN ed.editors : \E text \in Source \ {ed.editors[id]} :
       ed' = Write(ed, id, text)
  /\ UNCHANGED <<queue, issued>> /\ Untouched

\* Keys and menus; those that are enabled only when idle say so.
Act(gesture, e) == Does(gesture) /\ ~ed.readOnly /\ e.outbound # <<>> /\ Frame(e) /\ Untouched
Save == Act("save", SaveEdits(ed))
Insert == \E id \in Ids(ed.cells), new \in Fresh : Act("insert", InsertBelow(ed, id, NewCell(new)))
Copy == \E id \in Ids(ed.cells), new \in Fresh :
          \/ Act("duplicate", Duplicate(ed, id, new))
          \/ Act("paste", Paste(ed, id, CellOf(ed.cells, id), new))
Delete == \E id \in Ids(ed.cells) : Act("delete", DeleteCell(ed, id))
Move == \E id \in Ids(ed.cells), i \in 0..(Len(ed.cells) - 1) :
          Idle(ed) /\ Act("move", MoveCell(ed, id, i))
Retype == \E id \in Ids(ed.cells), k \in Kind : Act("kind", SetKind(ed, id, k))
Clear == Act("clear", ClearAll(ed))
Replace == \E old, new \in Source : old # new /\ Act("replace", ReplaceText(ed, old, new))
Execute == \E id \in Ids(ed.cells) : Act("run", Run(ed, id))
UndoRedo == \E undoing \in BOOLEAN : Act("undo", Replay(ed, undoing))
Reconnect == ed.sync = "Disconnected" /\ Act("reconnect", Command(ed, "reconnect", NoCell))
Interrupt == Act("interrupt", Command(ed, "interrupt", NoCell))
Complete == \E id \in Ids(ed.cells) : Act("complete", Command(ed, "complete", id))

\* A tool transaction is requested: a query, then a change of one cell's text.
\* The two have numbers of their own, -n and n.
ToolQuery == [by |-> "tool", kind |-> "query", changes |-> <<>>, cell |-> NoCell,
              expected |-> 0, n |-> -(issued + 1)]
ToolModify(changes) ==
  [First EXCEPT !.kind = "modify", !.changes = changes, !.n = -First.n]
RequestTool ==
  /\ Does("tool") /\ issued < session.commands
  /\ Enqueue(<<ToolQuery>>)
  /\ issued' = issued + 1
  /\ UNCHANGED ed /\ Untouched

Gesture == \/ Type \/ Save \/ Insert \/ Copy \/ Delete \/ Move \/ Retype \/ Clear \/ Replace
           \/ Execute \/ UndoRedo \/ Reconnect \/ Interrupt \/ Complete \/ RequestTool

-----------------------------------------------------------------------------
(* The queue: the head starts when the one before it is done. *)

\* Mutant: the queue waits for a head that was rejected.
DoneStalled(e) ==
  /\ queue' = IF flight.at = "lost" THEN queue ELSE Tail(queue)
  /\ flight' = IF flight.at = "lost" THEN flight ELSE NoFlight
  /\ ed' = e

\* The head is done; a tool leaves the editor to the user again.
Done(e) ==
  /\ queue' = Tail(queue)
  /\ ed' = [e EXCEPT !.busy = FALSE]
  /\ flight' = NoFlight

\* Mutant: the editor is not told of a rejected promise.
BrokenSilently(e) == e

\* A failure that is not an answer: the bridge shows the page as disconnected,
\* a tool reports an error.
Broken(e) == ShowError(e, IF First.by = "tool" THEN "Error" ELSE "Disconnected")
\* Mutant: what was prepared stays in the replica when the command fails.
KeptBack(s) == s

RolledBack(s) == ReplaceSnapshot(s, before).state

\* Absolute positions keep the revision they were made for.
Positional(cmd) ==
  cmd.kind = "modify" /\ \E i \in DOMAIN cmd.changes : cmd.changes[i].op \in {"insert", "move"}
Stamped(cmd) == IF Positional(cmd) THEN cmd ELSE [cmd EXCEPT !.expected = replica.rev]

\* A tool starts only in an editor without pending edits.
Refused == First.by = "tool" /\ First.kind = "query" /\ ~ReadyForTools(ed)

Send ==
  /\ queue # <<>> /\ First.by # "watch" /\ flight = NoFlight
  /\ before' = Snapshot(replica.cells, replica.rev)
  /\ LET cmd == Stamped(First)
         prepared == PrepareCommand(replica, cmd)
     IN IF Refused THEN Done(ed) /\ UNCHANGED replica
        ELSE IF ~prepared.ok
        THEN Done(Broken(ed)) /\ replica' = ReplaceSnapshot(replica, before').state
        ELSE /\ replica' = prepared.state
             /\ flight' = Waiting
             /\ queue' = <<cmd>> \o Tail(queue)
             /\ ed' = [ed EXCEPT !.busy = (First.by = "tool")]
  /\ UNCHANGED <<news, issued, gatewayVars, faults, foreign, served>>

-----------------------------------------------------------------------------
(* The gateway. *)

\* Mutant: a modification trusts the revision without reading the file.
CommittedBlindly(cells) == log

\* `committed`: the cells read or written get a revision if they are new.
Committed(cells) == IF log[Rev] = cells THEN log ELSE Append(log, cells)

Publish(l) == log' = l /\ origin' = "me"
Reply(ok, l) == flight' = Answer(ok, IF ok THEN First.expected ELSE Rev, Len(l), l[Len(l)])
Tell(ok, l) == Publish(l) /\ Reply(ok, l)

\* A command is refused when its revision is not the current one, or another
\* client drives; a query and a completion may be made by anyone.
Allowed == First.expected = Rev /\ (driver \/ First.kind \in {"query", "complete"})

Serve ==
  /\ flight = Waiting
  /\ LET l == Committed(file)
         proposal == Proposal(file, First.changes)
         next == Merged(file, proposal.cells)
     IN \/ /\ ~Allowed
           /\ Reply(FALSE, log)
           /\ UNCHANGED <<file, log, origin, served>>
        \/ /\ Allowed /\ First.kind = "modify"
           /\ IF Len(l) = First.expected /\ proposal.ok /\ Storable(next)
              THEN /\ file' = next
                   /\ Tell(TRUE, IF next = file THEN l ELSE Append(l, next))
                   /\ served' = Append(served, First.n)
              ELSE Tell(FALSE, l) /\ UNCHANGED <<file, served>>
        \/ /\ Allowed /\ First.kind = "complete"
           /\ Reply(TRUE, log)
           /\ UNCHANGED <<file, log, origin, served>>
        \/ /\ Allowed /\ First.kind \in {"query", "reconnect", "interrupt"}
           /\ Tell(TRUE, l)
           /\ UNCHANGED <<file, served>>
        \/ /\ Allowed /\ First.kind = "execute" /\ First.cell \in Ids(file)
           /\ flight' = Running
           /\ UNCHANGED <<file, log, origin, served>>
        \/ /\ Allowed /\ First.kind = "execute" /\ First.cell \notin Ids(file)
           /\ Reply(FALSE, log)
           /\ UNCHANGED <<file, log, origin, served>>
  /\ UNCHANGED <<pageVars, driver, faults, foreign>>

\* An execution clears the outputs of its cell, then has others: each time the
\* file is saved and committed, and the editor is shown the new snapshot.
Output ==
  /\ flight = Running
  /\ \E out \in 0..1 :
       LET next == [file EXCEPT ![PositionOf(file, First.cell)].out = out] IN
       /\ First.cell \in Ids(file) /\ next # log[Rev]
       /\ Len(log) < session.commands + session.changes + 2
       /\ file' = next
       /\ Publish(Append(log, next))
       /\ ed' = ShowSnapshot(ed, Snapshot(next, Rev + 1), "Executing")
  /\ UNCHANGED <<queue, replica, before, news, issued, flight, driver, faults, foreign, served>>
Finish ==
  /\ flight = Running
  /\ Tell(TRUE, log)
  /\ UNCHANGED <<pageVars, file, driver, faults, foreign, served>>
FailRun ==
  /\ flight = Running /\ faults < MaxFaults
  /\ faults' = faults + 1
  /\ Reply(FALSE, log)
  /\ UNCHANGED <<pageVars, gatewayVars, foreign, served>>

\* The request or its answer is lost, or the page stops waiting.
Lose ==
  /\ flight.at \in {"sent", "running", "answered"} /\ faults < MaxFaults
  /\ faults' = faults + 1
  /\ flight' = [at |-> "lost"]
  /\ UNCHANGED <<pageVars, gatewayVars, foreign, served>>

-----------------------------------------------------------------------------
(* The answer. *)

Snap(a) == Snapshot(a.cells, a.rev)
Result == [n |-> First.n, ok |-> flight.ok, base |-> flight.base, rev |-> flight.rev,
           cells |-> flight.cells]
\* A tool goes on with a change of what its query showed.
ToolChange(cells) ==
  {<<UpdateChange(cells[i].id, s, Keep, Keep)>> : i \in DOMAIN cells, s \in Source}

Receive ==
  /\ flight.at = "answered"
  /\ LET applied == ApplyResult(replica, Result) IN
     \/ /\ ~applied.ok
        /\ replica' = RolledBack(applied.state) /\ Done(Broken(ed))
     \/ /\ applied.ok /\ ~flight.ok
        /\ replica' = RolledBack(applied.state) /\ Done(ShowError(ed, "Error"))
     \/ /\ applied.ok /\ flight.ok
        /\ replica' = applied.state
        /\ LET e == IF First.kind = "complete" THEN ed
                    ELSE ShowSnapshot(ed, Snap(flight), "Synchronized")
           IN IF First.by = "tool" /\ First.kind = "query"
              THEN \/ Done(e)
                   \/ \E ch \in ToolChange(e.cells) :
                        /\ queue' = <<ToolModify(ch)>> \o Tail(queue)
                        /\ ed' = e /\ flight' = NoFlight
              ELSE Done(e)
  /\ UNCHANGED <<before, news, issued, gatewayVars, faults, foreign, served>>

ReceiveNothing ==
  /\ flight.at = "lost"
  /\ replica' = RolledBack(replica)
  /\ Done(Broken(ed))
  /\ UNCHANGED <<before, news, issued, gatewayVars, faults, foreign, served>>

-----------------------------------------------------------------------------
(* Others: a program that writes the file, a client that takes control. *)

Edited(cells) ==
  {[cells EXCEPT ![i].src = s] : i \in DOMAIN cells, s \in Source} \ {cells}
ForeignWrite ==
  /\ Does("foreign") /\ foreign < session.changes
  /\ foreign' = foreign + 1
  /\ \E c \in Edited(file) : file' = c
  /\ UNCHANGED <<pageVars, flight, log, driver, origin, faults, served>>
\* The other client claims control, commits a change, or gives control back; an
\* execution cannot be taken from its driver.
ForeignClaim ==
  /\ Does("observe") /\ foreign < session.changes /\ flight # Running
  /\ foreign' = foreign + 1
  /\ driver' = ~driver
  /\ UNCHANGED <<pageVars, flight, file, log, origin, faults, served>>
ForeignCommit ==
  /\ Does("observe") /\ foreign < session.changes /\ ~driver
  /\ foreign' = foreign + 1
  /\ \E c \in Edited(file) : file' = c /\ log' = Append(Committed(file), c)
  /\ origin' = "other"
  /\ UNCHANGED <<pageVars, flight, driver, faults, served>>

\* The page's watch answers: an observer reconciles with what others published,
\* through the queue.
Watch ==
  LET adopts == origin = "other" /\ (ed.readOnly \/ ~driver)
      queued == \E i \in DOMAIN queue : queue[i].by = "watch"
  IN /\ Does("observe")
     /\ news' = IF adopts THEN <<Current>> ELSE news
     /\ queue' = IF adopts /\ ~queued
                 THEN Append(queue, [by |-> "watch", kind |-> "adopt", changes |-> <<>>,
                                     cell |-> NoCell, expected |-> 0, n |-> 0])
                 ELSE queue
     /\ ed' = [ed EXCEPT !.readOnly = ~driver]
     /\ <<news', queue', ed'>> # <<news, queue, ed>>
     /\ UNCHANGED <<replica, before, flight, issued, gatewayVars, faults, foreign, served>>

Adopt ==
  /\ queue # <<>> /\ First.by = "watch" /\ flight = NoFlight
  /\ news' = <<>> /\ queue' = Tail(queue)
  /\ IF news # <<>> /\ news[1].rev >= replica.rev
     THEN /\ replica' = ReplaceSnapshot(replica, news[1]).state
          /\ ed' = IF news[1].rev < ed.rev THEN [ed EXCEPT !.readOnly = TRUE]
                   ELSE ShowSnapshot(ed, news[1], "Synchronized")
     ELSE UNCHANGED <<replica, ed>>
  /\ UNCHANGED <<before, flight, issued, gatewayVars, faults, foreign, served>>

Others == ForeignWrite \/ ForeignClaim \/ ForeignCommit \/ Watch
Progress == Send \/ Serve \/ Finish \/ Receive \/ ReceiveNothing \/ Adopt
PageNext ==
  /\ Gesture \/ Progress \/ Output \/ FailRun \/ Lose \/ Others
  /\ UNCHANGED session

PageSpec == PageInit /\ [][PageNext]_allVars

-----------------------------------------------------------------------------
(* Properties. *)

PageTypeOK ==
  /\ ed.sync \in SyncStates /\ ed.dirty \subseteq DOMAIN ed.editors
  /\ ed.outbound = <<>> /\ DOMAIN ed.editors = Ids(ed.cells)
  /\ \A id \in DOMAIN ed.editors : ed.editors[id] \in Source
  /\ flight.at \in {"idle", "sent", "running", "answered", "lost"}
  /\ \A i \in DOMAIN file : file[i] \in Cell
  /\ ed.rev \in 1..Rev /\ replica.rev \in 1..Rev

\* Optimism is undone: what the editor shows, and what the replica holds when
\* nothing is under way, are the cells the gateway committed at that revision,
\* whatever was refused, lost or overtaken before.
ShowsCommitted ==
  /\ ed.cells = log[ed.rev]
  /\ flight = NoFlight => replica.cells = log[replica.rev] /\ replica.pending = {}

\* The replica is never ahead of what the user sees: a command is prepared for a
\* revision the editor has shown.
ReplicaBehindEditor == replica.rev <= ed.rev

\* A modification is committed for the cells the replica had when it was sent:
\* nobody else's change, in the file or through the gateway, is overwritten.
CommitsOnSeen ==
  [][(file' # file /\ served' # served) => file = log[replica.rev]]_allVars

\* The user's modifications are committed in the order they were made, each at
\* most once.
InOrderOnce == \A i, j \in DOMAIN served : i < j => served[i] < served[j]

\* While every modification was committed and shown, the batch on top of the
\* undo stack can be applied to what is shown: the history, computed from the cells shown
\* when each gesture was made, follows the notebook through undo and redo.
UndoApplies ==
  (queue = <<>> /\ Len(served) = issued /\ ed.rev = Rev /\ ed.undo # <<>>
   /\ Last(ed.undo) # <<>>) =>
    Proposal(ed.cells, Last(ed.undo)).ok

\* A tool's result finds nothing typed in the editors it rewrites.
ToolsSpareDrafts == ed.busy => ed.dirty = {}

\* When nothing is pending the buttons are enabled again: no failure leaves the
\* page marked dirty or executing.
IdleWhenDone == queue = <<>> => Idle(ed)

\* The editor, the replica and the queue hang together.
PageInv == PageTypeOK /\ ReplicaBehindEditor /\ InOrderOnce /\ ToolsSpareDrafts /\ IdleWhenDone

\* Every command and every tool transaction ends, whatever the ones before it
\* came to: each step of the queue brings its end nearer, also those after a
\* failure, and only a user, another client or an output adds steps.
\* (A query counts twice, for the change it may be followed by.)
Queries == {i \in DOMAIN queue : queue[i].by = "tool" /\ queue[i].kind = "query"}
Stage == CASE flight.at = "idle" -> 0 [] flight.at = "sent" -> 1
           [] flight.at = "running" -> 2 [] OTHER -> 3
Remaining == 4 * Len(queue) + 4 * Cardinality(Queries) - Stage
QueueAdvances == [][Progress => Remaining' < Remaining]_allVars

-----------------------------------------------------------------------------
(* What the repository says of the page, and the code does not do. *)

\* "Preserve draft source locally while an update is pending"
\* (docs/investigations/direct-jupyter-protocol.md): what was typed stays in its
\* editor until it is emitted or typed over. A snapshot that arrives rewrites
\* every editor (replace_state).
DraftsSurvive ==
  [][\A id \in ed.dirty : (id \in Ids(ed'.cells) /\ ed'.rev # ed.rev) =>
       ed'.editors[id] = ed.editors[id]]_allVars

\* "Reversible insert, update, delete, and move history; failed commands preserve
\* the prior state" (docs/frontend-parity.md): the history holds nothing when
\* nothing was ever committed. emit records the inverse before the command is
\* sent, and nothing takes it back.
HistoryIsCommitted == (queue = <<>> /\ served = <<>> /\ issued = 1) => ed.undo = <<>>

\* "Reversible insert, update, delete, and move history" (ibid.): a cell that was
\* deleted comes back with the text it had. The inverse of a deletion is taken
\* from the snapshot, which does not have the text flushed just before.
LastText(id) ==
  LET with == {r \in 1..Rev : id \in Ids(log[r])}
  IN CellOf(log[CHOOSE r \in with : \A q \in with : q <= r], id).src
ReturnsAsItWas ==
  [][\A id \in Ids(file') \ Ids(file) :
       (\E r \in 1..Rev : id \in Ids(log[r])) => CellOf(file', id).src = LastText(id)]_allVars

\* "Unsaved local edits block tools" (docs/frontend-tools.md): when a tool starts
\* no edit of the user is still waiting to be saved. The result of an earlier
\* command marks the editor synchronized although others are queued.
EditsBlockTools ==
  [][(flight = NoFlight /\ flight' = Waiting /\ First.kind = "query") =>
       \A i \in DOMAIN queue : queue[i].kind # "modify"]_allVars

\* "Refresh/reconnect retrieves persisted notebook state" (ibid.): a reconnect
\* that is answered shows what the gateway has. It is stamped and refused as
\* stale like any other command.
ReconnectRetrieves ==
  [][(flight.at = "answered" /\ First.kind = "reconnect" /\ flight' = NoFlight)
       => ed'.cells = log[Rev]]_allVars

\* "Interrupt remains available out of band to the driver"
\* (docs/collaboration.md): it does not wait behind the execution it is meant
\* to stop. The editor's interrupt goes through the queue.
InterruptIsOutOfBand ==
  ~(flight = Running /\ \E i \in DOMAIN queue : queue[i].kind = "interrupt")
=============================================================================
