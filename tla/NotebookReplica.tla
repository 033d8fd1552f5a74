---------------------------- MODULE NotebookReplica ----------------------------
(***************************************************************************)
(* The replica of a notebook (notebook-core, NotebookState): it applies a  *)
(* command optimistically before it is sent, adopts the snapshot of the    *)
(* result, and can be replaced by a snapshot as a whole.  Operators on     *)
(* records; NotebookPage composes them with the editor and the gateway.    *)
(*                                                                         *)
(* A command is named by a number, which stands for its command id and its *)
(* idempotency key: results carry both of the command they answer.         *)
(***************************************************************************)
EXTENDS NotebookCells

SyncStates == {"Synchronized", "Dirty", "Executing", "Disconnected", "Error"}
Busy == {"Dirty", "Executing"}

\* A snapshot is its cells and its revision.
Snapshot(cells, rev) == [cells |-> cells, rev |-> rev]

\* NotebookState::new
NewReplica(snap) ==
  [cells |-> snap.cells, rev |-> snap.rev, sync |-> "Synchronized",
   pending |-> {}, applied |-> {}]

\* The state a command leaves the replica in until its result is there.
Status(sync, kind) ==
  CASE kind = "modify" -> "Dirty"
    [] kind = "execute" -> "Executing"
    [] kind = "reconnect" -> "Disconnected"
    [] OTHER -> sync

\* prepare: the revision must be the replica's, which does not change.
PrepareCommand(s, cmd) ==
  LET proposal == IF cmd.kind = "modify" THEN Proposal(s.cells, cmd.changes)
                  ELSE [ok |-> TRUE, cells |-> s.cells]
      ok == cmd.expected = s.rev /\ proposal.ok
  IN [ok |-> ok,
      state |-> IF ~ok THEN s
                ELSE [s EXCEPT !.cells = proposal.cells, !.sync = Status(@, cmd.kind),
                               !.pending = @ \cup {cmd.n}]]

\* apply_result: a result is adopted once, if it answers a pending command and
\* neither its base nor its snapshot is older than the replica; a refused
\* result leaves the replica as it was, an error leaves the optimistic cells.
ApplyResult(s, res) ==
  LET stale == res.base < s.rev \/ (res.ok /\ res.rev < s.rev)
      settled == [s EXCEPT !.pending = @ \ {res.n}, !.applied = @ \cup {res.n}]
      rest == IF settled.pending = {} THEN "Synchronized" ELSE "Dirty"
  IN IF res.n \in s.applied THEN [ok |-> TRUE, state |-> s]
     ELSE IF res.n \notin s.pending \/ stale THEN [ok |-> FALSE, state |-> s]
     ELSE [ok |-> TRUE,
           state |-> IF res.ok
                     THEN [settled EXCEPT !.cells = res.cells, !.rev = res.rev, !.sync = rest]
                     ELSE [settled EXCEPT !.sync = "Error"]]

\* replace_snapshot: an older snapshot is refused; what was pending is dropped.
ReplaceSnapshot(s, snap) ==
  LET ok == snap.rev >= s.rev IN
  [ok |-> ok,
   state |-> IF ~ok THEN s
             ELSE [s EXCEPT !.cells = snap.cells, !.rev = snap.rev, !.pending = {},
                            !.sync = "Synchronized"]]
=============================================================================
