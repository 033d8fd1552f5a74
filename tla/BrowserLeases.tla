---------------------------- MODULE BrowserLeases ----------------------------
(***************************************************************************)
(* Notebooks of browser mode in several tabs (web/src/browser-workspace.ts, *)
(* and the parts of bootstrap.ts, workspace-tools.ts and browser-store.ts   *)
(* that open, store, rename and close them).  A notebook is opened under an *)
(* exclusive Web Lock named by its path; a liveness record in localStorage  *)
(* says who holds it.  IndexedDB is shared by the tabs and written without  *)
(* comparing revisions, so the lock is all that orders the writers.         *)
(*                                                                         *)
(* The content of a notebook is the sequence of the changes made to it.    *)
(***************************************************************************)
EXTENDS Integers, SequencesExt

CONSTANTS
  Tab, Path,
  NoTab, Absent,          \* no owner, no notebook
  MaxOpens, MaxWrites, MaxRenames, MaxDeaths   \* bounds

ASSUME LeaseAssumption == NoTab \notin Tab /\ Absent \notin Seq(Nat)

VARIABLES
  leases,    \* the leases ever granted: [tab, path]; a lease is its number
  lock,      \* the lease that holds the Web Lock of each path, 0 if free
  live,      \* leases of the map of their BrowserWorkspace
  record,    \* the liveness record of each path: [owner, fresh]
  contexts,  \* open notebooks: [tab, lease, path, stage, log]
  stored,    \* IndexedDB: the content of each notebook
  count      \* [writes, renames, deaths]
leaseVars == <<leases, lock, live, record, contexts, stored, count>>

NoRecord == [owner |-> NoTab, fresh |-> FALSE]

LeaseInit ==
  /\ leases = <<>> /\ lock = [p \in Path |-> 0] /\ live = {}
  /\ record = [p \in Path |-> NoRecord] /\ contexts = {}
  /\ stored \in [Path -> {Absent, <<>>}]
  /\ count = [writes |-> 0, renames |-> 0, deaths |-> 0]

ContextNext(t, lease, p) == [tab |-> t, lease |-> lease + 1, path |-> p, stage |-> "setup", log |-> <<>>]
Context(t, lease, p) == [tab |-> t, lease |-> lease, path |-> p, stage |-> "setup", log |-> <<>>]
Becomes(old, new) == contexts' = (contexts \ {old}) \cup {new}

\* `acquire`: a tab that has a lease of the path uses it again.
Mine(t, p) == {l \in live : leases[l] = [tab |-> t, path |-> p]}
LockedByRecord(p) == record[p].fresh
Locked(p) == lock[p] # 0
Acquire(t, p) ==
  /\ ~ \E c \in contexts : c.tab = t /\ (c.path = p \/ c.stage = "setup")
  /\ \/ /\ \E l \in Mine(t, p) : contexts' = contexts \cup {Context(t, l, p)}
        /\ UNCHANGED <<leases, lock, live>>
     \/ /\ Mine(t, p) = {} /\ ~Locked(p) /\ Len(leases) < MaxOpens
        /\ LET l == Len(leases) + 1 IN
             /\ leases' = Append(leases, [tab |-> t, path |-> p])
             /\ lock' = [lock EXCEPT ![p] = l]
             /\ contexts' = contexts \cup {[Context(t, l, p) EXCEPT !.stage = "granted"]}
        /\ UNCHANGED live
  /\ UNCHANGED <<record, stored, count>>

\* The callback of the granted lock: `announce`, then every 30 seconds.
AnnounceFirst(p, t) ==
  record' = IF record[p].fresh THEN record
            ELSE [record EXCEPT ![p] = [owner |-> t, fresh |-> TRUE]]
Announce(p, t) == record' = [record EXCEPT ![p] = [owner |-> t, fresh |-> TRUE]]
Granted(c) ==
  /\ c.stage = "granted"
  /\ Announce(c.path, c.tab)
  /\ live' = live \cup {c.lease}
  /\ Becomes(c, [c EXCEPT !.stage = "setup"])
  /\ UNCHANGED <<leases, lock, stored, count>>
Heartbeat(l) ==
  /\ l \in live /\ Announce(leases[l].path, leases[l].tab)
  /\ UNCHANGED <<leases, lock, live, contexts, stored, count>>
\* A record without heartbeats goes stale.
Stale(p) ==
  /\ record[p].fresh
  /\ ~ \E l \in live : leases[l] = [tab |-> record[p].owner, path |-> p]
  /\ record' = [record EXCEPT ![p].fresh = FALSE]
  /\ UNCHANGED <<leases, lock, live, contexts, stored, count>>

\* `release`, once for each lease: the record goes if it is fresh and one's own.
ReleaseLocked(l) ==
  LET p == leases[l].path IN
  /\ live' = live \ {l} /\ UNCHANGED lock
  /\ record' = IF record[p] = [owner |-> leases[l].tab, fresh |-> TRUE]
               THEN [record EXCEPT ![p] = NoRecord] ELSE record
Release(l) ==
  LET p == leases[l].path IN
  IF l \in live
  THEN /\ live' = live \ {l} /\ lock' = [lock EXCEPT ![p] = 0]
       /\ record' = IF record[p] = [owner |-> leases[l].tab, fresh |-> TRUE]
                    THEN [record EXCEPT ![p] = NoRecord] ELSE record
  ELSE UNCHANGED <<live, lock, record>>

\* The setup command: the stored notebook, or a new one where the page starts
\* with it; a notebook that cannot be opened gives its lease back.
Setup(c) ==
  /\ c.stage = "setup"
  /\ \/ /\ stored[c.path] # Absent
        /\ Becomes(c, [c EXCEPT !.stage = "open", !.log = stored[c.path]])
        /\ UNCHANGED <<live, lock, record, stored>>
     \/ /\ stored[c.path] = Absent
        /\ Becomes(c, [c EXCEPT !.stage = "open"])
        /\ stored' = [stored EXCEPT ![c.path] = <<>>]
        /\ UNCHANGED <<live, lock, record>>
     \/ /\ contexts' = contexts \ {c} /\ Release(c.lease) /\ UNCHANGED stored
  /\ UNCHANGED <<leases, count>>

\* A command of the open notebook: its whole snapshot is put.
PutSnapshot(c) ==
  /\ c.stage = "open" /\ count.writes < MaxWrites
  /\ LET log == Append(c.log, count.writes + 1) IN
       /\ stored' = [stored EXCEPT ![c.path] = log]
       /\ Becomes(c, [c EXCEPT !.log = log])
  /\ count' = [count EXCEPT !.writes = @ + 1]
  /\ UNCHANGED <<leases, lock, live, record>>

\* The destination must be free; the lease stays on the path it was taken for.
Rename(c, p) ==
  /\ c.stage = "open" /\ count.renames < MaxRenames /\ stored[p] = Absent
  /\ stored' = [stored EXCEPT ![p] = c.log, ![c.path] = Absent]
  /\ Becomes(c, [c EXCEPT !.path = p])
  /\ count' = [count EXCEPT !.renames = @ + 1]
  /\ UNCHANGED <<leases, lock, live, record>>

CloseNotebook(c) ==
  /\ c.stage = "open"
  /\ contexts' = contexts \ {c} /\ Release(c.lease)
  /\ UNCHANGED <<leases, stored, count>>

\* The tab is closed or reloaded, or crashes: the browser releases its locks,
\* the records stay.
Die(t) ==
  /\ count.deaths < MaxDeaths /\ count' = [count EXCEPT !.deaths = @ + 1]
  /\ contexts' = {c \in contexts : c.tab # t}
  /\ lock' = [p \in Path |-> IF lock[p] # 0 /\ leases[lock[p]].tab = t THEN 0 ELSE lock[p]]
  /\ live' = {l \in live : leases[l].tab # t}
  /\ UNCHANGED <<leases, record, stored>>

LeaseNext ==
  \/ \E t \in Tab : Die(t) \/ \E p \in Path : Acquire(t, p)
  \/ \E c \in contexts : Granted(c) \/ Setup(c) \/ PutSnapshot(c) \/ CloseNotebook(c)
                           \/ \E p \in Path : Rename(c, p)
  \/ \E l \in live : Heartbeat(l)
  \/ \E p \in Path : Stale(p)

LeaseSpec == LeaseInit /\ [][LeaseNext]_leaseVars

----------------------------------------------------------------------------
(* Properties. *)

LeaseTypeOK ==
  /\ lock \in [Path -> 0 .. Len(leases)]
  /\ live \subseteq DOMAIN leases
  /\ record \in [Path -> [owner : Tab \cup {NoTab}, fresh : BOOLEAN]]
  /\ \A c \in contexts : c.stage \in {"granted", "setup", "open"} /\ c.lease \in DOMAIN leases

\* As long as no notebook is renamed, it is only ever continued from what is
\* stored, never replaced by a tab that has not seen the latest changes.
NoConflictingWrites ==
  [][ count'.renames = 0 => \A p \in Path : stored[p] # Absent /\ stored'[p] # Absent =>
          IsPrefix(stored[p], stored'[p]) ]_leaseVars

\* "Closing the owner releases the lock": a lock is held for a notebook that is
\* open or being opened, through every order of closing, dying and failing.
LocksAreUsed ==
  \A p \in Path : lock[p] # 0 => \E c \in contexts : c.lease = lock[p]

\* "reports the owner": a fresh record names the tab that holds the lock, unless
\* nobody does or its holder has not announced itself yet.
RecordNamesHolder ==
  \A p \in Path : record[p].fresh /\ lock[p] \in live => record[p].owner = leases[lock[p]].tab

\* Locks, records and open notebooks hang together.
LeaseInv == LeaseTypeOK /\ LocksAreUsed /\ RecordNamesHolder

\* "An origin-wide Web Lock rejects another tab instead of allowing conflicting
\* writes" (docs/browser-runtime.md:235): no two tabs have a notebook open.
OneTabPerNotebook ==
  \A c, d \in contexts :
    c.stage = "open" /\ d.stage = "open" /\ c.path = d.path => c.tab = d.tab
=============================================================================
