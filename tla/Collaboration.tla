---------------------------- MODULE Collaboration ----------------------------
(***************************************************************************)
(* The workspace-wide single-driver policy of the gateway                  *)
(* (crates/notebook-runtime/src/collaboration.rs): clients join notebook   *)
(* rooms, at most one of them drives, silent clients lose their lease,     *)
(* authority is released, claimed, handed over or re-elected, and every    *)
(* change is announced to the long polls of events and follow views.       *)
(*                                                                         *)
(* Every handler runs under one mutex (server.rs, `authority`), so one     *)
(* handler is one step.  The struct is the record `ws`; each method is an  *)
(* operator from records to records, composed as the method composes its   *)
(* calls.  Data that is abstracted:                                        *)
(*   - a private capability and its public id are one Client; a client     *)
(*     that lost its lease and joins again is a fresh identity, so nothing *)
(*     of the old one is remembered;                                       *)
(*   - `touched` is kept as the seconds since then, idle[c], which stop    *)
(*     counting at Lease + 1: only "more than the lease" is ever asked;    *)
(*   - a room's event sequence is only compared with a poller's cursor, so *)
(*     it is kept as heard[p], the clients whose cursor is up to date; a   *)
(*     step that increments the sequence empties heard[p];                 *)
(*   - a snapshot is its revision, 0 for none; a follow view is its target *)
(*     path and driver; view_sequence, which changes whenever the view     *)
(*     does, is left out.                                                  *)
(***************************************************************************)
EXTENDS Integers, FiniteSets

CONSTANTS
  Client,        \* connections (capabilities)
  Path,          \* notebook paths
  None,          \* "no driver", "no view", "no redirect"
  Lease,         \* ticks a silent member keeps its membership (45 s)
  MaxMembers,    \* collaborators per workspace (32)
  MaxRooms,      \* notebook rooms per gateway lifetime (256)
  MaxRedirects,  \* rename redirects per gateway lifetime (256)
  MaxActive,     \* bound of the model: accepted writes per room at once
  Revision,      \* notebook revisions an instance explores
  Pollers        \* clients whose event loop never stops

ASSUME CollaborationAssumption ==
  /\ None \notin Client \cup Path
  /\ IsFiniteSet(Client)
  /\ Lease \in Nat
  /\ MaxMembers \in Nat /\ MaxRooms \in Nat /\ MaxRedirects \in Nat
  /\ MaxActive \in Nat /\ Revision \subseteq Nat \ {0}
  /\ Pollers \subseteq Client

VARIABLES
  ws,        \* struct Collaboration
  informed   \* clients whose last state document names the current driver

vars == <<ws, informed>>

View == [path : Path, driver : Client]

Workspace ==
  [ members  : SUBSET Client,                \* Vec<Member> as a set ...
    ahead    : SUBSET (Client \X Client),    \* ... and its order
    idle     : [Client -> 0 .. Lease + 1],
    rooms    : SUBSET Path,
    inRoom   : [Path -> SUBSET Client],
    active   : [Path -> Nat],
    snapshot : [Path -> Nat],
    heard    : [Path -> SUBSET Client],
    driver   : Client \cup {None},
    released : BOOLEAN,
    view     : View \cup {None},
    redirect : [Path -> [Client -> Path \cup {None}]],
    redirects : Nat ]

NewWorkspace ==
  [ members |-> {}, ahead |-> {}, idle |-> [c \in Client |-> 0],
    rooms |-> {}, inRoom |-> [p \in Path |-> {}],
    active |-> [p \in Path |-> 0], snapshot |-> [p \in Path |-> 0],
    heard |-> [p \in Path |-> {}], driver |-> None, released |-> FALSE,
    view |-> None,
    redirect |-> [p \in Path |-> [c \in Client |-> None]], redirects |-> 0 ]

-----------------------------------------------------------------------------
(* Methods of the struct. *)

\* Mutant: the most recent member is elected.
PolicyLast(w) ==
  IF w.members = {} THEN None
  ELSE CHOOSE c \in w.members :
         \A d \in w.members \ {c} : <<d, c>> \in w.ahead

\* The default DriverPolicy, first_connected: the member that joined first.
Policy(w) ==
  IF w.members = {} THEN None
  ELSE CHOOSE c \in w.members :
         \A d \in w.members \ {c} : <<c, d>> \in w.ahead

\* Every room's sequence is incremented: no poller is up to date any more.
Announce(w) == [w EXCEPT !.heard = [p \in Path |-> {}]]

\* Mutants: a driver is replaced without its view, or without announcement.
SetDriverKeepingView(w, d) ==
  Announce(IF d = w.driver THEN w ELSE [w EXCEPT !.driver = d])
SetDriverSilently(w, d) ==
  IF d = w.driver THEN w ELSE [w EXCEPT !.driver = d, !.view = None]

\* A change of driver also drops the old driver's follow view.
SetDriver(w, d) ==
  Announce(IF d = w.driver THEN w
           ELSE [w EXCEPT !.driver = d, !.view = None])

\* Mutants: the lease ends a second early, or never.
KeptTooShort(w) ==
  {c \in w.members : w.idle[c] < Lease /\ \E p \in Path : c \in w.inRoom[p]}
KeptForEver(w) == {c \in w.members : \E p \in Path : c \in w.inRoom[p]}

\* Members with a live lease that are still in some room.
Kept(w) ==
  {c \in w.members : w.idle[c] <= Lease /\ \E p \in Path : c \in w.inRoom[p]}

\* The two `retain` calls, and the end of a release once nobody is left.
Prune(w) ==
  LET kept == Kept(w) IN
  [w EXCEPT !.members = kept,
            !.ahead = @ \cap (kept \X kept),
            !.idle = [c \in Client |-> IF c \in kept THEN w.idle[c] ELSE 0],
            !.inRoom = [p \in Path |-> w.inRoom[p] \cap kept],
            !.heard = [p \in Path |-> w.heard[p] \cap kept],
            !.redirect = [p \in Path |-> [c \in Client |->
                            IF c \in kept THEN w.redirect[p][c] ELSE None]],
            !.released = IF kept = {} THEN FALSE ELSE @]

\* Mutants: nobody is elected for a driver that left, or also after a release.
RefreshNoElection(w) == Prune(w)
RefreshAfterRelease(w) ==
  LET k == Prune(w) IN
  IF k.driver \notin k.members THEN SetDriver(k, Policy(k)) ELSE k

\* `refresh`.
Refresh(w) ==
  LET k == Prune(w) IN
  IF ~k.released /\ k.driver \notin k.members THEN SetDriver(k, Policy(k)) ELSE k

\* `room` creates the room of a path on demand, up to a lifetime limit.
CanOpen(w, p) == p \in w.rooms \/ Cardinality(w.rooms) < MaxRooms
Open(w, p) == IF CanOpen(w, p) THEN [w EXCEPT !.rooms = @ \cup {p}] ELSE w

\* `member`: every authenticated request refreshes the workspace first and
\* renews the caller's lease; a caller that is not in the room is refused
\* after that refresh (and after the room was created).
Admits(w, p, c) == c \in Refresh(w).inRoom[p]
Member(w, p, c) ==
  LET r == Open(Refresh(w), p) IN
  IF c \in r.inRoom[p] THEN [r EXCEPT !.idle[c] = 0] ELSE r

\* `require_driver`.
IsDriver(w, p, c) == Admits(w, p, c) /\ Refresh(w).driver = c

Busy(w) == \E p \in Path : w.active[p] > 0

\* `change_driver`, once its checks passed.
ChangeDriver(w, d) == SetDriver([w EXCEPT !.released = FALSE], d)

\* `state`: the answer brings the caller's cursor of that room up to date.
Hear(w, p, c) == [w EXCEPT !.heard[p] = @ \cup {c}]
State(w, p, c) == Hear(Member(w, p, c), p, c)

\* The body of `join` between its checks and its answer.
Seat(w, p, c) ==
  IF c \in w.members THEN [w EXCEPT !.inRoom[p] = @ \cup {c}]
  ELSE [w EXCEPT !.members = @ \cup {c},
                 !.ahead = @ \cup (w.members \X {c}),
                 !.idle[c] = 0,
                 !.inRoom[p] = @ \cup {c}]
Join(w, p, c) ==
  LET s == Seat(w, p, c)
      led == IF s.driver = None /\ ~s.released THEN SetDriver(s, Policy(s)) ELSE s
  IN  State(Announce(led), p, c)

\* A snapshot older than the room's is ignored, any other is announced.
Publish(w, p, rev) ==
  IF w.snapshot[p] > rev \/ ~CanOpen(w, p) THEN w
  ELSE [Open(w, p) EXCEPT !.snapshot[p] = rev, !.heard[p] = {}]

\* Where the event poll of client c on path p looks (`event_path`).
EventPath(w, p, c) == IF w.redirect[p][c] = None THEN p ELSE w.redirect[p][c]

\* `can_rename`, asked when a rename is accepted.
CanRename(w, old, new) ==
  /\ Cardinality(w.inRoom[old]) <= 1
  /\ new \notin w.rooms
  /\ w.redirects < MaxRedirects

\* Mutant: clients that followed an earlier rename are forgotten.
RenameForgetful(w, old, new) ==
  IF old \notin w.rooms THEN w
  ELSE
  [w EXCEPT !.rooms = (@ \ {old}) \cup {new},
            !.inRoom = [@ EXCEPT ![new] = w.inRoom[old], ![old] = {}],
            !.active = [@ EXCEPT ![new] = w.active[old], ![old] = 0],
            !.snapshot = [@ EXCEPT ![new] = w.snapshot[old], ![old] = 0],
            !.heard = [@ EXCEPT ![new] = {}, ![old] = {}],
            !.redirect[old] = [c \in Client |->
               IF c \in w.inRoom[old] THEN new ELSE @[c]],
            !.redirects = @ + 1]

\* `rename`: the room moves, whatever room the new path had is replaced, and
\* every subscription that led to the old path leads to the new one.
Rename(w, old, new) ==
  IF old \notin w.rooms THEN w
  ELSE
  LET fresh == {c \in w.inRoom[old] : w.redirect[old][c] = None} IN
  [w EXCEPT !.rooms = (@ \ {old}) \cup {new},
            !.inRoom = [@ EXCEPT ![new] = w.inRoom[old], ![old] = {}],
            !.active = [@ EXCEPT ![new] = w.active[old], ![old] = 0],
            !.snapshot = [@ EXCEPT ![new] = w.snapshot[old], ![old] = 0],
            !.heard = [@ EXCEPT ![new] = {}, ![old] = {}],
            !.redirect = [p \in Path |-> [c \in Client |->
               IF (p = old /\ c \in w.inRoom[old]) \/ w.redirect[p][c] = old
               THEN new ELSE w.redirect[p][c]]],
            !.redirects = @ + Cardinality(fresh)]

-----------------------------------------------------------------------------
(* The command ledger's use of the rooms (server.rs, dispatch). *)

\* An accepted write holds the room until it settles.
Accept(w, p, c) == [Member(w, p, c) EXCEPT !.active[p] = @ + 1]
SettleUnchecked(w, p) == [Open(w, p) EXCEPT !.active[p] = @ - 1]
Settle(w, p) ==
  [Open(w, p) EXCEPT !.active[p] = IF @ > 0 THEN @ - 1 ELSE 0]

-----------------------------------------------------------------------------
(* The requests. *)

\* What clients know once the step is taken: a change of driver outdates all
\* they were told, the clients answered by a state document know better.
Informs(answered) ==
  informed' = answered \cup (IF ws'.driver = ws.driver THEN informed ELSE {})

Init == ws = NewWorkspace /\ informed = {}

\* A second passes for every member.
Tick ==
  /\ ws' = [ws EXCEPT !.idle = [c \in Client |->
              IF c \in ws.members /\ @[c] <= Lease THEN @[c] + 1 ELSE @[c]]]
  /\ Informs({})

JoinRequest(c, p) ==
  LET r == Refresh(ws) IN
  /\ CanOpen(r, p)
  /\ c \in r.members \/ Cardinality(r.members) < MaxMembers
  /\ ws' = Join(Open(r, p), p, c)
  /\ Informs({c})

\* Refused: the room limit, or a client that is no member and either meets
\* the collaborator limit or presents a capability that has expired.
JoinDenied(c, p) ==
  LET r == Refresh(ws) IN
  /\ ~CanOpen(r, p) \/ c \notin r.members
  /\ ws' = Open(r, p)
  /\ Informs({})

\* What a request leaves behind when it is refused after `member`, what a
\* waiting poll does every 50 ms, and what a poll of the follow view does.
Ask(c, p) == ws' = Member(ws, p, c) /\ Informs({})

Poll(c, p) ==
  LET q == EventPath(ws, p, c) IN
  /\ Admits(ws, q, c)
  /\ ws' = State(ws, q, c)
  /\ Informs({c})

Leave(c, p) ==
  /\ Admits(ws, p, c)
  /\ ws' = Refresh([Member(ws, p, c) EXCEPT !.inRoom[p] = @ \ {c},
                                            !.heard[p] = @ \ {c}])
  /\ Informs({})

Release(c, p) ==
  /\ IsDriver(ws, p, c)
  /\ ~Busy(ws)
  /\ ws' = SetDriver([Member(ws, p, c) EXCEPT !.released = TRUE], None)
  /\ Informs({})

Claim(c, p) ==
  /\ Admits(ws, p, c)
  /\ ~Busy(ws)
  /\ ws' = ChangeDriver(Member(ws, p, c), c)
  /\ Informs({})

Handoff(c, p, d) ==
  /\ IsDriver(ws, p, c)
  /\ ~Busy(ws)
  /\ d \in Refresh(ws).members
  /\ ws' = ChangeDriver(Member(ws, p, c), d)
  /\ Informs({})

\* The anchor notebook p and the viewed notebook q are both the driver's.
PublishView(c, p, q) ==
  LET v == [path |-> q, driver |-> c]
      w == Member(Member(ws, p, c), q, c)
  IN
  /\ IsDriver(ws, p, c)
  /\ IsDriver(ws, q, c)
  /\ ws' = IF w.view = v THEN w ELSE [w EXCEPT !.view = v]
  /\ Informs({})

AcceptWrite(c, p) ==
  /\ IsDriver(ws, p, c)
  /\ ws.active[p] < MaxActive
  /\ ws' = Accept(ws, p, c)
  /\ Informs({})

SettleWrite(p) == ws' = Settle(ws, p) /\ Informs({})

\* A failed execution also announces the kernel error in the room's snapshot.
SettleFailure(p) ==
  /\ ws.snapshot[p] > 0
  /\ ws' = Settle([ws EXCEPT !.heard[p] = {}], p)
  /\ Informs({})

PublishSnapshot(p, rev) == ws' = Publish(ws, p, rev) /\ Informs({})

\* A rename that succeeded settles, moves the room and publishes the snapshot.
SettleRename(old, new, rev) ==
  /\ old # new
  /\ ws.redirects < MaxRedirects
  /\ ws' = Publish(Rename(Settle(ws, old), old, new), new, rev)
  /\ Informs({})

Next ==
  \/ Tick
  \/ \E c \in Client, p \in Path :
       \/ JoinRequest(c, p) \/ JoinDenied(c, p) \/ Ask(c, p)
       \/ Poll(c, p) \/ Leave(c, p)
       \/ Release(c, p) \/ Claim(c, p) \/ AcceptWrite(c, p)
       \/ \E d \in Client : Handoff(c, p, d)
       \/ \E q \in Path : PublishView(c, p, q)
  \/ \E p \in Path :
       \/ SettleWrite(p) \/ SettleFailure(p)
       \/ \E rev \in Revision :
            \/ PublishSnapshot(p, rev)
            \/ \E q \in Path : SettleRename(p, q, rev)

Spec == Init /\ [][Next]_vars

\* Pollers are pages whose watch loop runs forever (collaboration.ts, watch:
\* it retries after every failure); nothing is assumed of any other client.
FairSpec == Spec /\ WF_vars(\E c \in Pollers, p \in Path : Ask(c, p))

-----------------------------------------------------------------------------
(* Properties. *)

\* Type invariant: in particular no accounting counter goes below zero.
TypeOK == ws \in Workspace /\ informed \subseteq Client

\* Whoever is subscribed to a room is a connected member, so a capability
\* that lost its lease is refused by every room at once (`member` relies on
\* it: it looks the room up first and the member list second).
SeatsAreMembers == \A p \in Path : ws.inRoom[p] \subseteq ws.members

\* Nobody drives only because control was released or nobody is connected,
\* and a driver is always one of the connected members.
AuthorityHeld ==
  /\ ws.driver \in ws.members \cup {None}
  /\ ws.driver = None <=> ws.released \/ ws.members = {}
  /\ ws.released => ws.members # {}

\* Followers never scroll with someone who no longer drives: the published
\* view is the current driver's.
ViewIsDrivers == ws.view # None => ws.view.driver = ws.driver

\* The roles of the workspace hang together: whoever is seated is connected,
\* whoever drives is connected, and the view that is followed is the driver's.
RolesInv == TypeOK /\ SeatsAreMembers /\ AuthorityHeld /\ ViewIsDrivers

\* A poller whose cursor is up to date in some room has been told who drives
\* now: no change of authority, whatever request or lapse caused it, goes
\* unannounced in any room.
UpToDateKnowsDriver ==
  \A p \in Path : ws.heard[p] \subseteq informed

\* The promise of DriverAuthority, for every request, lapse and re-election.
Authority == INSTANCE DriverAuthority WITH
  present <- ws.members, driver <- ws.driver,
  released <- ws.released, busy <- Busy(ws)
ImplementsAuthority == Authority!Spec

\* "the next membership check elects the oldest survivor"
\* (docs/collaboration.md): a driver that vanished is succeeded by the member
\* that joined first, unless the very request that noticed it was a claim or
\* a hand-over.
OldestSurvivorSucceeds ==
  [][ /\ ws.driver # None /\ ws.driver \notin ws'.members /\ ws'.driver # None
      /\ ~\E c, d \in Client, p \in Path : Claim(c, p) \/ Handoff(c, p, d)
      => \A m \in ws'.members \ {ws'.driver} : <<ws'.driver, m>> \in ws'.ahead ]_vars

\* A client that was heard of within the lease loses its membership only by
\* leaving, or because its last room had been replaced by a renamed one.
LeaseHonoured ==
  [][ \A c \in ws.members \ ws'.members :
        \/ ws.idle[c] > Lease
        \/ \A p \in Path : c \notin ws.inRoom[p]
        \/ \E p \in Path : Leave(c, p) ]_vars

\* "its event subscription follows the new identity" (docs/collaboration.md):
\* a rename cuts nobody off, however often the notebook was renamed before,
\* except a client polling the very path whose room the rename replaced.
RenameKeepsSubscriptions ==
  [][ \A old, new \in Path :
        ws'.redirects > ws.redirects /\ new \notin {old} /\ old \in ws.rooms \ ws'.rooms
        => \A c \in Client, p \in Path :
             (EventPath(ws, p, c) = old /\ c \in ws.inRoom[old])
             => c \in ws'.inRoom[EventPath(ws', p, c)] ]_vars

\* A driver that fell silent for good does not keep the workspace: while some
\* page keeps polling, whoever drives forever is heard of again and again.
SilentDriverReplaced ==
  \A d \in Client \ Pollers :
    <>[](ws.driver = d) => []<>(ws.idle[d] <= Lease)

-----------------------------------------------------------------------------
(* Statements of the documentation that the code does not keep. *)

\* "Neither action can steal an occupied role"
\* (docs/investigations/rust-runtime-migration.md): a claim while somebody
\* else is connected and drives changes nothing; a step that a hand-over to the
\* claimant explains as well is not counted.
ClaimNeverSteals ==
  [][ \A c \in Client, p \in Path :
        /\ Claim(c, p) /\ Refresh(ws).driver # None
        /\ ~\E d \in Client, q \in Path : Handoff(d, q, c)
        => ws'.driver = Refresh(ws).driver ]_vars

\* "Ownership never expires during accepted work" (docs/collaboration.md):
\* while a write is accepted and unfinished, only leaving ends ownership.
WorkKeepsOwner ==
  [][ Busy(ws) /\ ws.driver # None /\ ~(\E p \in Path : Leave(ws.driver, p))
      => ws'.driver = ws.driver ]_vars
=============================================================================
