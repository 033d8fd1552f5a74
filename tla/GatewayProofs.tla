--------------------------- MODULE GatewayProofs ---------------------------
(***************************************************************************)
(* Proofs, for any number of commands, clients, notebooks and limits, of   *)
(* the driver policy (Collaboration), its refinement of DriverAuthority,   *)
(* and command dispatch over it (Gateway): a key sends its code at most    *)
(* once, a room counts its unfinished writes, and the rooms follow the     *)
(* single-driver policy.                                                   *)
(*                                                                         *)
(* Each operator of Collaboration gets a lemma that says what it does to   *)
(* the parts of the inductive invariant; the steps are then compositions   *)
(* of operators.                                                           *)
(*                                                                         *)
(* Commands are of four kinds of steps: requests of collaboration, which   *)
(* leave dispatch alone; admission (Submit); the steps of `run`, which     *)
(* share what InnerStep says; and settlement (Finish).  The invariant has  *)
(* the progress of each task (Sent), its place in the ledger (Entered),    *)
(* and the namespace guard (Guarding), which leaves room for a redirect    *)
(* until the rename that was admitted for it settles.  What the four kinds *)
(* do to the rooms is RoomsNext: a step of Collaboration for snapshots of  *)
(* any revision.  An instance explores some revisions only (Revision), so  *)
(* that the refinement is stated for all of them.                          *)
(***************************************************************************)
EXTENDS Gateway, FiniteSetTheorems, TLAPS

-----------------------------------------------------------------------------
(* The driver policy: Collaboration. *)

\* The parts of the inductive invariant, for a record w.
Seats(w) == \A p \in Path : w.inRoom[p] \subseteq w.members

\* The join order has a first element in every set of members, so that the
\* policy always finds somebody.
Queued(w) ==
  \A S \in SUBSET w.members : S # {} =>
    \E c \in S : \A d \in S \ {c} : <<c, d>> \in w.ahead

Held(w) ==
  /\ w.driver \in w.members \cup {None}
  /\ w.driver = None <=> w.released \/ w.members = {}
  /\ w.released => w.members # {}

Viewed(w) == w.view # None => w.view.driver = w.driver

Good(w) == w \in Workspace /\ Seats(w) /\ Queued(w) /\ Held(w) /\ Viewed(w)

\* From w to v no poller but those of A was brought up to date, and if the
\* driver changed, nobody else is up to date any more.
QuietBut(w, v, A) ==
  \A p \in Path :
    v.heard[p] \subseteq A \cup (IF v.driver = w.driver THEN w.heard[p] ELSE {})
Quiet(w, v) == QuietBut(w, v, {})

\* v differs from w at most in leases, rooms and counters.
SameRoles(w, v) ==
  /\ v \in Workspace
  /\ v.members = w.members /\ v.ahead = w.ahead /\ v.inRoom = w.inRoom
  /\ v.driver = w.driver /\ v.released = w.released /\ v.view = w.view
  /\ \A p \in Path : v.heard[p] \subseteq w.heard[p]

-----------------------------------------------------------------------------
LEMMA SameRolesGood ==
  ASSUME NEW w, Good(w), NEW v, SameRoles(w, v)
  PROVE  Good(v) /\ Quiet(w, v)
BY DEF Good, SameRoles, Seats, Queued, Held, Viewed, Quiet, QuietBut

LEMMA QuietTransitive ==
  ASSUME NEW u, NEW v, NEW w, NEW A, Quiet(u, v), QuietBut(v, w, A)
  PROVE  QuietBut(u, w, A)
BY DEF Quiet, QuietBut

LEMMA NewWorkspaceGood == Good(NewWorkspace)
BY CollaborationAssumption DEF Good, NewWorkspace, Workspace, Seats, Queued, Held, Viewed

LEMMA PolicyElects ==
  ASSUME NEW w \in Workspace, Queued(w)
  PROVE  /\ w.members = {} => Policy(w) = None
         /\ w.members # {} => Policy(w) \in w.members
BY DEF Policy, Queued, Workspace

LEMMA OpenSameRoles ==
  ASSUME NEW w \in Workspace, NEW p \in Path
  PROVE  SameRoles(w, Open(w, p))
BY DEF Open, Workspace, SameRoles

LEMMA TouchSameRoles ==
  ASSUME NEW w \in Workspace, NEW c \in Client
  PROVE  SameRoles(w, [w EXCEPT !.idle[c] = 0])
<1>1. [w.idle EXCEPT ![c] = 0] \in [Client -> 0 .. Lease + 1]
  BY CollaborationAssumption DEF Workspace
<1>2. [w EXCEPT !.idle[c] = 0] = [w EXCEPT !.idle = [w.idle EXCEPT ![c] = 0]]
  BY DEF Workspace
<1> QED
  BY <1>1, <1>2 DEF SameRoles, Workspace

LEMMA SameRolesTransitive ==
  ASSUME NEW u, NEW v, NEW w, SameRoles(u, v), SameRoles(v, w)
  PROVE  SameRoles(u, w)
BY DEF SameRoles

LEMMA AnnounceSilences ==
  ASSUME NEW w \in Workspace
  PROVE  /\ Announce(w) \in Workspace
         /\ Announce(w).heard = [p \in Path |-> {}]
         /\ Announce(w).members = w.members /\ Announce(w).ahead = w.ahead
         /\ Announce(w).inRoom = w.inRoom /\ Announce(w).driver = w.driver
         /\ Announce(w).released = w.released /\ Announce(w).view = w.view
BY DEF Announce, Workspace

LEMMA SetDriverReplaces ==
  ASSUME NEW w \in Workspace, Viewed(w), NEW d \in Client \cup {None}
  PROVE  /\ SetDriver(w, d) \in Workspace
         /\ SetDriver(w, d).driver = d
         /\ SetDriver(w, d).heard = [p \in Path |-> {}]
         /\ SetDriver(w, d).members = w.members /\ SetDriver(w, d).ahead = w.ahead
         /\ SetDriver(w, d).inRoom = w.inRoom
         /\ SetDriver(w, d).released = w.released
         /\ Viewed(SetDriver(w, d))
<1> DEFINE u == IF d = w.driver THEN w ELSE [w EXCEPT !.driver = d, !.view = None]
<1>1. /\ u \in Workspace /\ u.driver = d /\ Viewed(u)
      /\ u.members = w.members /\ u.ahead = w.ahead /\ u.inRoom = w.inRoom
      /\ u.released = w.released
  BY DEF Workspace, Viewed
<1>2. SetDriver(w, d) = Announce(u)
  BY DEF SetDriver
<1> HIDE DEF u
<1>3. /\ Announce(u) \in Workspace
      /\ Announce(u).heard = [p \in Path |-> {}]
      /\ Announce(u).members = u.members /\ Announce(u).ahead = u.ahead
      /\ Announce(u).inRoom = u.inRoom /\ Announce(u).driver = u.driver
      /\ Announce(u).released = u.released /\ Announce(u).view = u.view
  BY <1>1, AnnounceSilences
<1> QED
  BY <1>1, <1>2, <1>3 DEF Viewed

LEMMA PruneKeeps ==
  ASSUME NEW w, Good(w)
  PROVE  /\ Prune(w) \in Workspace
         /\ Seats(Prune(w)) /\ Queued(Prune(w)) /\ Viewed(Prune(w))
         /\ Prune(w).members \subseteq w.members
         /\ Prune(w).driver = w.driver
         /\ Prune(w).released = IF Prune(w).members = {} THEN FALSE ELSE w.released
         /\ \A p \in Path : Prune(w).heard[p] \subseteq w.heard[p]
<1> DEFINE k == Kept(w)
           v == Prune(w)
<1>1. w \in Workspace /\ k \subseteq w.members
  BY DEF Good, Kept
<1>2. v \in Workspace
  <2>1. /\ w.members \in SUBSET Client /\ w.ahead \in SUBSET (Client \X Client)
        /\ w.idle \in [Client -> 0 .. Lease + 1]
        /\ w.inRoom \in [Path -> SUBSET Client]
        /\ w.heard \in [Path -> SUBSET Client]
        /\ w.released \in BOOLEAN
        /\ w.redirect \in [Path -> [Client -> Path \cup {None}]]
    BY <1>1 DEF Workspace
  <2>2. [c \in Client |-> IF c \in k THEN w.idle[c] ELSE 0] \in [Client -> 0 .. Lease + 1]
    BY <2>1, CollaborationAssumption
  <2>3. [p \in Path |-> [c \in Client |->
           IF c \in k THEN w.redirect[p][c] ELSE None]]
          \in [Path -> [Client -> Path \cup {None}]]
    BY <2>1
  <2>4. /\ k \in SUBSET Client /\ w.ahead \cap (k \X k) \in SUBSET (Client \X Client)
        /\ [p \in Path |-> w.inRoom[p] \cap k] \in [Path -> SUBSET Client]
        /\ [p \in Path |-> w.heard[p] \cap k] \in [Path -> SUBSET Client]
        /\ (IF k = {} THEN FALSE ELSE w.released) \in BOOLEAN
    BY <1>1, <2>1
  <2> QED
    BY <1>1, <2>2, <2>3, <2>4 DEF Prune, Workspace
<1>3. /\ v.members = k /\ v.ahead = w.ahead \cap (k \X k)
      /\ v.inRoom = [p \in Path |-> w.inRoom[p] \cap k]
      /\ v.heard = [p \in Path |-> w.heard[p] \cap k]
      /\ v.driver = w.driver /\ v.view = w.view
      /\ v.released = IF k = {} THEN FALSE ELSE w.released
  BY <1>1 DEF Prune, Workspace
<1>4. Queued(v)
  <2> SUFFICES ASSUME NEW S \in SUBSET k, S # {}
               PROVE  \E c \in S : \A d \in S \ {c} : <<c, d>> \in v.ahead
    BY <1>3 DEF Queued
  <2>1. PICK c \in S : \A d \in S \ {c} : <<c, d>> \in w.ahead
    BY <1>1 DEF Good, Queued
  <2> QED
    BY <2>1, <1>3
<1> QED
  BY <1>1, <1>2, <1>3, <1>4 DEF Seats, Viewed, Good

LEMMA RefreshGood ==
  ASSUME NEW w, Good(w)
  PROVE  Good(Refresh(w)) /\ Quiet(w, Refresh(w))
<1> DEFINE k == Prune(w)
<1>1. /\ k \in Workspace /\ Seats(k) /\ Queued(k) /\ Viewed(k)
      /\ k.members \subseteq w.members /\ k.driver = w.driver
      /\ k.released = IF k.members = {} THEN FALSE ELSE w.released
      /\ \A p \in Path : k.heard[p] \subseteq w.heard[p]
  BY PruneKeeps
<1>2. Held(w) /\ w.members \subseteq Client
  BY DEF Good, Workspace
<1> HIDE DEF k
<1>3. CASE ~k.released /\ k.driver \notin k.members
  <2> DEFINE r == SetDriver(k, Policy(k))
  <2>1. /\ k.members = {} => Policy(k) = None
        /\ k.members # {} => Policy(k) \in k.members
    BY <1>1, PolicyElects
  <2>2. Policy(k) \in Client \cup {None}
    BY <1>1, <1>2, <2>1
  <2>3. /\ r \in Workspace /\ r.driver = Policy(k) /\ r.heard = [p \in Path |-> {}]
        /\ r.members = k.members /\ r.ahead = k.ahead /\ r.inRoom = k.inRoom
        /\ r.released = k.released /\ Viewed(r)
    BY <1>1, <2>2, SetDriverReplaces
  <2>4. Refresh(w) = r
    BY <1>3 DEF Refresh, k
  <2> HIDE DEF r
  <2>5. Held(r)
    BY <1>1, <1>2, <1>3, <2>1, <2>3, CollaborationAssumption DEF Held
  <2>6. Good(r)
    BY <1>1, <2>3, <2>5 DEF Good, Seats, Queued
  <2> QED
    BY <2>3, <2>4, <2>6 DEF Quiet, QuietBut
<1>4. CASE ~(~k.released /\ k.driver \notin k.members)
  <2>1. Refresh(w) = k
    BY <1>4 DEF Refresh, k
  <2>2. Held(k)
    BY <1>1, <1>2, <1>4, CollaborationAssumption DEF Held
  <2> QED
    BY <1>1, <2>1, <2>2 DEF Good, Quiet, QuietBut
<1> QED
  BY <1>3, <1>4

LEMMA MemberGood ==
  ASSUME NEW w, Good(w), NEW p \in Path, NEW c \in Client
  PROVE  /\ Good(Member(w, p, c)) /\ Quiet(w, Member(w, p, c))
         /\ SameRoles(Refresh(w), Member(w, p, c))
<1> DEFINE r == Open(Refresh(w), p)
           touched == [r EXCEPT !.idle[c] = 0]
<1>1. Good(Refresh(w)) /\ Quiet(w, Refresh(w))
  BY RefreshGood
<1>2. SameRoles(Refresh(w), r)
  BY <1>1, OpenSameRoles DEF Good
<1>3. SameRoles(Refresh(w), touched)
  <2>1. r \in Workspace
    BY <1>2 DEF SameRoles
  <2> HIDE DEF r
  <2>2. SameRoles(r, touched)
    BY <2>1, TouchSameRoles
  <2> QED
    BY <1>2, <2>2, SameRolesTransitive
<1>4. SameRoles(Refresh(w), Member(w, p, c))
  <2>1. Member(w, p, c) = IF c \in r.inRoom[p] THEN touched ELSE r
    BY DEF Member
  <2> HIDE DEF r, touched
  <2> QED
    BY <1>2, <1>3, <2>1
<1>5. Good(Member(w, p, c)) /\ Quiet(Refresh(w), Member(w, p, c))
  BY <1>1, <1>4, SameRolesGood
<1>6. QuietBut(Refresh(w), Member(w, p, c), {})
  BY <1>5 DEF Quiet
<1>7. QuietBut(w, Member(w, p, c), {})
  BY <1>1, <1>6, QuietTransitive
<1> QED
  BY <1>4, <1>5, <1>7 DEF Quiet

LEMMA HearGood ==
  ASSUME NEW w, Good(w), NEW p \in Path, NEW c \in Client
  PROVE  Good(Hear(w, p, c)) /\ QuietBut(w, Hear(w, p, c), {c})
BY DEF Good, Hear, Workspace, Seats, Queued, Held, Viewed, QuietBut

LEMMA StateGood ==
  ASSUME NEW w, Good(w), NEW p \in Path, NEW c \in Client
  PROVE  Good(State(w, p, c)) /\ QuietBut(w, State(w, p, c), {c})
<1>1. Good(Member(w, p, c)) /\ Quiet(w, Member(w, p, c))
  BY MemberGood
<1>2. /\ Good(State(w, p, c))
      /\ QuietBut(Member(w, p, c), State(w, p, c), {c})
  BY <1>1, HearGood DEF State
<1> QED
  BY <1>1, <1>2, QuietTransitive

\* A seated client is last in the join order; it only lacks a driver if it is
\* the first.
LEMMA SeatQueues ==
  ASSUME NEW w, Good(w), NEW p \in Path, NEW c \in Client
  PROVE  /\ Seat(w, p, c) \in Workspace
         /\ Seats(Seat(w, p, c)) /\ Queued(Seat(w, p, c)) /\ Viewed(Seat(w, p, c))
         /\ Seat(w, p, c).members = w.members \cup {c}
         /\ Seat(w, p, c).driver = w.driver
         /\ Seat(w, p, c).released = w.released
<1>1. w \in Workspace /\ Seats(w) /\ Queued(w) /\ Viewed(w)
  BY DEF Good
<1>2. CASE c \in w.members
  <2> DEFINE s == [w EXCEPT !.inRoom[p] = @ \cup {c}]
  <2>1. Seat(w, p, c) = s
    BY <1>2 DEF Seat
  <2>2. /\ s \in Workspace /\ s.members = w.members /\ s.ahead = w.ahead
        /\ s.driver = w.driver /\ s.released = w.released /\ s.view = w.view
        /\ s.inRoom = [w.inRoom EXCEPT ![p] = @ \cup {c}]
    BY <1>1 DEF Workspace
  <2>3. w.inRoom \in [Path -> SUBSET Client]
    BY <1>1 DEF Workspace
  <2> HIDE DEF s
  <2> QED
    BY <1>1, <1>2, <2>1, <2>2, <2>3 DEF Seats, Queued, Viewed
<1>3. CASE c \notin w.members
  <2> DEFINE s == [w EXCEPT !.members = @ \cup {c},
                            !.ahead = @ \cup (w.members \X {c}),
                            !.idle[c] = 0,
                            !.inRoom[p] = @ \cup {c}]
  <2>1. Seat(w, p, c) = s
    BY <1>3 DEF Seat
  <2>2. /\ s.members = w.members \cup {c}
        /\ s.ahead = w.ahead \cup (w.members \X {c})
        /\ s.driver = w.driver /\ s.released = w.released /\ s.view = w.view
        /\ s.inRoom = [w.inRoom EXCEPT ![p] = @ \cup {c}]
    BY <1>1 DEF Workspace
  <2>3. /\ w.inRoom \in [Path -> SUBSET Client]
        /\ w.members \in SUBSET Client
        /\ w.ahead \in SUBSET (Client \X Client)
        /\ w.idle \in [Client -> 0 .. Lease + 1]
    BY <1>1 DEF Workspace
  <2>4. /\ [w.idle EXCEPT ![c] = 0] \in [Client -> 0 .. Lease + 1]
        /\ [w.inRoom EXCEPT ![p] = @ \cup {c}] \in [Path -> SUBSET Client]
        /\ w.members \cup {c} \in SUBSET Client
        /\ w.ahead \cup (w.members \X {c}) \in SUBSET (Client \X Client)
    BY <2>3, CollaborationAssumption
  <2>5. s \in Workspace
    BY <1>1, <2>4 DEF Workspace
  <2>6. Queued(s)
    <3> SUFFICES ASSUME NEW S \in SUBSET (w.members \cup {c}), S # {}
                 PROVE  \E f \in S : \A d \in S \ {f} : <<f, d>> \in s.ahead
      BY <2>2 DEF Queued
    <3> DEFINE T == S \ {c}
    <3>1. CASE T = {}
      BY <3>1
    <3>2. CASE T # {}
      <4>1. T \in SUBSET w.members
        OBVIOUS
      <4>2. PICK f \in T : \A d \in T \ {f} : <<f, d>> \in w.ahead
        BY <1>1, <3>2, <4>1 DEF Queued
      <4>3. <<f, c>> \in w.members \X {c}
        BY <4>1, <4>2
      <4> QED
        BY <2>2, <4>2, <4>3
    <3> QED
      BY <3>1, <3>2
  <2> HIDE DEF s
  <2> QED
    BY <1>1, <2>1, <2>2, <2>3, <2>5, <2>6 DEF Seats, Viewed
<1> QED
  BY <1>2, <1>3

\* The workspace that `join` answers from.
Joined(w, p, c) ==
  LET s == Seat(w, p, c) IN
  Announce(IF s.driver = None /\ ~s.released THEN SetDriver(s, Policy(s)) ELSE s)

LEMMA JoinedGood ==
  ASSUME NEW w, Good(w), NEW p \in Path, NEW c \in Client
  PROVE  Good(Joined(w, p, c)) /\ Joined(w, p, c).heard = [q \in Path |-> {}]
<1> DEFINE s == Seat(w, p, c)
           led == IF s.driver = None /\ ~s.released THEN SetDriver(s, Policy(s)) ELSE s
           a == Announce(led)
<1>1. /\ s \in Workspace /\ Seats(s) /\ Queued(s) /\ Viewed(s)
      /\ s.members = w.members \cup {c}
      /\ s.driver = w.driver /\ s.released = w.released
  BY SeatQueues
<1>2. Joined(w, p, c) = a
  BY DEF Joined
<1>3. Held(w) /\ w.members \subseteq Client
  BY DEF Good, Workspace
<1> HIDE DEF s
<1>4. Good(led)
  <2>1. CASE s.driver = None /\ ~s.released
    <3> DEFINE r == SetDriver(s, Policy(s))
    <3>1. Policy(s) \in s.members
      BY <1>1, PolicyElects
    <3>2. Policy(s) \in Client \cup {None}
      BY <1>1, <1>3, <3>1
    <3>3. /\ r \in Workspace /\ r.driver = Policy(s)
          /\ r.members = s.members /\ r.ahead = s.ahead /\ r.inRoom = s.inRoom
          /\ r.released = s.released /\ Viewed(r)
      BY <1>1, <3>2, SetDriverReplaces
    <3>4. led = r
      BY <2>1
    <3> HIDE DEF r, led
    <3> QED
      BY <1>1, <1>3, <2>1, <3>1, <3>3, <3>4, CollaborationAssumption
      DEF Good, Seats, Queued, Held
  <2>2. CASE ~(s.driver = None /\ ~s.released)
    <3>1. led = s
      BY <2>2
    <3> HIDE DEF led
    <3>2. Held(s)
      BY <1>1, <1>3, <2>2 DEF Held
    <3> QED
      BY <1>1, <3>1, <3>2 DEF Good
  <2> QED
    BY <2>1, <2>2
<1> HIDE DEF led
<1>5. Good(a) /\ a.heard = [q \in Path |-> {}]
  <2>1. /\ a \in Workspace /\ a.heard = [q \in Path |-> {}]
        /\ a.members = led.members /\ a.ahead = led.ahead
        /\ a.inRoom = led.inRoom /\ a.driver = led.driver
        /\ a.released = led.released /\ a.view = led.view
    BY <1>4, AnnounceSilences DEF Good
  <2> HIDE DEF a
  <2> QED
    BY <1>4, <2>1 DEF Good, Seats, Queued, Held, Viewed
<1> QED
  BY <1>2, <1>5

LEMMA JoinGood ==
  ASSUME NEW w, Good(w), NEW p \in Path, NEW c \in Client
  PROVE  Good(Join(w, p, c)) /\ QuietBut(w, Join(w, p, c), {c})
<1> DEFINE a == Joined(w, p, c)
<1>1. Join(w, p, c) = State(a, p, c)
  BY DEF Join, Joined
<1>2. Good(a) /\ a.heard = [q \in Path |-> {}]
  BY JoinedGood
<1> HIDE DEF a
<1>3. Good(State(a, p, c)) /\ QuietBut(a, State(a, p, c), {c})
  BY <1>2, StateGood
<1> QED
  BY <1>1, <1>2, <1>3 DEF QuietBut

LEMMA PublishSameRoles ==
  ASSUME NEW w \in Workspace, NEW p \in Path, NEW rev \in Nat
  PROVE  SameRoles(w, Publish(w, p, rev))
<1> DEFINE o == Open(w, p)
           v == [o EXCEPT !.snapshot[p] = rev, !.heard[p] = {}]
<1>1. SameRoles(w, o) /\ SameRoles(w, w)
  BY OpenSameRoles DEF SameRoles
<1>2. Publish(w, p, rev) = v \/ Publish(w, p, rev) = w
  BY DEF Publish
<1> HIDE DEF o
<1>3. SameRoles(w, v)
  BY <1>1 DEF SameRoles, Workspace
<1> QED
  BY <1>1, <1>2, <1>3

LEMMA SettleSameRoles ==
  ASSUME NEW w \in Workspace, NEW p \in Path
  PROVE  SameRoles(w, Settle(w, p))
<1> DEFINE o == Open(w, p)
<1>1. SameRoles(w, o)
  BY OpenSameRoles
<1>2. Settle(w, p) = [o EXCEPT !.active[p] = IF @ > 0 THEN @ - 1 ELSE 0]
  BY DEF Settle
<1> HIDE DEF o
<1>3. o.active \in [Path -> Nat]
  BY <1>1 DEF SameRoles, Workspace
<1>4. [o.active EXCEPT ![p] = IF @ > 0 THEN @ - 1 ELSE 0] \in [Path -> Nat]
  BY <1>3
<1>5. Settle(w, p)
        = [o EXCEPT !.active = [o.active EXCEPT ![p] = IF @ > 0 THEN @ - 1 ELSE 0]]
  BY <1>2
<1> QED
  BY <1>1, <1>4, <1>5 DEF SameRoles, Workspace

LEMMA AcceptSameRoles ==
  ASSUME NEW w \in Workspace, NEW p \in Path
  PROVE  SameRoles(w, [w EXCEPT !.active[p] = @ + 1])
<1>1. w.active \in [Path -> Nat]
  BY DEF Workspace
<1>2. [w.active EXCEPT ![p] = @ + 1] \in [Path -> Nat]
  BY <1>1
<1>3. [w EXCEPT !.active[p] = @ + 1] = [w EXCEPT !.active = [w.active EXCEPT ![p] = @ + 1]]
  OBVIOUS
<1> QED
  BY <1>2, <1>3 DEF SameRoles, Workspace

\* A rename seats the same clients in another room.
LEMMA RenameGood ==
  ASSUME NEW w, Good(w), NEW old \in Path, NEW new \in Path
  PROVE  /\ Good(Rename(w, old, new)) /\ Quiet(w, Rename(w, old, new))
         /\ Rename(w, old, new).members = w.members
         /\ Rename(w, old, new).driver = w.driver
         /\ Rename(w, old, new).released = w.released
<1> DEFINE fresh == {c \in w.inRoom[old] : w.redirect[old][c] = None}
           redirect == [p \in Path |-> [c \in Client |->
               IF (p = old /\ c \in w.inRoom[old]) \/ w.redirect[p][c] = old
               THEN new ELSE w.redirect[p][c]]]
           v == [w EXCEPT
                  !.rooms = (@ \ {old}) \cup {new},
                  !.inRoom = [@ EXCEPT ![new] = w.inRoom[old], ![old] = {}],
                  !.active = [@ EXCEPT ![new] = w.active[old], ![old] = 0],
                  !.snapshot = [@ EXCEPT ![new] = w.snapshot[old], ![old] = 0],
                  !.heard = [@ EXCEPT ![new] = {}, ![old] = {}],
                  !.redirect = redirect,
                  !.redirects = @ + Cardinality(fresh)]
<1>1. w \in Workspace
  BY DEF Good
<1>2. /\ w.inRoom \in [Path -> SUBSET Client] /\ w.heard \in [Path -> SUBSET Client]
      /\ w.active \in [Path -> Nat] /\ w.snapshot \in [Path -> Nat]
      /\ w.rooms \in SUBSET Path /\ w.redirects \in Nat
      /\ w.redirect \in [Path -> [Client -> Path \cup {None}]]
  BY <1>1 DEF Workspace
<1>3. Cardinality(fresh) \in Nat
  <2>1. fresh \subseteq Client
    BY <1>2
  <2> QED
    BY <2>1, CollaborationAssumption, FS_Subset, FS_CardinalityType
<1>4. redirect \in [Path -> [Client -> Path \cup {None}]]
  BY <1>2
<1> HIDE DEF fresh, redirect
<1>5. /\ [w.inRoom EXCEPT ![new] = w.inRoom[old], ![old] = {}] \in [Path -> SUBSET Client]
      /\ [w.active EXCEPT ![new] = w.active[old], ![old] = 0] \in [Path -> Nat]
      /\ [w.snapshot EXCEPT ![new] = w.snapshot[old], ![old] = 0] \in [Path -> Nat]
      /\ [w.heard EXCEPT ![new] = {}, ![old] = {}] \in [Path -> SUBSET Client]
      /\ (w.rooms \ {old}) \cup {new} \in SUBSET Path
      /\ w.redirects + Cardinality(fresh) \in Nat
  <2>1. [w.inRoom EXCEPT ![new] = w.inRoom[old], ![old] = {}] \in [Path -> SUBSET Client]
    BY <1>2
  <2>2. [w.active EXCEPT ![new] = w.active[old], ![old] = 0] \in [Path -> Nat]
    BY <1>2
  <2>3. [w.snapshot EXCEPT ![new] = w.snapshot[old], ![old] = 0] \in [Path -> Nat]
    BY <1>2
  <2>4. [w.heard EXCEPT ![new] = {}, ![old] = {}] \in [Path -> SUBSET Client]
    BY <1>2
  <2>5. (w.rooms \ {old}) \cup {new} \in SUBSET Path
    BY <1>2
  <2>6. w.redirects + Cardinality(fresh) \in Nat
    BY <1>2, <1>3
  <2> QED
    BY <2>1, <2>2, <2>3, <2>4, <2>5, <2>6
<1>6. v \in Workspace
  BY <1>1, <1>4, <1>5 DEF Workspace
<1>7. /\ v.members = w.members /\ v.ahead = w.ahead /\ v.driver = w.driver
      /\ v.released = w.released /\ v.view = w.view
      /\ v.inRoom = [w.inRoom EXCEPT ![new] = w.inRoom[old], ![old] = {}]
      /\ v.heard = [w.heard EXCEPT ![new] = {}, ![old] = {}]
  BY <1>1 DEF Workspace
<1>8. Rename(w, old, new) = IF old \notin w.rooms THEN w ELSE v
  BY Zenon DEF Rename, fresh, redirect
<1> HIDE DEF v
<1>9. Good(v) /\ Quiet(w, v)
  <2>1. \A p \in Path : v.inRoom[p] \in {{}, w.inRoom[old], w.inRoom[p]}
    BY <1>2, <1>7
  <2>2. \A p \in Path : v.heard[p] \in {{}, w.heard[p]}
    BY <1>2, <1>7
  <2>3. Seats(v)
    BY <1>7, <2>1 DEF Good, Seats
  <2>4. Queued(v) /\ Held(v) /\ Viewed(v)
    BY <1>7 DEF Good, Queued, Held, Viewed
  <2> QED
    BY <1>6, <1>7, <2>2, <2>3, <2>4 DEF Good, Quiet, QuietBut
<1>10. Quiet(w, w)
  BY DEF Quiet, QuietBut
<1> QED
  BY <1>7, <1>8, <1>9, <1>10

\* Control moves to a connected client.
LEMMA ChangeDriverGood ==
  ASSUME NEW w, Good(w), NEW d \in w.members
  PROVE  Good(ChangeDriver(w, d)) /\ Quiet(w, ChangeDriver(w, d))
<1> DEFINE u == [w EXCEPT !.released = FALSE]
           r == SetDriver(u, d)
<1>1. /\ u \in Workspace /\ Viewed(u) /\ u.members = w.members /\ u.ahead = w.ahead
      /\ u.inRoom = w.inRoom /\ u.released = FALSE
  BY DEF Good, Workspace, Viewed
<1>2. d \in Client
  BY DEF Good, Workspace
<1> HIDE DEF u
<1>3. /\ r \in Workspace /\ r.driver = d /\ r.heard = [p \in Path |-> {}]
      /\ r.members = u.members /\ r.ahead = u.ahead /\ r.inRoom = u.inRoom
      /\ r.released = u.released /\ Viewed(r)
  BY <1>1, <1>2, SetDriverReplaces
<1>4. ChangeDriver(w, d) = r
  BY DEF ChangeDriver, u
<1> HIDE DEF r
<1> QED
  BY <1>1, <1>2, <1>3, <1>4, CollaborationAssumption
  DEF Good, Seats, Queued, Held, Quiet, QuietBut

\* Control is given up by somebody who is connected.
LEMMA ReleaseGood ==
  ASSUME NEW w, Good(w), w.members # {}
  PROVE  LET v == SetDriver([w EXCEPT !.released = TRUE], None)
         IN  Good(v) /\ Quiet(w, v)
<1> DEFINE u == [w EXCEPT !.released = TRUE]
           r == SetDriver(u, None)
<1>1. /\ u \in Workspace /\ Viewed(u) /\ u.members = w.members /\ u.ahead = w.ahead
      /\ u.inRoom = w.inRoom /\ u.released = TRUE
  BY DEF Good, Workspace, Viewed
<1> HIDE DEF u
<1>2. /\ r \in Workspace /\ r.driver = None /\ r.heard = [p \in Path |-> {}]
      /\ r.members = u.members /\ r.ahead = u.ahead /\ r.inRoom = u.inRoom
      /\ r.released = u.released /\ Viewed(r)
  BY <1>1, SetDriverReplaces
<1>3. Good(r) /\ Quiet(w, r)
  <2> HIDE DEF r
  <2> QED
    BY <1>1, <1>2 DEF Good, Seats, Queued, Held, Quiet, QuietBut
<1> QED
  BY <1>3 DEF u

-----------------------------------------------------------------------------
(* A second refresh at the same time finds nothing to do. *)

\* Every member has a live lease and a room.
Fresh(w) == Kept(w) = w.members

LEMMA PruneFresh ==
  ASSUME NEW w, Good(w)
  PROVE  Fresh(Prune(w))
<1> DEFINE k == Kept(w)
           v == Prune(w)
<1>1. /\ v.members = k
      /\ v.inRoom = [p \in Path |-> w.inRoom[p] \cap k]
      /\ v.idle = [c \in Client |-> IF c \in k THEN w.idle[c] ELSE 0]
  BY DEF Prune, Good, Workspace
<1>2. k = {c \in w.members : w.idle[c] <= Lease /\ \E p \in Path : c \in w.inRoom[p]}
  BY DEF Kept
<1>3. w.members \subseteq Client
  BY DEF Good, Workspace
<1> HIDE DEF v, k
<1>4. \A c \in k : v.idle[c] <= Lease /\ \E p \in Path : c \in v.inRoom[p]
  BY <1>1, <1>2, <1>3
<1>5. Kept(v) = v.members
  BY <1>1, <1>4 DEF Kept
<1> QED
  BY <1>5 DEF Fresh, v

\* Only leases that were renewed, members and rooms matter for freshness.
LEMMA FreshKept ==
  ASSUME NEW w, NEW v, Fresh(w), v.members = w.members, v.inRoom = w.inRoom,
         \A c \in w.members : v.idle[c] \in {0, w.idle[c]}
  PROVE  Fresh(v)
BY CollaborationAssumption DEF Fresh, Kept

LEMMA RefreshFresh ==
  ASSUME NEW w, Good(w)
  PROVE  Fresh(Refresh(w))
<1> DEFINE k == Prune(w)
           u == IF Policy(k) = k.driver THEN k
                ELSE [k EXCEPT !.driver = Policy(k), !.view = None]
           r == [u EXCEPT !.heard = [p \in Path |-> {}]]
<1>1. Fresh(k) /\ k \in Workspace
  BY PruneFresh, PruneKeeps
<1>2. Refresh(w) = k \/ Refresh(w) = SetDriver(k, Policy(k))
  BY DEF Refresh
<1>3. SetDriver(k, Policy(k)) = r
  BY DEF SetDriver, Announce
<1> HIDE DEF k
<1>4. r.members = k.members /\ r.inRoom = k.inRoom /\ r.idle = k.idle
  BY <1>1 DEF Workspace
<1>5. Fresh(r)
  <2> HIDE DEF r
  <2> QED
    BY <1>1, <1>4, FreshKept
<1> QED
  BY <1>1, <1>2, <1>3, <1>5 DEF k

LEMMA MemberFresh ==
  ASSUME NEW w, Good(w), NEW p \in Path, NEW c \in Client
  PROVE  Fresh(Member(w, p, c))
<1> DEFINE f == Refresh(w)
           r == Open(f, p)
           touched == [r EXCEPT !.idle[c] = 0]
<1>1. Good(f) /\ Fresh(f)
  BY RefreshGood, RefreshFresh
<1>2. Member(w, p, c) = IF c \in r.inRoom[p] THEN touched ELSE r
  BY DEF Member
<1> HIDE DEF f
<1>3. f \in Workspace
  BY <1>1 DEF Good
<1>4. /\ r \in Workspace /\ r.members = f.members /\ r.inRoom = f.inRoom
      /\ r.idle = f.idle
  BY <1>3 DEF Open, Workspace
<1> HIDE DEF r
<1>5. /\ touched.members = f.members /\ touched.inRoom = f.inRoom
      /\ touched.idle = [f.idle EXCEPT ![c] = 0]
  BY <1>4 DEF Workspace
<1>6. f.idle \in [Client -> 0 .. Lease + 1] /\ f.members \subseteq Client
  BY <1>3 DEF Workspace
<1> HIDE DEF touched
<1>7. \A d \in f.members : touched.idle[d] \in {0, f.idle[d]} /\ r.idle[d] \in {0, f.idle[d]}
  BY <1>4, <1>5, <1>6
<1>8. Fresh(touched) /\ Fresh(r)
  BY <1>1, <1>4, <1>5, <1>7, FreshKept
<1> QED
  BY <1>2, <1>8

\* Nobody is replaced by a refresh of a fresh workspace.
LEMMA FreshDriverStays ==
  ASSUME NEW w, Good(w), Fresh(w)
  PROVE  Refresh(w).driver = w.driver
<1> DEFINE k == Prune(w)
<1>1. k.members = w.members
  BY DEF Fresh, Prune, Good, Workspace
<1>2. /\ k \in Workspace /\ Queued(k) /\ Viewed(k) /\ k.driver = w.driver
      /\ k.released = IF k.members = {} THEN FALSE ELSE w.released
  BY PruneKeeps
<1>3. Held(w) /\ w.members \subseteq Client
  BY DEF Good, Workspace
<1>4. Refresh(w) = IF ~k.released /\ k.driver \notin k.members
                   THEN SetDriver(k, Policy(k)) ELSE k
  BY DEF Refresh
<1> HIDE DEF k
<1>5. CASE ~k.released /\ k.driver \notin k.members
  <2>1. k.members = {} /\ k.driver = None
    BY <1>1, <1>2, <1>3, <1>5 DEF Held
  <2>2. Policy(k) = None
    BY <1>2, <2>1, PolicyElects
  <2>3. SetDriver(k, Policy(k)).driver = None
    BY <1>2, <2>2, SetDriverReplaces
  <2> QED
    BY <1>2, <1>4, <1>5, <2>1, <2>3
<1> QED
  BY <1>2, <1>4, <1>5

-----------------------------------------------------------------------------
(* The inductive invariant and the steps. *)

IInv == Good(ws) /\ informed \subseteq Client /\ UpToDateKnowsDriver

\* What every step has to show: the roles stay good, and only the clients of
\* A, which it answers with a state document, are brought up to date.
LEMMA InformsKeeps ==
  ASSUME IInv, NEW A, A \subseteq Client, Good(ws'), QuietBut(ws, ws', A), Informs(A)
  PROVE  IInv'
<1>1. \A p \in Path :
        ws'.heard[p] \subseteq A \cup (IF ws'.driver = ws.driver THEN ws.heard[p] ELSE {})
  BY DEF QuietBut
<1>2. informed' = A \cup (IF ws'.driver = ws.driver THEN informed ELSE {})
  BY DEF Informs
<1>3. \A p \in Path : ws'.heard[p] \subseteq informed'
  BY <1>1, <1>2 DEF IInv, UpToDateKnowsDriver
<1>4. informed' \subseteq Client
  BY <1>2 DEF IInv
<1>5. UpToDateKnowsDriver'
  BY <1>3 DEF UpToDateKnowsDriver
<1> QED
  BY <1>4, <1>5 DEF IInv, Good, Seats, Queued, Held, Viewed

LEMMA SameRolesStep ==
  ASSUME IInv, SameRoles(ws, ws'), Informs({})
  PROVE  IInv'
<1>1. Good(ws') /\ Quiet(ws, ws')
  BY SameRolesGood DEF IInv
<1> QED
  BY <1>1, InformsKeeps DEF Quiet

LEMMA QuietStep ==
  ASSUME IInv, Good(ws'), Quiet(ws, ws'), Informs({})
  PROVE  IInv'
BY InformsKeeps DEF Quiet

\* A handler that authenticated its caller and then did something quiet.
LEMMA MemberStep ==
  ASSUME IInv, NEW p \in Path, NEW c \in Client,
         Good(ws'), Quiet(Member(ws, p, c), ws'), Informs({})
  PROVE  IInv'
<1>1. Quiet(ws, Member(ws, p, c))
  BY MemberGood DEF IInv
<1>2. QuietBut(Member(ws, p, c), ws', {})
  BY DEF Quiet
<1>3. QuietBut(ws, ws', {})
  BY <1>1, <1>2, QuietTransitive
<1> QED
  BY <1>3, QuietStep DEF Quiet

LEMMA TickKeeps == IInv /\ Tick => IInv'
<1> SUFFICES ASSUME IInv, Tick PROVE IInv'
  OBVIOUS
<1> DEFINE older == [c \in Client |->
              IF c \in ws.members /\ ws.idle[c] <= Lease THEN ws.idle[c] + 1 ELSE ws.idle[c]]
<1>1. ws \in Workspace /\ ws.idle \in [Client -> 0 .. Lease + 1]
  BY DEF IInv, Good, Workspace
<1>2. older \in [Client -> 0 .. Lease + 1]
  BY <1>1, CollaborationAssumption
<1>3. ws' = [ws EXCEPT !.idle = older]
  BY DEF Tick
<1> HIDE DEF older
<1>4. SameRoles(ws, ws')
  BY <1>1, <1>2, <1>3 DEF SameRoles, Workspace
<1> QED
  BY <1>4, SameRolesStep DEF Tick

LEMMA JoinKeeps ==
  ASSUME IInv, NEW c \in Client, NEW p \in Path, JoinRequest(c, p)
  PROVE  IInv'
<1> DEFINE o == Open(Refresh(ws), p)
<1>1. Good(Refresh(ws)) /\ Quiet(ws, Refresh(ws))
  BY RefreshGood DEF IInv
<1>2. Good(o) /\ Quiet(Refresh(ws), o)
  BY <1>1, OpenSameRoles, SameRolesGood DEF Good
<1>3. ws' = Join(o, p, c) /\ Informs({c})
  BY DEF JoinRequest
<1> HIDE DEF o
<1>4. Good(ws') /\ QuietBut(o, ws', {c})
  BY <1>2, <1>3, JoinGood
<1>5. QuietBut(Refresh(ws), ws', {c})
  BY <1>2, <1>4, QuietTransitive
<1>6. QuietBut(ws, ws', {c})
  BY <1>1, <1>5, QuietTransitive
<1> QED
  BY <1>3, <1>4, <1>6, InformsKeeps

LEMMA JoinDeniedKeeps ==
  ASSUME IInv, NEW c \in Client, NEW p \in Path, JoinDenied(c, p)
  PROVE  IInv'
<1>1. Good(Refresh(ws)) /\ Quiet(ws, Refresh(ws))
  BY RefreshGood DEF IInv
<1>2. ws' = Open(Refresh(ws), p) /\ Informs({})
  BY DEF JoinDenied
<1>3. Good(ws') /\ Quiet(Refresh(ws), ws')
  BY <1>1, <1>2, OpenSameRoles, SameRolesGood DEF Good
<1>4. QuietBut(Refresh(ws), ws', {})
  BY <1>3 DEF Quiet
<1>5. QuietBut(ws, ws', {})
  BY <1>1, <1>4, QuietTransitive
<1> QED
  BY <1>2, <1>3, <1>5, QuietStep DEF Quiet

LEMMA AskKeeps ==
  ASSUME IInv, NEW c \in Client, NEW p \in Path, Ask(c, p)
  PROVE  IInv'
BY MemberGood, QuietStep DEF Ask, IInv

LEMMA PollKeeps ==
  ASSUME IInv, NEW c \in Client, NEW p \in Path, Poll(c, p)
  PROVE  IInv'
<1> DEFINE q == EventPath(ws, p, c)
<1>1. q \in Path
  BY DEF IInv, Good, Workspace, EventPath
<1>2. ws' = State(ws, q, c) /\ Informs({c})
  BY DEF Poll
<1> HIDE DEF q
<1>3. Good(ws') /\ QuietBut(ws, ws', {c})
  BY <1>1, <1>2, StateGood DEF IInv
<1> QED
  BY <1>2, <1>3, InformsKeeps

LEMMA LeaveKeeps ==
  ASSUME IInv, NEW c \in Client, NEW p \in Path, Leave(c, p)
  PROVE  IInv'
<1> DEFINE m == Member(ws, p, c)
           v == [m EXCEPT !.inRoom[p] = @ \ {c}, !.heard[p] = @ \ {c}]
<1>1. Good(m)
  BY MemberGood DEF IInv
<1>2. ws' = Refresh(v) /\ Informs({})
  BY DEF Leave
<1> HIDE DEF m
<1>3. Good(v) /\ Quiet(m, v)
  <2>1. /\ v.members = m.members /\ v.ahead = m.ahead /\ v.driver = m.driver
        /\ v.released = m.released /\ v.view = m.view /\ v \in Workspace
        /\ \A q \in Path : v.inRoom[q] \subseteq m.inRoom[q] /\ v.heard[q] \subseteq m.heard[q]
    BY <1>1 DEF Good, Workspace
  <2> HIDE DEF v
  <2> QED
    BY <1>1, <2>1 DEF Good, Seats, Queued, Held, Viewed, Quiet, QuietBut
<1> HIDE DEF v
<1>4. Good(ws') /\ Quiet(v, ws')
  BY <1>2, <1>3, RefreshGood
<1>5. QuietBut(v, ws', {})
  BY <1>4 DEF Quiet
<1>6. QuietBut(m, ws', {})
  BY <1>3, <1>5, QuietTransitive
<1> QED
  BY <1>2, <1>4, <1>6, MemberStep DEF Quiet, m

LEMMA ReleaseKeeps ==
  ASSUME IInv, NEW c \in Client, NEW p \in Path, Release(c, p)
  PROVE  IInv'
<1> DEFINE m == Member(ws, p, c)
           v == SetDriver([m EXCEPT !.released = TRUE], None)
<1>1. Good(m) /\ SameRoles(Refresh(ws), m)
  BY MemberGood DEF IInv
<1>2. ws' = v /\ Informs({}) /\ c \in Refresh(ws).inRoom[p]
  BY DEF Release, IsDriver, Admits
<1>3. m.members # {}
  BY <1>1, <1>2 DEF Good, Seats, SameRoles
<1> HIDE DEF m
<1>4. Good(v) /\ Quiet(m, v)
  BY <1>1, <1>3, ReleaseGood
<1> HIDE DEF v
<1> QED
  BY <1>2, <1>4, MemberStep DEF m

LEMMA ClaimKeeps ==
  ASSUME IInv, NEW c \in Client, NEW p \in Path, Claim(c, p)
  PROVE  IInv'
<1> DEFINE m == Member(ws, p, c)
<1>1. Good(m) /\ SameRoles(Refresh(ws), m)
  BY MemberGood DEF IInv
<1>2. ws' = ChangeDriver(m, c) /\ Informs({}) /\ c \in Refresh(ws).inRoom[p]
  BY DEF Claim, Admits
<1>3. c \in m.members
  BY <1>1, <1>2 DEF Good, Seats, SameRoles
<1> HIDE DEF m
<1>4. Good(ws') /\ Quiet(m, ws')
  BY <1>1, <1>2, <1>3, ChangeDriverGood
<1> QED
  BY <1>2, <1>4, MemberStep DEF m

LEMMA HandoffKeeps ==
  ASSUME IInv, NEW c \in Client, NEW p \in Path, NEW d \in Client, Handoff(c, p, d)
  PROVE  IInv'
<1> DEFINE m == Member(ws, p, c)
<1>1. Good(m) /\ SameRoles(Refresh(ws), m)
  BY MemberGood DEF IInv
<1>2. ws' = ChangeDriver(m, d) /\ Informs({}) /\ d \in Refresh(ws).members
  BY DEF Handoff
<1>3. d \in m.members
  BY <1>1, <1>2 DEF SameRoles
<1> HIDE DEF m
<1>4. Good(ws') /\ Quiet(m, ws')
  BY <1>1, <1>2, <1>3, ChangeDriverGood
<1> QED
  BY <1>2, <1>4, MemberStep DEF m

LEMMA PublishViewKeeps ==
  ASSUME IInv, NEW c \in Client, NEW p \in Path, NEW q \in Path, PublishView(c, p, q)
  PROVE  IInv'
<1> DEFINE m == Member(ws, p, c)
           n == Member(m, q, c)
           new == [path |-> q, driver |-> c]
           v == [n EXCEPT !.view = new]
<1>1. Good(m) /\ SameRoles(Refresh(ws), m) /\ Fresh(m)
  BY MemberGood, MemberFresh DEF IInv
<1>2. /\ ws' = IF n.view = new THEN n ELSE v
      /\ Informs({}) /\ Refresh(ws).driver = c
  BY DEF PublishView, IsDriver
<1>3. m.driver = c
  BY <1>1, <1>2 DEF SameRoles
<1> HIDE DEF m
<1>4. Good(n) /\ SameRoles(Refresh(m), n) /\ Quiet(m, n)
  BY <1>1, MemberGood
<1>5. n.driver = c
  BY <1>1, <1>3, <1>4, FreshDriverStays DEF SameRoles
<1> HIDE DEF n
<1>6. Good(v) /\ Quiet(n, v)
  <2>1. new \in View /\ new.driver = c
    BY DEF View
  <2>2. /\ v \in Workspace /\ v.view = new
        /\ v.members = n.members /\ v.ahead = n.ahead /\ v.inRoom = n.inRoom
        /\ v.driver = n.driver /\ v.released = n.released /\ v.heard = n.heard
    BY <1>4, <2>1 DEF Good, Workspace
  <2> HIDE DEF v, new
  <2> QED
    BY <1>4, <1>5, <2>1, <2>2 DEF Good, Seats, Queued, Held, Viewed, Quiet, QuietBut
<1> HIDE DEF v, new
<1>7. Good(ws') /\ Quiet(n, ws')
  BY <1>2, <1>4, <1>6 DEF Quiet, QuietBut
<1>8. Quiet(m, ws')
  BY <1>4, <1>7, QuietTransitive DEF Quiet
<1> QED
  BY <1>2, <1>7, <1>8, MemberStep DEF m

LEMMA AcceptWriteKeeps ==
  ASSUME IInv, NEW c \in Client, NEW p \in Path, AcceptWrite(c, p)
  PROVE  IInv'
<1> DEFINE m == Member(ws, p, c)
<1>1. Good(m)
  BY MemberGood DEF IInv
<1>2. ws' = [m EXCEPT !.active[p] = @ + 1] /\ Informs({})
  BY DEF AcceptWrite, Accept
<1> HIDE DEF m
<1>3. SameRoles(m, ws')
  BY <1>1, <1>2, AcceptSameRoles DEF Good
<1>4. Good(ws') /\ Quiet(m, ws')
  BY <1>1, <1>3, SameRolesGood
<1> QED
  BY <1>2, <1>4, MemberStep DEF m

LEMMA SettleWriteKeeps ==
  ASSUME IInv, NEW p \in Path, SettleWrite(p)
  PROVE  IInv'
BY SettleSameRoles, SameRolesStep DEF SettleWrite, IInv, Good

LEMMA SettleFailureKeeps ==
  ASSUME IInv, NEW p \in Path, SettleFailure(p)
  PROVE  IInv'
<1> DEFINE v == [ws EXCEPT !.heard[p] = {}]
<1>1. SameRoles(ws, v)
  BY DEF IInv, Good, SameRoles, Workspace
<1>2. ws' = Settle(v, p) /\ Informs({})
  BY DEF SettleFailure
<1> HIDE DEF v
<1>3. SameRoles(v, ws')
  BY <1>1, <1>2, SettleSameRoles DEF SameRoles
<1> QED
  BY <1>1, <1>2, <1>3, SameRolesTransitive, SameRolesStep

LEMMA PublishSnapshotKeeps ==
  ASSUME IInv, NEW p \in Path, NEW rev \in Nat, PublishSnapshot(p, rev)
  PROVE  IInv'
BY PublishSameRoles, SameRolesStep DEF PublishSnapshot, IInv, Good

LEMMA SettleRenameKeeps ==
  ASSUME IInv, NEW old \in Path, NEW new \in Path, NEW rev \in Nat,
         SettleRename(old, new, rev)
  PROVE  IInv'
<1> DEFINE s == Settle(ws, old)
           r == Rename(s, old, new)
<1>1. ws' = Publish(r, new, rev) /\ Informs({})
  BY DEF SettleRename
<1>2. Good(s) /\ Quiet(ws, s)
  BY SettleSameRoles, SameRolesGood DEF IInv, Good
<1> HIDE DEF s
<1>3. Good(r) /\ Quiet(s, r)
  BY <1>2, RenameGood
<1> HIDE DEF r
<1>4. Good(ws') /\ Quiet(r, ws')
  BY <1>1, <1>3, PublishSameRoles, SameRolesGood DEF Good
<1>5. Quiet(s, ws')
  BY <1>3, <1>4, QuietTransitive DEF Quiet
<1>6. Quiet(ws, ws')
  BY <1>2, <1>5, QuietTransitive DEF Quiet
<1> QED
  BY <1>1, <1>4, <1>6, QuietStep

LEMMA NextKeeps == IInv /\ [Next]_vars => IInv'
<1> SUFFICES ASSUME IInv, [Next]_vars PROVE IInv'
  OBVIOUS
<1>1. CASE Tick
  BY <1>1, TickKeeps
<1>2. ASSUME NEW c \in Client, NEW p \in Path,
             JoinRequest(c, p) \/ JoinDenied(c, p) \/ Ask(c, p) \/ Poll(c, p) \/ Leave(c, p)
      PROVE  IInv'
  BY <1>2, JoinKeeps, JoinDeniedKeeps, AskKeeps, PollKeeps, LeaveKeeps
<1>3. ASSUME NEW c \in Client, NEW p \in Path,
             Release(c, p) \/ Claim(c, p) \/ AcceptWrite(c, p)
      PROVE  IInv'
  BY <1>3, ReleaseKeeps, ClaimKeeps, AcceptWriteKeeps
<1>4. ASSUME NEW c \in Client, NEW p \in Path, NEW d \in Client, Handoff(c, p, d)
      PROVE  IInv'
  BY <1>4, HandoffKeeps
<1>5. ASSUME NEW c \in Client, NEW p \in Path, NEW q \in Path, PublishView(c, p, q)
      PROVE  IInv'
  BY <1>5, PublishViewKeeps
<1>6. ASSUME NEW p \in Path, SettleWrite(p) \/ SettleFailure(p)
      PROVE  IInv'
  BY <1>6, SettleWriteKeeps, SettleFailureKeeps
<1>7. ASSUME NEW p \in Path, NEW rev \in Revision, PublishSnapshot(p, rev)
      PROVE  IInv'
  <2>1. rev \in Nat
    BY CollaborationAssumption
  <2> QED
    BY <1>7, <2>1, PublishSnapshotKeeps
<1>8. ASSUME NEW p \in Path, NEW q \in Path, NEW rev \in Revision,
             SettleRename(p, q, rev)
      PROVE  IInv'
  <2>1. rev \in Nat
    BY CollaborationAssumption
  <2> QED
    BY <1>8, <2>1, SettleRenameKeeps
<1>9. CASE UNCHANGED vars
  BY <1>9 DEF vars, IInv, Good, Seats, Queued, Held, Viewed, UpToDateKnowsDriver
<1> QED
  BY <1>1, <1>2, <1>3, <1>4, <1>5, <1>6, <1>7, <1>8, <1>9 DEF Next

LEMMA InitEstablishes == Init => IInv
BY NewWorkspaceGood DEF Init, IInv, UpToDateKnowsDriver, NewWorkspace

-----------------------------------------------------------------------------
(* The theorems. *)

\* All the parts of the invariant hold together for ever.
THEOREM Invariance == Spec => []IInv
BY InitEstablishes, NextKeeps, PTL DEF Spec

\* The struct keeps its type: no counter of accepted work, redirects or
\* revisions leaves the naturals (saturating_sub and the limits of the code).
THEOREM TypeCorrect == Spec => []TypeOK
<1>1. IInv => TypeOK
  BY DEF IInv, Good, TypeOK
<1> QED
  BY <1>1, Invariance, PTL

\* Every subscriber of a room is a connected member: `member` can rely on the
\* room alone.
THEOREM SeatsAreMembersAlways == Spec => []SeatsAreMembers
<1>1. IInv => SeatsAreMembers
  BY DEF IInv, Good, Seats, SeatsAreMembers
<1> QED
  BY <1>1, Invariance, PTL

\* There is a connected driver unless control was released or nobody is there,
\* after every request and every re-election by `refresh`.
THEOREM AuthorityHeldAlways == Spec => []AuthorityHeld
<1>1. IInv => AuthorityHeld
  BY DEF IInv, Good, Held, AuthorityHeld
<1> QED
  BY <1>1, Invariance, PTL

\* The follow view is the current driver's (`set_driver` clears it,
\* `publish_view` admits the driver only).
THEOREM ViewIsDriversAlways == Spec => []ViewIsDrivers
<1>1. IInv => ViewIsDrivers
  BY DEF IInv, Good, Viewed, ViewIsDrivers
<1> QED
  BY <1>1, Invariance, PTL

\* The roles hang together: the four facts above at once, for any number of
\* clients and paths and any limits of members, rooms, renames and work.
THEOREM RolesHold == Spec => []RolesInv
<1>1. TypeOK /\ SeatsAreMembers /\ AuthorityHeld /\ ViewIsDrivers => RolesInv
  BY DEF RolesInv
<1> QED
  BY <1>1, TypeCorrect, SeatsAreMembersAlways, AuthorityHeldAlways, ViewIsDriversAlways, PTL

\* No change of driver goes unannounced in any room: a poller that would be
\* made to wait has been told who drives.
THEOREM UpToDateKnowsDriverAlways == Spec => []UpToDateKnowsDriver
<1>1. IInv => UpToDateKnowsDriver
  BY DEF IInv
<1> QED
  BY <1>1, Invariance, PTL

-----------------------------------------------------------------------------
(***************************************************************************)
(* The promise about the driver (DriverAuthority).  Hand-over and claim    *)
(* are its Transfer, a release is its Release; every other handler,        *)
(* whatever leases lapsed before it, is a Turnover: first some members go  *)
(* (Shrinks), then a join may add one.                                     *)
(*                                                                         *)
(* Then the action properties: who succeeds a driver that vanished, who    *)
(* may lose a lease that is alive, and where a rename leads subscriptions. *)
(***************************************************************************)

\* From w to v only members were lost, and a driver that stayed still drives.
Shrinks(w, v) ==
  /\ v.members \subseteq w.members
  /\ v.released = IF v.members = {} THEN FALSE ELSE w.released
  /\ w.driver \in v.members => v.driver = w.driver

SameAuthority(w, v) ==
  v.members = w.members /\ v.driver = w.driver /\ v.released = w.released

LEMMA SameAuthorityShrinks ==
  ASSUME NEW w, NEW v, Good(w), SameAuthority(w, v)
  PROVE  Shrinks(w, v)
BY DEF Good, Held, Workspace, SameAuthority, Shrinks

LEMMA ShrinksTransitive ==
  ASSUME NEW u, NEW v, NEW w, Shrinks(u, v), Shrinks(v, w)
  PROVE  Shrinks(u, w)
BY DEF Shrinks

LEMMA RefreshShrinks ==
  ASSUME NEW w, Good(w)
  PROVE  Shrinks(w, Refresh(w))
<1> DEFINE k == Prune(w)
           r == SetDriver(k, Policy(k))
<1>1. /\ k \in Workspace /\ Queued(k) /\ Viewed(k)
      /\ k.members \subseteq w.members /\ k.driver = w.driver
      /\ k.released = IF k.members = {} THEN FALSE ELSE w.released
  BY PruneKeeps
<1>2. Refresh(w) = IF ~k.released /\ k.driver \notin k.members THEN r ELSE k
  BY DEF Refresh
<1>3. Policy(k) \in Client \cup {None}
  BY <1>1, PolicyElects DEF Good, Workspace
<1> HIDE DEF k
<1>4. r.members = k.members /\ r.released = k.released
  BY <1>1, <1>3, SetDriverReplaces
<1> HIDE DEF r
<1> QED
  BY <1>1, <1>2, <1>4 DEF Shrinks

LEMMA MemberShrinks ==
  ASSUME NEW w, Good(w), NEW p \in Path, NEW c \in Client
  PROVE  Shrinks(w, Member(w, p, c))
<1>1. Good(Refresh(w)) /\ Shrinks(w, Refresh(w))
  BY RefreshGood, RefreshShrinks
<1>2. SameAuthority(Refresh(w), Member(w, p, c))
  BY MemberGood DEF SameRoles, SameAuthority
<1> QED
  BY <1>1, <1>2, SameAuthorityShrinks, ShrinksTransitive

\* A second refresh at the same time removes nobody.
LEMMA FreshAuthorityStays ==
  ASSUME NEW w, Good(w), Fresh(w)
  PROVE  SameAuthority(w, Refresh(w))
<1> DEFINE k == Prune(w)
           r == SetDriver(k, Policy(k))
<1>1. k.members = w.members
  BY DEF Fresh, Prune, Good, Workspace
<1>2. /\ k \in Workspace /\ Queued(k) /\ Viewed(k) /\ k.driver = w.driver
      /\ k.released = IF k.members = {} THEN FALSE ELSE w.released
  BY PruneKeeps
<1>3. Refresh(w) = IF ~k.released /\ k.driver \notin k.members THEN r ELSE k
  BY DEF Refresh
<1>4. Policy(k) \in Client \cup {None}
  BY <1>1, <1>2, PolicyElects DEF Good, Workspace
<1> HIDE DEF k
<1>5. r.members = k.members /\ r.released = k.released
  BY <1>2, <1>4, SetDriverReplaces
<1>6. Held(w) /\ w.released \in BOOLEAN
  BY DEF Good, Workspace
<1>7. Refresh(w).driver = w.driver
  BY FreshDriverStays
<1> HIDE DEF r
<1> QED
  BY <1>1, <1>2, <1>3, <1>5, <1>6, <1>7 DEF SameAuthority, Held

\* A join adds its client to the members and replaces nobody.
LEMMA JoinAdds ==
  ASSUME NEW w, Good(w), Fresh(w), NEW p \in Path, NEW c \in Client
  PROVE  /\ Join(w, p, c).members = w.members \cup {c}
         /\ Join(w, p, c).released = w.released
         /\ w.driver # None => Join(w, p, c).driver = w.driver
<1> DEFINE s == Seat(w, p, c)
           elected == SetDriver(s, Policy(s))
           led == IF s.driver = None /\ ~s.released THEN elected ELSE s
           a == Announce(led)
<1> USE DEF Good
<1>1. /\ s \in Workspace /\ Queued(s) /\ Viewed(s) /\ s.members = w.members \cup {c}
      /\ s.driver = w.driver /\ s.released = w.released
  BY SeatQueues
<1>2. Fresh(s)
  <2>1. /\ w.inRoom \in [Path -> SUBSET Client] /\ w.members \subseteq Client
        /\ w.idle \in [Client -> 0 .. Lease + 1]
    BY DEF Workspace
  <2>2. \A d \in w.members : w.idle[d] <= Lease /\ \E q \in Path : d \in w.inRoom[q]
    BY DEF Fresh, Kept
  <2>3. s.inRoom = [w.inRoom EXCEPT ![p] = @ \cup {c}]
    BY DEF Seat, Workspace
  <2>4. (s.idle = w.idle /\ c \in w.members) \/ s.idle = [w.idle EXCEPT ![c] = 0]
    BY DEF Seat, Workspace
  <2> HIDE DEF s
  <2>5. \A d \in w.members \cup {c} : s.idle[d] <= Lease
    BY <2>1, <2>2, <2>4, CollaborationAssumption
  <2>6. \A d \in w.members \cup {c} : \E q \in Path : d \in s.inRoom[q]
    BY <2>1, <2>2, <2>3
  <2> QED
    BY <1>1, <2>5, <2>6 DEF Fresh, Kept
<1> HIDE DEF s
<1>3. led \in Workspace /\ led.members = s.members /\ led.released = s.released
      /\ (s.driver # None => led.driver = s.driver) /\ Fresh(led)
  <2>1. Policy(s) \in s.members
    BY <1>1, PolicyElects
  <2>2. Policy(s) \in Client \cup {None}
    BY <1>1, <2>1 DEF Workspace
  <2>3. /\ elected \in Workspace /\ elected.members = s.members
        /\ elected.inRoom = s.inRoom /\ elected.released = s.released
    BY <1>1, <2>2, SetDriverReplaces
  <2>4. elected.idle = s.idle
    BY <1>1 DEF SetDriver, Announce, Workspace
  <2> HIDE DEF elected
  <2>5. Fresh(elected)
    BY <1>2, <2>3, <2>4, FreshKept
  <2> QED
    BY <1>1, <1>2, <2>3, <2>5
<1> HIDE DEF led
<1>4. /\ a \in Workspace /\ a.members = led.members /\ a.released = led.released
      /\ a.driver = led.driver /\ a.inRoom = led.inRoom
  BY <1>3, AnnounceSilences
<1>5. a.idle = led.idle
  BY <1>3 DEF Announce, Workspace
<1>6. a = Joined(w, p, c)
  BY DEF Joined, led, s
<1> HIDE DEF a
<1>7. Fresh(a) /\ Good(a)
  BY <1>3, <1>4, <1>5, <1>6, FreshKept, JoinedGood
<1> DEFINE m == Member(a, p, c)
<1>8. SameAuthority(a, m) /\ m \in Workspace
  <2>1. SameAuthority(a, Refresh(a))
    BY <1>7, FreshAuthorityStays
  <2>2. SameRoles(Refresh(a), m) /\ Good(m)
    BY <1>7, MemberGood
  <2> QED
    BY <2>1, <2>2 DEF SameRoles, SameAuthority
<1>9. Join(w, p, c) = [m EXCEPT !.heard[p] = @ \cup {c}]
  BY <1>6 DEF Join, Joined, State, Hear
<1> HIDE DEF m
<1>10. SameAuthority(m, Join(w, p, c))
  BY <1>8, <1>9 DEF Workspace, SameAuthority
<1> QED
  BY <1>1, <1>3, <1>4, <1>8, <1>10 DEF SameAuthority

-----------------------------------------------------------------------------
(* The steps. *)

\* Members were lost, then those of A joined: a Turnover.
LEMMA TurnoverStep ==
  ASSUME Good(ws), Good(ws'), NEW v, Shrinks(ws, v), NEW A \in SUBSET Client,
         ws'.members = v.members \cup A, ws'.released = v.released,
         v.driver # None => ws'.driver = v.driver
  PROVE  Authority!Next
<1>1. /\ ws.members \subseteq Client /\ ws.released \in BOOLEAN /\ Held(ws)
      /\ ws'.released \in BOOLEAN /\ Held(ws') /\ ws'.members \subseteq Client
  BY DEF Good, Workspace
<1>2. ws'.released = (ws.released /\ v.members # {})
  BY <1>1 DEF Shrinks
<1>3. \/ ws'.released /\ ws'.driver = ws.driver
      \/ ~ws'.released /\ ws.driver \in v.members /\ ws'.driver = ws.driver
      \/ ~ws'.released /\ ws.driver \notin v.members /\ ws'.members # {}
           /\ ws'.driver \in ws'.members
      \/ ~ws'.released /\ ws'.members = {} /\ ws'.driver = None
  BY <1>1, <1>2, CollaborationAssumption DEF Shrinks, Held
<1>4. v.members \in SUBSET ws.members
  BY DEF Shrinks
<1>5. Busy(ws)' \in BOOLEAN
  BY DEF Busy
<1>6. Authority!Turnover
  BY <1>2, <1>3, <1>4, <1>5 DEF Authority!Turnover
<1> QED
  BY <1>6 DEF Authority!Next

LEMMA ShrinkStep ==
  ASSUME Good(ws), Good(ws'), Shrinks(ws, ws')
  PROVE  Authority!Next
<1>1. ws'.members = ws'.members \cup {} /\ {} \in SUBSET Client
  OBVIOUS
<1> QED
  BY <1>1, TurnoverStep

LEMMA SameAuthorityStep ==
  ASSUME Good(ws), Good(ws'), NEW v, Shrinks(ws, v), Good(v), SameAuthority(v, ws')
  PROVE  Authority!Next
BY SameAuthorityShrinks, ShrinksTransitive, ShrinkStep

LEMMA RefreshActive ==
  ASSUME NEW w, Good(w)
  PROVE  Refresh(w).active = w.active
<1> DEFINE k == Prune(w)
<1>1. k \in Workspace /\ k.active = w.active
  <2>1. k \in Workspace
    BY PruneKeeps
  <2>2. k.active = w.active
    BY DEF Prune, Good, Workspace
  <2> QED
    BY <2>1, <2>2
<1>2. Refresh(w) = k \/ Refresh(w) = SetDriver(k, Policy(k))
  BY DEF Refresh
<1> HIDE DEF k
<1>3. SetDriver(k, Policy(k)).active = k.active
  BY <1>1 DEF SetDriver, Announce, Workspace
<1> QED
  BY <1>1, <1>2, <1>3

LEMMA MemberActive ==
  ASSUME NEW w, Good(w), NEW p \in Path, NEW c \in Client
  PROVE  Member(w, p, c).active = w.active
<1> DEFINE f == Refresh(w)
           r == Open(f, p)
<1>1. f \in Workspace /\ f.active = w.active
  BY RefreshGood, RefreshActive DEF Good
<1>2. Member(w, p, c) = IF c \in r.inRoom[p] THEN [r EXCEPT !.idle[c] = 0] ELSE r
  BY DEF Member
<1> HIDE DEF f
<1>3. r \in Workspace /\ r.active = f.active
  BY <1>1 DEF Open, Workspace
<1> HIDE DEF r
<1> QED
  BY <1>1, <1>2, <1>3 DEF Workspace

LEMMA JoinTurns ==
  ASSUME Good(ws), Good(ws'), NEW c \in Client, NEW p \in Path, JoinRequest(c, p)
  PROVE  Authority!Next
<1> DEFINE f == Refresh(ws)
           o == Open(f, p)
<1>1. Good(f) /\ Fresh(f) /\ Shrinks(ws, f)
  BY RefreshGood, RefreshFresh, RefreshShrinks
<1>2. ws' = Join(o, p, c)
  BY DEF JoinRequest
<1> HIDE DEF f
<1>3. /\ SameRoles(f, o) /\ o.idle = f.idle
  BY <1>1, OpenSameRoles DEF Good, Open, Workspace
<1>4. Good(o)
  BY <1>1, <1>3, SameRolesGood
<1> HIDE DEF o
<1>5. Fresh(o)
  BY <1>1, <1>3, FreshKept DEF SameRoles
<1>6. Shrinks(ws, o)
  BY <1>1, <1>3, SameAuthorityShrinks, ShrinksTransitive DEF SameRoles, SameAuthority
<1>7. /\ ws'.members = o.members \cup {c} /\ ws'.released = o.released
      /\ o.driver # None => ws'.driver = o.driver
  BY <1>2, <1>4, <1>5, JoinAdds
<1>8. {c} \in SUBSET Client
  OBVIOUS
<1> QED
  BY <1>6, <1>7, <1>8, TurnoverStep

LEMMA JoinDeniedTurns ==
  ASSUME Good(ws), Good(ws'), NEW c \in Client, NEW p \in Path, JoinDenied(c, p)
  PROVE  Authority!Next
<1>1. Good(Refresh(ws)) /\ Shrinks(ws, Refresh(ws))
  BY RefreshGood, RefreshShrinks
<1>2. ws' = Open(Refresh(ws), p)
  BY DEF JoinDenied
<1>3. SameAuthority(Refresh(ws), ws')
  BY <1>1, <1>2, OpenSameRoles DEF Good, SameRoles, SameAuthority
<1> QED
  BY <1>1, <1>3, SameAuthorityStep

LEMMA PollTurns ==
  ASSUME Good(ws), Good(ws'), NEW c \in Client, NEW p \in Path, Poll(c, p)
  PROVE  Authority!Next
<1> DEFINE q == EventPath(ws, p, c)
           m == Member(ws, q, c)
<1>1. q \in Path
  BY DEF Good, Workspace, EventPath
<1>2. ws' = [m EXCEPT !.heard[q] = @ \cup {c}]
  BY DEF Poll, State, Hear
<1> HIDE DEF q
<1>3. Good(m) /\ Shrinks(ws, m)
  BY <1>1, MemberGood, MemberShrinks
<1> HIDE DEF m
<1>4. SameAuthority(m, ws')
  BY <1>2, <1>3 DEF Good, Workspace, SameAuthority
<1> QED
  BY <1>3, <1>4, SameAuthorityStep

LEMMA LeaveTurns ==
  ASSUME Good(ws), Good(ws'), NEW c \in Client, NEW p \in Path, Leave(c, p)
  PROVE  Authority!Next
<1> DEFINE m == Member(ws, p, c)
           v == [m EXCEPT !.inRoom[p] = @ \ {c}, !.heard[p] = @ \ {c}]
<1>1. Good(m) /\ Shrinks(ws, m)
  BY MemberGood, MemberShrinks
<1>2. ws' = Refresh(v)
  BY DEF Leave
<1> HIDE DEF m
<1>3. /\ v.members = m.members /\ v.ahead = m.ahead /\ v.driver = m.driver
      /\ v.released = m.released /\ v.view = m.view /\ v \in Workspace
      /\ \A q \in Path : v.inRoom[q] \subseteq m.inRoom[q]
  BY <1>1 DEF Good, Workspace
<1> HIDE DEF v
<1>4. Good(v) /\ SameAuthority(m, v)
  BY <1>1, <1>3 DEF Good, Seats, Queued, Held, Viewed, SameAuthority
<1>5. Shrinks(m, v) /\ Shrinks(v, ws')
  BY <1>1, <1>2, <1>4, SameAuthorityShrinks, RefreshShrinks
<1>6. Shrinks(ws, ws')
  BY <1>1, <1>5, ShrinksTransitive
<1> QED
  BY <1>6, ShrinkStep

\* Hand-over and claim: control moves to a member while nothing is pending.
LEMMA TransferStep ==
  ASSUME Good(ws), Good(ws'), ~Busy(ws), NEW c \in Client, NEW p \in Path, NEW d,
         d \in Member(ws, p, c).members, ws' = ChangeDriver(Member(ws, p, c), d)
  PROVE  Authority!Next
<1> DEFINE m == Member(ws, p, c)
           u == [m EXCEPT !.released = FALSE]
<1>1. Good(m) /\ m.active = ws.active
  BY MemberGood, MemberActive
<1>2. ws' = SetDriver(u, d) /\ d \in m.members
  BY DEF ChangeDriver
<1> HIDE DEF m
<1>3. /\ u \in Workspace /\ Viewed(u) /\ u.members = m.members /\ u.released = FALSE
      /\ u.active = m.active
  BY <1>1 DEF Good, Workspace, Viewed
<1>4. d \in Client
  BY <1>1, <1>2 DEF Good, Workspace
<1> HIDE DEF u
<1>5. ws'.driver = d /\ ws'.members = u.members /\ ws'.released = u.released
  BY <1>2, <1>3, <1>4, SetDriverReplaces
<1>6. ws'.active = u.active
  BY <1>2, <1>3 DEF SetDriver, Announce, Workspace
<1>7. ~Busy(ws)'
  BY <1>1, <1>3, <1>6 DEF Busy
<1>8. ws'.members \in SUBSET Client
  BY DEF Good, Workspace
<1>9. Authority!Transfer
  BY <1>2, <1>3, <1>5, <1>7, <1>8 DEF Authority!Transfer
<1> QED
  BY <1>9 DEF Authority!Next

LEMMA ClaimTurns ==
  ASSUME Good(ws), Good(ws'), NEW c \in Client, NEW p \in Path, Claim(c, p)
  PROVE  Authority!Next
<1>1. Good(Refresh(ws)) /\ SameRoles(Refresh(ws), Member(ws, p, c))
  BY RefreshGood, MemberGood
<1>2. /\ ~Busy(ws) /\ ws' = ChangeDriver(Member(ws, p, c), c)
      /\ c \in Refresh(ws).inRoom[p]
  BY DEF Claim, Admits
<1>3. c \in Member(ws, p, c).members
  BY <1>1, <1>2 DEF Good, Seats, SameRoles
<1> QED
  BY <1>2, <1>3, TransferStep

LEMMA HandoffTurns ==
  ASSUME Good(ws), Good(ws'), NEW c \in Client, NEW p \in Path, NEW d \in Client,
         Handoff(c, p, d)
  PROVE  Authority!Next
<1>1. SameRoles(Refresh(ws), Member(ws, p, c))
  BY MemberGood
<1>2. /\ ~Busy(ws) /\ ws' = ChangeDriver(Member(ws, p, c), d)
      /\ d \in Refresh(ws).members
  BY DEF Handoff
<1>3. d \in Member(ws, p, c).members
  BY <1>1, <1>2 DEF SameRoles
<1> QED
  BY <1>2, <1>3, TransferStep

LEMMA ReleaseReleases ==
  ASSUME Good(ws), Good(ws'), NEW c \in Client, NEW p \in Path, Release(c, p)
  PROVE  Authority!Next
<1> DEFINE m == Member(ws, p, c)
           u == [m EXCEPT !.released = TRUE]
<1>1. Good(m) /\ m.active = ws.active /\ SameRoles(Refresh(ws), m)
  BY MemberGood, MemberActive
<1>2. ws' = SetDriver(u, None) /\ ~Busy(ws) /\ c \in Refresh(ws).inRoom[p]
  BY DEF Release, IsDriver, Admits
<1>3. m.members # {}
  BY <1>1, <1>2 DEF Good, Seats, SameRoles
<1> HIDE DEF m
<1>4. /\ u \in Workspace /\ Viewed(u) /\ u.members = m.members /\ u.released = TRUE
      /\ u.active = m.active
  BY <1>1 DEF Good, Workspace, Viewed
<1> HIDE DEF u
<1>5. ws'.driver = None /\ ws'.members = u.members /\ ws'.released = u.released
  BY <1>2, <1>4, SetDriverReplaces
<1>6. ws'.active = u.active
  BY <1>2, <1>4 DEF SetDriver, Announce, Workspace
<1>7. ~Busy(ws)'
  BY <1>1, <1>2, <1>4, <1>6 DEF Busy
<1>8. ws'.members \in SUBSET Client
  BY DEF Good, Workspace
<1>9. Authority!Release
  BY <1>2, <1>3, <1>4, <1>5, <1>7, <1>8 DEF Authority!Release
<1> QED
  BY <1>9 DEF Authority!Next

LEMMA PublishViewTurns ==
  ASSUME Good(ws), Good(ws'), NEW c \in Client, NEW p \in Path, NEW q \in Path,
         PublishView(c, p, q)
  PROVE  Authority!Next
<1> DEFINE m == Member(ws, p, c)
           n == Member(m, q, c)
           new == [path |-> q, driver |-> c]
<1>1. Good(m) /\ Shrinks(ws, m)
  BY MemberGood, MemberShrinks
<1>2. ws' = IF n.view = new THEN n ELSE [n EXCEPT !.view = new]
  BY DEF PublishView
<1> HIDE DEF m
<1>3. Good(n) /\ Shrinks(m, n)
  BY <1>1, MemberGood, MemberShrinks
<1> HIDE DEF n, new
<1>4. SameAuthority(n, ws')
  BY <1>2, <1>3 DEF Good, Workspace, SameAuthority
<1>5. Shrinks(ws, n)
  BY <1>1, <1>3, ShrinksTransitive
<1> QED
  BY <1>3, <1>4, <1>5, SameAuthorityStep

LEMMA AcceptWriteTurns ==
  ASSUME Good(ws), Good(ws'), NEW c \in Client, NEW p \in Path, AcceptWrite(c, p)
  PROVE  Authority!Next
<1> DEFINE m == Member(ws, p, c)
<1>1. Good(m) /\ Shrinks(ws, m)
  BY MemberGood, MemberShrinks
<1>2. ws' = [m EXCEPT !.active[p] = @ + 1]
  BY DEF AcceptWrite, Accept
<1> HIDE DEF m
<1>3. SameAuthority(m, ws')
  BY <1>1, <1>2 DEF Good, Workspace, SameAuthority
<1> QED
  BY <1>1, <1>3, SameAuthorityStep

\* Settlements and publications leave the members and the driver alone.
LEMMA RoomStep ==
  ASSUME Good(ws), Good(ws'), SameAuthority(ws, ws')
  PROVE  Authority!Next
BY SameAuthorityShrinks, ShrinkStep

LEMMA SettleTurns ==
  ASSUME Good(ws), Good(ws'), NEW p \in Path, SettleWrite(p) \/ SettleFailure(p)
  PROVE  Authority!Next
<1> DEFINE v == [ws EXCEPT !.heard[p] = {}]
<1>1. SameAuthority(ws, v) /\ v \in Workspace /\ ws \in Workspace
  BY DEF Good, Workspace, SameAuthority
<1>2. ws' = Settle(ws, p) \/ ws' = Settle(v, p)
  BY DEF SettleWrite, SettleFailure
<1> HIDE DEF v
<1>3. SameAuthority(ws, Settle(ws, p)) /\ SameAuthority(v, Settle(v, p))
  BY <1>1, SettleSameRoles DEF SameRoles, SameAuthority
<1> QED
  BY <1>1, <1>2, <1>3, RoomStep DEF SameAuthority

LEMMA PublishSnapshotTurns ==
  ASSUME Good(ws), Good(ws'), NEW p \in Path, NEW rev \in Nat, PublishSnapshot(p, rev)
  PROVE  Authority!Next
BY PublishSameRoles, RoomStep DEF PublishSnapshot, Good, SameRoles, SameAuthority

LEMMA SettleRenameTurns ==
  ASSUME Good(ws), Good(ws'), NEW old \in Path, NEW new \in Path, NEW rev \in Nat,
         SettleRename(old, new, rev)
  PROVE  Authority!Next
<1> DEFINE s == Settle(ws, old)
           r == Rename(s, old, new)
<1>1. ws' = Publish(r, new, rev)
  BY DEF SettleRename
<1>2. Good(s) /\ SameAuthority(ws, s)
  <2>1. SameRoles(ws, s)
    BY SettleSameRoles DEF Good
  <2> QED
    BY <2>1, SameRolesGood DEF SameRoles, SameAuthority
<1> HIDE DEF s
<1>3. Good(r) /\ SameAuthority(s, r)
  BY <1>2, RenameGood DEF SameAuthority
<1> HIDE DEF r
<1>4. SameAuthority(r, ws')
  BY <1>1, <1>3, PublishSameRoles DEF Good, SameRoles, SameAuthority
<1> QED
  BY <1>2, <1>3, <1>4, RoomStep DEF SameAuthority

LEMMA TickTurns ==
  ASSUME Good(ws), Good(ws'), Tick
  PROVE  Authority!Next
<1>1. SameAuthority(ws, ws')
  BY DEF Tick, Good, Workspace, SameAuthority
<1> QED
  BY <1>1, RoomStep

LEMMA NextImplements ==
  ASSUME Good(ws), Good(ws'), [Next]_vars
  PROVE  [Authority!Next]_(Authority!vars)
<1>1. ASSUME NEW c \in Client, NEW p \in Path,
             JoinRequest(c, p) \/ JoinDenied(c, p) \/ Poll(c, p) \/ Leave(c, p)
      PROVE  Authority!Next
  BY <1>1, JoinTurns, JoinDeniedTurns, PollTurns, LeaveTurns
<1>2. ASSUME NEW c \in Client, NEW p \in Path, Ask(c, p)
      PROVE  Authority!Next
  BY <1>2, MemberShrinks, ShrinkStep DEF Ask
<1>3. ASSUME NEW c \in Client, NEW p \in Path,
             Release(c, p) \/ Claim(c, p) \/ AcceptWrite(c, p)
      PROVE  Authority!Next
  BY <1>3, ReleaseReleases, ClaimTurns, AcceptWriteTurns
<1>4. ASSUME NEW c \in Client, NEW p \in Path, NEW d \in Client, Handoff(c, p, d)
      PROVE  Authority!Next
  BY <1>4, HandoffTurns
<1>5. ASSUME NEW c \in Client, NEW p \in Path, NEW q \in Path, PublishView(c, p, q)
      PROVE  Authority!Next
  BY <1>5, PublishViewTurns
<1>6. ASSUME NEW p \in Path, SettleWrite(p) \/ SettleFailure(p)
      PROVE  Authority!Next
  BY <1>6, SettleTurns
<1>7. ASSUME NEW p \in Path, NEW rev \in Revision, PublishSnapshot(p, rev)
      PROVE  Authority!Next
  <2>1. rev \in Nat
    BY CollaborationAssumption
  <2> QED
    BY <1>7, <2>1, PublishSnapshotTurns
<1>8. ASSUME NEW p \in Path, NEW q \in Path, NEW rev \in Revision,
             SettleRename(p, q, rev)
      PROVE  Authority!Next
  <2>1. rev \in Nat
    BY CollaborationAssumption
  <2> QED
    BY <1>8, <2>1, SettleRenameTurns
<1>9. CASE UNCHANGED vars
  BY <1>9 DEF vars, Authority!vars, Busy
<1> QED
  BY <1>1, <1>2, <1>3, <1>4, <1>5, <1>6, <1>7, <1>8, <1>9, TickTurns DEF Next

\* The policy of collaboration.rs keeps the promise about the driver: whatever
\* the requests, lapses of leases, renames and settlements, control changes
\* hands by decision only while no accepted work is pending, and otherwise
\* only because the driver is gone.
THEOREM AuthorityImplemented == Spec => ImplementsAuthority
<1>1. Init => Authority!Init
  BY DEF Init, NewWorkspace, Authority!Init, Busy
<1>2. IInv /\ IInv' /\ [Next]_vars => [Authority!Next]_(Authority!vars)
  <2> SUFFICES ASSUME IInv, IInv', [Next]_vars
               PROVE  [Authority!Next]_(Authority!vars)
    OBVIOUS
  <2>1. Good(ws)
    BY DEF IInv
  <2>2. Good(ws')
    BY DEF IInv, Good, Seats, Queued, Held, Viewed
  <2> QED
    BY <2>1, <2>2, NextImplements
<1> QED
  BY <1>1, <1>2, Invariance, PTL DEF Spec, ImplementsAuthority, Authority!Spec

-----------------------------------------------------------------------------
(* Succession, leases and subscriptions: what a step does to the order of    *)
(* the members, to leases that are alive, and to the rooms' accounts.        *)

\* The driver joined before every other member.
Leading(w) == \A m \in w.members \ {w.driver} : <<w.driver, m>> \in w.ahead

\* From w to v control was lost, stayed where it was, or went to the first.
Orderly(w, v) ==
  \/ v.driver = None
  \/ /\ v.driver = w.driver /\ w.driver \in v.members
     /\ Leading(w) => Leading(v)
  \/ Leading(v)

\* Whoever has a live lease and a room keeps both.
Retains(w, v) == Kept(w) \subseteq Kept(v)

\* The accounts of the rooms are as before; rooms may have been opened.
Untouched(w, v) ==
  /\ v.active = w.active /\ v.snapshot = w.snapshot /\ v.redirects = w.redirects
  /\ w.rooms \subseteq v.rooms

Smooth(w, v) == Orderly(w, v) /\ Retains(w, v) /\ Untouched(w, v)

LEMMA SmoothTransitive ==
  ASSUME NEW u, NEW v, NEW w, Smooth(u, v), Smooth(v, w)
  PROVE  Smooth(u, w)
BY DEF Smooth, Orderly, Retains, Untouched

\* Only leases were renewed, rooms opened and cursors moved.
LEMMA RenewalSmooth ==
  ASSUME NEW w, NEW v, Held(w), Untouched(w, v),
         v.members = w.members, v.ahead = w.ahead, v.inRoom = w.inRoom,
         v.driver = w.driver, \A c \in w.members : v.idle[c] \in {0, w.idle[c]}
  PROVE  Smooth(w, v)
<1>1. Retains(w, v)
  BY CollaborationAssumption DEF Retains, Kept
<1>2. Orderly(w, v)
  BY DEF Held, Orderly, Leading
<1> QED
  BY <1>1, <1>2 DEF Smooth

LEMMA PolicyLeads ==
  ASSUME NEW w \in Workspace, Queued(w), w.members # {}
  PROVE  \A m \in w.members \ {Policy(w)} : <<Policy(w), m>> \in w.ahead
<1>1. \E c \in w.members : \A d \in w.members \ {c} : <<c, d>> \in w.ahead
  BY DEF Queued
<1> QED
  BY <1>1 DEF Policy

\* Replacing the driver touches nothing but the view and the cursors.
LEMMA SetDriverUntouched ==
  ASSUME NEW w \in Workspace, NEW d
  PROVE  /\ Untouched(w, SetDriver(w, d))
         /\ SetDriver(w, d).idle = w.idle /\ SetDriver(w, d).ahead = w.ahead
         /\ SetDriver(w, d).members = w.members /\ SetDriver(w, d).inRoom = w.inRoom
         /\ SetDriver(w, d).driver = d
<1> DEFINE u == IF d = w.driver THEN w ELSE [w EXCEPT !.driver = d, !.view = None]
           r == [u EXCEPT !.heard = [p \in Path |-> {}]]
<1>1. SetDriver(w, d) = r
  BY DEF SetDriver, Announce
<1>2. /\ r.active = w.active /\ r.snapshot = w.snapshot /\ r.redirects = w.redirects
      /\ r.rooms = w.rooms /\ r.idle = w.idle /\ r.ahead = w.ahead
      /\ r.members = w.members /\ r.inRoom = w.inRoom /\ r.driver = d
  BY DEF Workspace
<1> HIDE DEF r
<1> QED
  BY <1>1, <1>2 DEF Untouched

LEMMA RefreshSmooth ==
  ASSUME NEW w, Good(w)
  PROVE  Smooth(w, Refresh(w))
<1> DEFINE k == Prune(w)
           r == SetDriver(k, Policy(k))
<1>1. /\ k \in Workspace /\ Queued(k) /\ k.driver = w.driver
      /\ k.released = IF k.members = {} THEN FALSE ELSE w.released
  BY PruneKeeps
<1>2. /\ k.members = Kept(w) /\ k.ahead = w.ahead \cap (Kept(w) \X Kept(w))
      /\ Untouched(w, k)
  BY DEF Prune, Good, Workspace, Untouched
<1>3. Kept(k) = k.members
  BY PruneFresh DEF Fresh
<1>4. Refresh(w) = IF ~k.released /\ k.driver \notin k.members THEN r ELSE k
  BY DEF Refresh
<1>5. Held(w) /\ Kept(w) \subseteq w.members
  BY DEF Good, Kept
<1> HIDE DEF k
<1>6. CASE ~k.released /\ k.driver \notin k.members
  <2>1. /\ Untouched(k, r) /\ r.idle = k.idle /\ r.ahead = k.ahead
        /\ r.members = k.members /\ r.inRoom = k.inRoom /\ r.driver = Policy(k)
    BY <1>1, SetDriverUntouched
  <2> HIDE DEF r
  <2>2. Orderly(w, r)
    BY <1>1, <2>1, PolicyElects, PolicyLeads DEF Orderly, Leading
  <2>3. Kept(r) = Kept(k)
    BY <2>1 DEF Kept
  <2> QED
    BY <1>2, <1>3, <1>4, <1>6, <2>1, <2>2, <2>3 DEF Smooth, Retains, Untouched
<1>7. CASE ~(~k.released /\ k.driver \notin k.members)
  <2>1. k.driver = None \/ k.driver \in k.members
    BY <1>1, <1>5, <1>7 DEF Held
  <2>2. k.driver \in k.members /\ Leading(w) => Leading(k)
    BY <1>1, <1>2, <1>5 DEF Leading
  <2>3. Orderly(w, k)
    BY <1>1, <2>1, <2>2 DEF Orderly
  <2> QED
    BY <1>2, <1>3, <1>4, <1>7, <2>3 DEF Smooth, Retains
<1> QED
  BY <1>6, <1>7

LEMMA OpenSmooth ==
  ASSUME NEW w, Good(w), NEW p \in Path
  PROVE  Smooth(w, Open(w, p))
<1> DEFINE o == Open(w, p)
<1>1. /\ Untouched(w, o) /\ o.members = w.members /\ o.ahead = w.ahead
      /\ o.inRoom = w.inRoom /\ o.driver = w.driver /\ o.idle = w.idle
  BY DEF Good, Open, Workspace, Untouched
<1> HIDE DEF o
<1>2. Held(w) /\ \A c \in w.members : o.idle[c] \in {0, w.idle[c]}
  BY <1>1 DEF Good
<1> QED
  BY <1>1, <1>2, RenewalSmooth DEF o

LEMMA MemberSmooth ==
  ASSUME NEW w, Good(w), NEW p \in Path, NEW c \in Client
  PROVE  Smooth(w, Member(w, p, c))
<1> DEFINE r == Open(Refresh(w), p)
           t == [r EXCEPT !.idle[c] = 0]
<1>1. Good(Refresh(w)) /\ Smooth(w, Refresh(w))
  BY RefreshGood, RefreshSmooth
<1>2. Good(r) /\ Smooth(w, r)
  BY <1>1, OpenSmooth, OpenSameRoles, SameRolesGood, SmoothTransitive DEF Good
<1>3. Member(w, p, c) = IF c \in r.inRoom[p] THEN t ELSE r
  BY DEF Member
<1> HIDE DEF r
<1>4. r.idle \in [Client -> 0 .. Lease + 1] /\ r.members \subseteq Client /\ Held(r)
  BY <1>2 DEF Good, Workspace
<1>5. /\ Untouched(r, t) /\ t.members = r.members /\ t.ahead = r.ahead
      /\ t.inRoom = r.inRoom /\ t.driver = r.driver /\ t.idle = [r.idle EXCEPT ![c] = 0]
  BY <1>2 DEF Good, Workspace, Untouched
<1> HIDE DEF t
<1>6. \A d \in r.members : t.idle[d] \in {0, r.idle[d]}
  BY <1>4, <1>5
<1>7. Smooth(r, t)
  BY <1>4, <1>5, <1>6, RenewalSmooth
<1> QED
  BY <1>2, <1>3, <1>7, SmoothTransitive

LEMMA HearSmooth ==
  ASSUME NEW w, Good(w), NEW p \in Path, NEW c \in Client
  PROVE  Smooth(w, Hear(w, p, c))
<1> DEFINE v == Hear(w, p, c)
<1>1. /\ Untouched(w, v) /\ v.members = w.members /\ v.ahead = w.ahead
      /\ v.inRoom = w.inRoom /\ v.driver = w.driver /\ v.idle = w.idle
  BY DEF Good, Hear, Workspace, Untouched
<1> HIDE DEF v
<1>2. Held(w) /\ \A d \in w.members : v.idle[d] \in {0, w.idle[d]}
  BY <1>1 DEF Good
<1> QED
  BY <1>1, <1>2, RenewalSmooth DEF v

LEMMA StateSmooth ==
  ASSUME NEW w, Good(w), NEW p \in Path, NEW c \in Client
  PROVE  Smooth(w, State(w, p, c))
<1>1. Good(Member(w, p, c)) /\ Smooth(w, Member(w, p, c))
  BY MemberGood, MemberSmooth
<1>2. Smooth(Member(w, p, c), State(w, p, c))
  BY <1>1, HearSmooth DEF State
<1> QED
  BY <1>1, <1>2, SmoothTransitive

LEMMA SeatSmooth ==
  ASSUME NEW w, Good(w), NEW p \in Path, NEW c \in Client
  PROVE  Smooth(w, Seat(w, p, c))
<1> DEFINE s == Seat(w, p, c)
<1>1. /\ s.members = w.members \cup {c} /\ s.driver = w.driver
      /\ s.inRoom = [w.inRoom EXCEPT ![p] = @ \cup {c}] /\ Untouched(w, s)
      /\ s.ahead = IF c \in w.members THEN w.ahead ELSE w.ahead \cup (w.members \X {c})
      /\ s.idle = IF c \in w.members THEN w.idle ELSE [w.idle EXCEPT ![c] = 0]
  BY DEF Good, Seat, Workspace, Untouched
<1>2. /\ Held(w) /\ w.members \subseteq Client /\ w.inRoom \in [Path -> SUBSET Client]
      /\ w.idle \in [Client -> 0 .. Lease + 1]
  BY DEF Good, Workspace
<1> HIDE DEF s
<1>3. Retains(w, s)
  <2> SUFFICES ASSUME NEW d \in Kept(w) PROVE d \in Kept(s)
    BY DEF Retains
  <2>1. s.idle[d] = w.idle[d]
    BY <1>1, <1>2 DEF Kept
  <2>2. \E q \in Path : d \in s.inRoom[q]
    BY <1>1, <1>2 DEF Kept
  <2> QED
    BY <1>1, <2>1, <2>2 DEF Kept
<1>4. Orderly(w, s)
  BY <1>1, <1>2 DEF Held, Orderly, Leading
<1> QED
  BY <1>1, <1>3, <1>4 DEF Smooth, s

LEMMA JoinSmooth ==
  ASSUME NEW w, Good(w), NEW p \in Path, NEW c \in Client
  PROVE  Smooth(w, Join(w, p, c))
<1> DEFINE s == Seat(w, p, c)
           elected == SetDriver(s, Policy(s))
           led == IF s.driver = None /\ ~s.released THEN elected ELSE s
           a == Announce(led)
<1>1. /\ s \in Workspace /\ Queued(s) /\ Viewed(s) /\ s.members = w.members \cup {c}
      /\ s.driver = w.driver /\ s.released = w.released /\ Smooth(w, s)
  BY SeatQueues, SeatSmooth
<1>2. Held(w)
  BY DEF Good
<1>3. a = Joined(w, p, c) /\ Join(w, p, c) = State(a, p, c)
  BY DEF Joined, Join
<1> HIDE DEF s
<1>4. Smooth(s, led) /\ led \in Workspace
  <2>1. /\ Untouched(s, elected) /\ elected.idle = s.idle /\ elected.ahead = s.ahead
        /\ elected.members = s.members /\ elected.inRoom = s.inRoom
        /\ elected.driver = Policy(s)
    BY <1>1, SetDriverUntouched
  <2>2. Policy(s) \in Client
    BY <1>1, PolicyElects DEF Workspace
  <2>3. elected \in Workspace
    BY <1>1, <2>2, SetDriverReplaces
  <2> HIDE DEF elected
  <2>4. Orderly(s, elected)
    BY <1>1, <2>1, PolicyLeads DEF Orderly, Leading
  <2>5. Smooth(s, elected)
    BY <2>1, <2>4 DEF Smooth, Retains, Kept
  <2>6. s.driver \in s.members \cup {None}
    BY <1>1, <1>2 DEF Held
  <2>7. Smooth(s, s)
    BY <2>6 DEF Smooth, Orderly, Retains, Untouched
  <2> QED
    BY <1>1, <2>3, <2>5, <2>7
<1> HIDE DEF led
<1>5. Smooth(led, a)
  <2>1. /\ a.members = led.members /\ a.ahead = led.ahead /\ a.inRoom = led.inRoom
        /\ a.driver = led.driver /\ a.idle = led.idle /\ Untouched(led, a)
    BY <1>4 DEF Announce, Workspace, Untouched
  <2>2. Held(a)
    BY <1>3, JoinedGood DEF Good
  <2> HIDE DEF a
  <2> QED
    BY <2>1, <2>2 DEF Held, Smooth, Orderly, Leading, Retains, Kept
<1>6. Good(a)
  BY <1>3, JoinedGood
<1> HIDE DEF a
<1>7. Smooth(a, Join(w, p, c))
  BY <1>3, <1>6, StateSmooth
<1> QED
  BY <1>1, <1>4, <1>5, <1>7, SmoothTransitive

-----------------------------------------------------------------------------
(* Requests and settlements. *)

LEMMA TickUntouched ==
  ASSUME Good(ws), Tick
  PROVE  /\ Untouched(ws, ws') /\ ws'.members = ws.members /\ ws'.ahead = ws.ahead
         /\ ws'.driver = ws.driver /\ ws'.inRoom = ws.inRoom
BY DEF Good, Tick, Workspace, Untouched

LEMMA JoinRequestSmooth ==
  ASSUME Good(ws), NEW c \in Client, NEW p \in Path, JoinRequest(c, p)
  PROVE  Smooth(ws, ws')
<1> DEFINE o == Open(Refresh(ws), p)
<1>1. Good(Refresh(ws)) /\ Smooth(ws, Refresh(ws))
  BY RefreshGood, RefreshSmooth
<1>2. Good(o) /\ Smooth(ws, o)
  BY <1>1, OpenSmooth, OpenSameRoles, SameRolesGood, SmoothTransitive DEF Good
<1>3. ws' = Join(o, p, c)
  BY DEF JoinRequest
<1> HIDE DEF o
<1> QED
  BY <1>2, <1>3, JoinSmooth, SmoothTransitive

LEMMA JoinDeniedSmooth ==
  ASSUME Good(ws), NEW c \in Client, NEW p \in Path, JoinDenied(c, p)
  PROVE  Smooth(ws, ws')
<1>1. Good(Refresh(ws)) /\ Smooth(ws, Refresh(ws))
  BY RefreshGood, RefreshSmooth
<1> QED
  BY <1>1, OpenSmooth, SmoothTransitive DEF JoinDenied

LEMMA PollSmooth ==
  ASSUME Good(ws), NEW c \in Client, NEW p \in Path, Poll(c, p)
  PROVE  Smooth(ws, ws')
<1>1. EventPath(ws, p, c) \in Path
  BY DEF Good, Workspace, EventPath
<1> QED
  BY <1>1, StateSmooth DEF Poll

\* Leaving keeps every other client's lease and seat.
LEMMA LeaveOrderly ==
  ASSUME Good(ws), NEW c \in Client, NEW p \in Path, Leave(c, p)
  PROVE  /\ Orderly(ws, ws') /\ Untouched(ws, ws')
         /\ Kept(ws) \ {c} \subseteq Kept(ws')
<1> DEFINE m == Member(ws, p, c)
           v == [m EXCEPT !.inRoom[p] = @ \ {c}, !.heard[p] = @ \ {c}]
<1>1. Good(m) /\ Smooth(ws, m)
  BY MemberGood, MemberSmooth
<1>2. ws' = Refresh(v)
  BY DEF Leave
<1> HIDE DEF m
<1>3. /\ v.members = m.members /\ v.ahead = m.ahead /\ v.driver = m.driver
      /\ v.released = m.released /\ v.view = m.view /\ v \in Workspace
      /\ v.idle = m.idle /\ v.inRoom = [m.inRoom EXCEPT ![p] = @ \ {c}]
      /\ Untouched(m, v) /\ m.inRoom \in [Path -> SUBSET Client]
  BY <1>1 DEF Good, Workspace, Untouched
<1> HIDE DEF v
<1>4. \A q \in Path : m.inRoom[q] \ {c} \subseteq v.inRoom[q] /\ v.inRoom[q] \subseteq m.inRoom[q]
  BY <1>3
<1>5. Good(v)
  BY <1>1, <1>3, <1>4 DEF Good, Seats, Queued, Held, Viewed
<1>6. Orderly(m, v)
  BY <1>1, <1>3 DEF Good, Held, Orderly, Leading
<1>7. Kept(m) \ {c} \subseteq Kept(v)
  BY <1>3, <1>4 DEF Kept
<1>8. Smooth(v, ws')
  BY <1>2, <1>5, RefreshSmooth
<1>9. Orderly(ws, ws')
  BY <1>1, <1>6, <1>8 DEF Smooth, Orderly
<1>10. Kept(ws) \ {c} \subseteq Kept(ws')
  BY <1>1, <1>7, <1>8 DEF Smooth, Retains
<1> QED
  BY <1>1, <1>3, <1>8, <1>9, <1>10 DEF Smooth, Untouched

LEMMA ReleaseOrderly ==
  ASSUME Good(ws), NEW c \in Client, NEW p \in Path, Release(c, p)
  PROVE  Smooth(ws, ws')
<1> DEFINE m == Member(ws, p, c)
           u == [m EXCEPT !.released = TRUE]
<1>1. Good(m) /\ Smooth(ws, m)
  BY MemberGood, MemberSmooth
<1>2. ws' = SetDriver(u, None)
  BY DEF Release
<1> HIDE DEF m
<1>3. /\ u \in Workspace /\ u.members = m.members /\ u.inRoom = m.inRoom /\ u.idle = m.idle
      /\ Untouched(m, u)
  BY <1>1 DEF Good, Workspace, Untouched
<1> HIDE DEF u
<1>4. /\ ws'.driver = None /\ ws'.members = m.members /\ ws'.inRoom = m.inRoom
      /\ ws'.idle = m.idle /\ Untouched(m, ws')
  BY <1>2, <1>3, SetDriverUntouched DEF Untouched
<1>5. Smooth(m, ws')
  BY <1>4 DEF Smooth, Orderly, Retains, Kept
<1> QED
  BY <1>1, <1>5, SmoothTransitive

\* Claim and hand-over: control goes where it is wanted, nothing else moves.
LEMMA TransferRetains ==
  ASSUME Good(ws), NEW c \in Client, NEW p \in Path, NEW d,
         ws' = ChangeDriver(Member(ws, p, c), d)
  PROVE  Retains(ws, ws') /\ Untouched(ws, ws')
<1> DEFINE m == Member(ws, p, c)
           u == [m EXCEPT !.released = FALSE]
<1>1. Good(m) /\ Smooth(ws, m)
  BY MemberGood, MemberSmooth
<1>2. ws' = SetDriver(u, d)
  BY DEF ChangeDriver
<1> HIDE DEF m
<1>3. /\ u \in Workspace /\ u.members = m.members /\ u.inRoom = m.inRoom /\ u.idle = m.idle
      /\ Untouched(m, u)
  BY <1>1 DEF Good, Workspace, Untouched
<1> HIDE DEF u
<1>4. /\ ws'.members = m.members /\ ws'.inRoom = m.inRoom /\ ws'.idle = m.idle
      /\ Untouched(m, ws')
  BY <1>2, <1>3, SetDriverUntouched DEF Untouched
<1> QED
  BY <1>1, <1>4 DEF Smooth, Retains, Untouched, Kept

LEMMA PublishViewSmooth ==
  ASSUME Good(ws), NEW c \in Client, NEW p \in Path, NEW q \in Path, PublishView(c, p, q)
  PROVE  Smooth(ws, ws')
<1> DEFINE m == Member(ws, p, c)
           n == Member(m, q, c)
           new == [path |-> q, driver |-> c]
           v == [n EXCEPT !.view = new]
<1>1. Good(m) /\ Smooth(ws, m)
  BY MemberGood, MemberSmooth
<1>2. ws' = IF n.view = new THEN n ELSE v
  BY DEF PublishView
<1> HIDE DEF m
<1>3. Good(n) /\ Smooth(m, n)
  BY <1>1, MemberGood, MemberSmooth
<1> HIDE DEF n, new
<1>4. /\ Untouched(n, v) /\ v.members = n.members /\ v.ahead = n.ahead
      /\ v.inRoom = n.inRoom /\ v.driver = n.driver /\ v.idle = n.idle /\ Held(n)
  BY <1>3 DEF Good, Workspace, Untouched
<1> HIDE DEF v
<1>5. \A d \in n.members : v.idle[d] \in {0, n.idle[d]}
  BY <1>4
<1>6. Smooth(n, v)
  BY <1>4, <1>5, RenewalSmooth
<1> QED
  BY <1>1, <1>2, <1>3, <1>6, SmoothTransitive

\* Settlements, publications and renames leave the members alone.
Unmoved(w, v) ==
  /\ v.members = w.members /\ v.ahead = w.ahead /\ v.driver = w.driver
  /\ w.rooms \subseteq v.rooms

LEMMA UnmovedOrderly ==
  ASSUME NEW w, Good(w), NEW v, v.members = w.members, v.ahead = w.ahead,
         v.driver = w.driver
  PROVE  Orderly(w, v)
BY DEF Good, Held, Orderly, Leading

LEMMA AcceptWriteOrderly ==
  ASSUME Good(ws), NEW c \in Client, NEW p \in Path, AcceptWrite(c, p)
  PROVE  Orderly(ws, ws') /\ Retains(ws, ws') /\ ws.rooms \subseteq ws'.rooms
<1> DEFINE m == Member(ws, p, c)
<1>1. Good(m) /\ Smooth(ws, m)
  BY MemberGood, MemberSmooth
<1>2. ws' = [m EXCEPT !.active[p] = @ + 1]
  BY DEF AcceptWrite, Accept
<1> HIDE DEF m
<1>3. /\ ws'.members = m.members /\ ws'.ahead = m.ahead /\ ws'.driver = m.driver
      /\ ws'.inRoom = m.inRoom /\ ws'.idle = m.idle /\ ws'.rooms = m.rooms
  BY <1>1, <1>2 DEF Good, Workspace
<1>4. Orderly(m, ws')
  BY <1>1, <1>3, UnmovedOrderly
<1> QED
  BY <1>1, <1>3, <1>4 DEF Smooth, Orderly, Retains, Untouched, Kept

LEMMA SettleKeepsSeats ==
  ASSUME NEW w \in Workspace, NEW p \in Path
  PROVE  /\ Unmoved(w, Settle(w, p)) /\ Settle(w, p).inRoom = w.inRoom
         /\ Settle(w, p).redirect = w.redirect /\ Settle(w, p).rooms = Open(w, p).rooms
BY DEF Settle, Open, Workspace, Unmoved

LEMMA SettleUnmoved ==
  ASSUME Good(ws), NEW p \in Path, SettleWrite(p) \/ SettleFailure(p)
  PROVE  Unmoved(ws, ws')
<1> DEFINE v == [ws EXCEPT !.heard[p] = {}]
<1>1. v \in Workspace /\ Unmoved(ws, v) /\ ws \in Workspace
  BY DEF Good, Workspace, Unmoved
<1>2. ws' = Settle(ws, p) \/ ws' = Settle(v, p)
  BY DEF SettleWrite, SettleFailure
<1> HIDE DEF v
<1> QED
  BY <1>1, <1>2, SettleKeepsSeats DEF Unmoved

LEMMA PublishUnmoved ==
  ASSUME NEW w \in Workspace, NEW p \in Path, NEW rev \in Nat
  PROVE  /\ Unmoved(w, Publish(w, p, rev)) /\ Publish(w, p, rev).inRoom = w.inRoom
         /\ Publish(w, p, rev).redirect = w.redirect
BY DEF Publish, Open, Workspace, Unmoved

\* What a rename does to members, seats and redirects.
LEMMA RenameMoves ==
  ASSUME NEW w, Good(w), NEW old \in Path, NEW new \in Path, old # new
  PROVE  LET r == Rename(w, old, new) IN
         /\ r.members = w.members /\ r.ahead = w.ahead /\ r.driver = w.driver
         /\ old \notin w.rooms => r = w
         /\ old \in w.rooms =>
              /\ r.rooms = (w.rooms \ {old}) \cup {new}
              /\ r.inRoom[new] = w.inRoom[old]
              /\ \A p \in Path, c \in Client : r.redirect[p][c] =
                   IF (p = old /\ c \in w.inRoom[old]) \/ w.redirect[p][c] = old
                   THEN new ELSE w.redirect[p][c]
<1> DEFINE fresh == {c \in w.inRoom[old] : w.redirect[old][c] = None}
           redirect == [p \in Path |-> [c \in Client |->
               IF (p = old /\ c \in w.inRoom[old]) \/ w.redirect[p][c] = old
               THEN new ELSE w.redirect[p][c]]]
           v == [w EXCEPT
                  !.rooms = (@ \ {old}) \cup {new},
                  !.inRoom = [@ EXCEPT ![new] = w.inRoom[old], ![old] = {}],
                  !.active = [@ EXCEPT ![new] = w.active[old], ![old] = 0],
                  !.snapshot = [@ EXCEPT ![new] = w.snapshot[old], ![old] = 0],
                  !.heard = [@ EXCEPT ![new] = {}, ![old] = {}],
                  !.redirect = redirect,
                  !.redirects = @ + Cardinality(fresh)]
<1>1. Rename(w, old, new) = IF old \notin w.rooms THEN w ELSE v
  BY Zenon DEF Rename
<1>2. w.inRoom \in [Path -> SUBSET Client]
  BY DEF Good, Workspace
<1>3. \A p \in Path, c \in Client : redirect[p][c] =
        IF (p = old /\ c \in w.inRoom[old]) \/ w.redirect[p][c] = old
        THEN new ELSE w.redirect[p][c]
  OBVIOUS
<1> HIDE DEF fresh, redirect
<1>4. /\ v.members = w.members /\ v.ahead = w.ahead /\ v.driver = w.driver
      /\ v.rooms = (w.rooms \ {old}) \cup {new} /\ v.redirect = redirect
      /\ v.inRoom = [w.inRoom EXCEPT ![new] = w.inRoom[old], ![old] = {}]
  BY DEF Good, Workspace
<1> HIDE DEF v
<1>5. v.inRoom[new] = w.inRoom[old]
  BY <1>2, <1>4
<1>6. CASE old \in w.rooms
  <2>1. Rename(w, old, new) = v
    BY <1>1, <1>6
  <2> QED
    BY <1>3, <1>4, <1>5, <1>6, <2>1
<1>7. CASE old \notin w.rooms
  BY <1>1, <1>7
<1> QED
  BY <1>6, <1>7

LEMMA SettleRenameMoves ==
  ASSUME Good(ws), NEW old \in Path, NEW new \in Path, NEW rev \in Nat,
         SettleRename(old, new, rev)
  PROVE  /\ ws'.members = ws.members /\ ws'.ahead = ws.ahead /\ ws'.driver = ws.driver
         /\ ws.rooms \ ws'.rooms \subseteq {old}
         /\ old \in ws.rooms =>
              /\ ws'.inRoom[new] = ws.inRoom[old]
              /\ \A p \in Path, c \in Client : ws'.redirect[p][c] =
                   IF (p = old /\ c \in ws.inRoom[old]) \/ ws.redirect[p][c] = old
                   THEN new ELSE ws.redirect[p][c]
<1> DEFINE s == Settle(ws, old)
           r == Rename(s, old, new)
<1>1. ws' = Publish(r, new, rev) /\ old # new
  BY DEF SettleRename
<1>2. Good(s) /\ Unmoved(ws, s) /\ s.inRoom = ws.inRoom /\ s.redirect = ws.redirect
  BY SettleSameRoles, SameRolesGood, SettleKeepsSeats DEF Good
<1> HIDE DEF s
<1>3. /\ r.members = s.members /\ r.ahead = s.ahead /\ r.driver = s.driver
      /\ old \notin s.rooms => r = s
      /\ old \in s.rooms =>
           /\ r.rooms = (s.rooms \ {old}) \cup {new}
           /\ r.inRoom[new] = s.inRoom[old]
           /\ \A p \in Path, c \in Client : r.redirect[p][c] =
                IF (p = old /\ c \in s.inRoom[old]) \/ s.redirect[p][c] = old
                THEN new ELSE s.redirect[p][c]
  BY <1>1, <1>2, RenameMoves
<1>4. r \in Workspace
  BY <1>2, RenameGood DEF Good
<1> HIDE DEF r
<1>5. Unmoved(r, ws') /\ ws'.inRoom = r.inRoom /\ ws'.redirect = r.redirect
  BY <1>1, <1>4, PublishUnmoved
<1> QED
  BY <1>2, <1>3, <1>5 DEF Unmoved

-----------------------------------------------------------------------------
(* The three action properties. *)

\* The succession as a predicate of one step.
Succession ==
  ws.driver # None /\ ws.driver \notin ws'.members /\ ws'.driver # None => Leading(ws')

Transferred == \E c, d \in Client, p \in Path : Claim(c, p) \/ Handoff(c, p, d)

LEMMA OrderlySucceeds == Orderly(ws, ws') => Succession
BY DEF Orderly, Succession

LEMMA NextSucceeds ==
  ASSUME Good(ws), Next, ~Transferred
  PROVE  Succession
<1>1. CASE Tick
  BY <1>1, TickUntouched, UnmovedOrderly, OrderlySucceeds
<1>2. ASSUME NEW c \in Client, NEW p \in Path,
             JoinRequest(c, p) \/ JoinDenied(c, p) \/ Ask(c, p) \/ Poll(c, p) \/ Leave(c, p)
      PROVE  Succession
  <2>1. Orderly(ws, ws')
    BY <1>2, JoinRequestSmooth, JoinDeniedSmooth, MemberSmooth, PollSmooth, LeaveOrderly
    DEF Ask, Smooth
  <2> QED
    BY <2>1, OrderlySucceeds
<1>3. ASSUME NEW c \in Client, NEW p \in Path, Release(c, p) \/ AcceptWrite(c, p)
      PROVE  Succession
  BY <1>3, ReleaseOrderly, AcceptWriteOrderly, OrderlySucceeds DEF Smooth
<1>4. ASSUME NEW c \in Client, NEW p \in Path, NEW q \in Path, PublishView(c, p, q)
      PROVE  Succession
  BY <1>4, PublishViewSmooth, OrderlySucceeds DEF Smooth
<1>5. ASSUME NEW p \in Path, SettleWrite(p) \/ SettleFailure(p)
      PROVE  Succession
  BY <1>5, SettleUnmoved, UnmovedOrderly, OrderlySucceeds DEF Unmoved
<1>6. ASSUME NEW p \in Path, NEW rev \in Revision, PublishSnapshot(p, rev)
      PROVE  Succession
  <2>1. rev \in Nat /\ ws \in Workspace
    BY CollaborationAssumption DEF Good
  <2> QED
    BY <1>6, <2>1, PublishUnmoved, UnmovedOrderly, OrderlySucceeds DEF PublishSnapshot, Unmoved
<1>7. ASSUME NEW p \in Path, NEW q \in Path, NEW rev \in Revision, SettleRename(p, q, rev)
      PROVE  Succession
  <2>1. rev \in Nat
    BY CollaborationAssumption
  <2> QED
    BY <1>7, <2>1, SettleRenameMoves, UnmovedOrderly, OrderlySucceeds
<1> QED
  BY <1>1, <1>2, <1>3, <1>4, <1>5, <1>6, <1>7 DEF Next, Transferred

\* A driver that vanished is succeeded by the member that joined first
\* (`refresh` and `join` elect the policy's first_connected), unless the request
\* that noticed it was a claim or a hand-over.
THEOREM OldestSurvivorSucceedsAlways == Spec => OldestSurvivorSucceeds
<1>1. IInv /\ [Next]_vars =>
        [ /\ ws.driver # None /\ ws.driver \notin ws'.members /\ ws'.driver # None
          /\ ~\E c, d \in Client, p \in Path : Claim(c, p) \/ Handoff(c, p, d)
          => \A m \in ws'.members \ {ws'.driver} : <<ws'.driver, m>> \in ws'.ahead ]_vars
  BY NextSucceeds DEF IInv, Succession, Transferred, Leading
<1> QED
  BY <1>1, Invariance, PTL DEF Spec, OldestSurvivorSucceeds

\* A lease that is alive is lost by leaving only.
Honours ==
  \A c \in ws.members \ ws'.members :
    \/ ws.idle[c] > Lease
    \/ \A p \in Path : c \notin ws.inRoom[p]
    \/ \E p \in Path : Leave(c, p)

LEMMA RetainsHonours ==
  ASSUME Good(ws), Retains(ws, ws') \/ ws'.members = ws.members
  PROVE  Honours
<1> SUFFICES ASSUME NEW c \in ws.members \ ws'.members, Retains(ws, ws'),
                    ~(ws.idle[c] > Lease), \E p \in Path : c \in ws.inRoom[p]
             PROVE  FALSE
  BY DEF Honours
<1>1. ws.idle[c] <= Lease
  BY CollaborationAssumption DEF Good, Workspace
<1>2. c \in Kept(ws')
  BY <1>1 DEF Retains, Kept
<1> QED
  BY <1>2 DEF Kept

LEMMA NextHonours ==
  ASSUME Good(ws), Next
  PROVE  Honours
<1>1. CASE Tick
  BY <1>1, TickUntouched, RetainsHonours
<1>2. ASSUME NEW c \in Client, NEW p \in Path,
             JoinRequest(c, p) \/ JoinDenied(c, p) \/ Ask(c, p) \/ Poll(c, p)
               \/ Release(c, p) \/ AcceptWrite(c, p)
      PROVE  Honours
  <2>1. Retains(ws, ws')
    BY <1>2, JoinRequestSmooth, JoinDeniedSmooth, MemberSmooth, PollSmooth, ReleaseOrderly,
       AcceptWriteOrderly DEF Ask, Smooth
  <2> QED
    BY <2>1, RetainsHonours
<1>3. ASSUME NEW c \in Client, NEW p \in Path, Leave(c, p)
      PROVE  Honours
  <2>1. Kept(ws) \ {c} \subseteq Kept(ws')
    BY <1>3, LeaveOrderly
  <2> SUFFICES ASSUME NEW d \in ws.members \ ws'.members, d # c,
                      ~(ws.idle[d] > Lease), \E q \in Path : d \in ws.inRoom[q]
               PROVE  FALSE
    BY <1>3 DEF Honours
  <2>2. ws.idle[d] <= Lease
    BY CollaborationAssumption DEF Good, Workspace
  <2>3. d \in Kept(ws')
    BY <2>1, <2>2 DEF Kept
  <2> QED
    BY <2>3 DEF Kept
<1>4. ASSUME NEW c \in Client, NEW p \in Path, NEW d \in Client,
             Claim(c, p) \/ Handoff(c, p, d)
      PROVE  Honours
  BY <1>4, TransferRetains, RetainsHonours DEF Claim, Handoff
<1>5. ASSUME NEW c \in Client, NEW p \in Path, NEW q \in Path, PublishView(c, p, q)
      PROVE  Honours
  BY <1>5, PublishViewSmooth, RetainsHonours DEF Smooth
<1>6. ASSUME NEW p \in Path, SettleWrite(p) \/ SettleFailure(p)
      PROVE  Honours
  BY <1>6, SettleUnmoved, RetainsHonours DEF Unmoved
<1>7. ASSUME NEW p \in Path, NEW rev \in Revision, PublishSnapshot(p, rev)
      PROVE  Honours
  <2>1. rev \in Nat /\ ws \in Workspace
    BY CollaborationAssumption DEF Good
  <2> QED
    BY <1>7, <2>1, PublishUnmoved, RetainsHonours DEF PublishSnapshot, Unmoved
<1>8. ASSUME NEW p \in Path, NEW q \in Path, NEW rev \in Revision, SettleRename(p, q, rev)
      PROVE  Honours
  <2>1. rev \in Nat
    BY CollaborationAssumption
  <2> QED
    BY <1>8, <2>1, SettleRenameMoves, RetainsHonours
<1> QED
  BY <1>1, <1>2, <1>3, <1>4, <1>5, <1>6, <1>7, <1>8 DEF Next

\* A client that was heard of within the lease, and still has a seat, loses its
\* membership only by leaving: no request of another client, and no refresh at
\* the boundary of the lease, removes it (`refresh` keeps `elapsed <= lease`).
THEOREM LeaseHonouredAlways == Spec => LeaseHonoured
<1>1. IInv /\ [Next]_vars =>
        [ \A c \in ws.members \ ws'.members :
            \/ ws.idle[c] > Lease
            \/ \A p \in Path : c \notin ws.inRoom[p]
            \/ \E p \in Path : Leave(c, p) ]_vars
  BY NextHonours DEF IInv, Honours
<1> QED
  BY <1>1, Invariance, PTL DEF Spec, LeaseHonoured

\* Where a moved subscription looks, the client is seated.
Follows ==
  \A old, new \in Path :
    ws'.redirects > ws.redirects /\ new \notin {old} /\ old \in ws.rooms \ ws'.rooms
    => \A c \in Client, p \in Path :
         (EventPath(ws, p, c) = old /\ c \in ws.inRoom[old])
         => c \in ws'.inRoom[EventPath(ws', p, c)]

LEMMA OpenRoomsFollow ==
  ASSUME ws.rooms \subseteq ws'.rooms
  PROVE  Follows
BY DEF Follows

LEMMA SettleRenameFollows ==
  ASSUME Good(ws), NEW old \in Path, NEW new \in Path, NEW rev \in Nat,
         SettleRename(old, new, rev)
  PROVE  Follows
<1> SUFFICES ASSUME NEW o \in Path, o \in ws.rooms \ ws'.rooms,
                    NEW c \in Client, NEW p \in Path,
                    EventPath(ws, p, c) = o, c \in ws.inRoom[o]
             PROVE  c \in ws'.inRoom[EventPath(ws', p, c)]
  BY DEF Follows
<1>1. o = old /\ ws'.inRoom[new] = ws.inRoom[old]
  BY SettleRenameMoves
<1>2. ws'.redirect[p][c] = IF (p = old /\ c \in ws.inRoom[old]) \/ ws.redirect[p][c] = old
                           THEN new ELSE ws.redirect[p][c]
  BY <1>1, SettleRenameMoves
<1>3. ws'.redirect[p][c] = new
  BY <1>1, <1>2 DEF EventPath
<1>4. EventPath(ws', p, c) = new
  BY <1>3, CollaborationAssumption DEF EventPath
<1> QED
  BY <1>1, <1>4

LEMMA NextFollows ==
  ASSUME Good(ws), Next
  PROVE  Follows
<1>1. CASE Tick
  BY <1>1, TickUntouched, OpenRoomsFollow DEF Untouched
<1>2. ASSUME NEW c \in Client, NEW p \in Path,
             JoinRequest(c, p) \/ JoinDenied(c, p) \/ Ask(c, p) \/ Poll(c, p)
               \/ Leave(c, p) \/ Release(c, p) \/ AcceptWrite(c, p)
      PROVE  Follows
  <2>1. ws.rooms \subseteq ws'.rooms
    BY <1>2, JoinRequestSmooth, JoinDeniedSmooth, MemberSmooth, PollSmooth, LeaveOrderly,
       ReleaseOrderly, AcceptWriteOrderly DEF Ask, Smooth, Untouched
  <2> QED
    BY <2>1, OpenRoomsFollow
<1>3. ASSUME NEW c \in Client, NEW p \in Path, NEW d \in Client,
             Claim(c, p) \/ Handoff(c, p, d)
      PROVE  Follows
  BY <1>3, TransferRetains, OpenRoomsFollow DEF Claim, Handoff, Untouched
<1>4. ASSUME NEW c \in Client, NEW p \in Path, NEW q \in Path, PublishView(c, p, q)
      PROVE  Follows
  BY <1>4, PublishViewSmooth, OpenRoomsFollow DEF Smooth, Untouched
<1>5. ASSUME NEW p \in Path, SettleWrite(p) \/ SettleFailure(p)
      PROVE  Follows
  BY <1>5, SettleUnmoved, OpenRoomsFollow DEF Unmoved
<1>6. ASSUME NEW p \in Path, NEW rev \in Revision, PublishSnapshot(p, rev)
      PROVE  Follows
  <2>1. rev \in Nat /\ ws \in Workspace
    BY CollaborationAssumption DEF Good
  <2> QED
    BY <1>6, <2>1, PublishUnmoved, OpenRoomsFollow DEF PublishSnapshot, Unmoved
<1>7. ASSUME NEW p \in Path, NEW q \in Path, NEW rev \in Revision, SettleRename(p, q, rev)
      PROVE  Follows
  <2>1. rev \in Nat
    BY CollaborationAssumption
  <2> QED
    BY <1>7, <2>1, SettleRenameFollows
<1> QED
  BY <1>1, <1>2, <1>3, <1>4, <1>5, <1>6, <1>7 DEF Next

\* However often a notebook was renamed before, a rename leads every subscription
\* that was served from the old room to the room that took its place
\* (`rename` rewrites the redirects that led to the old path).
THEOREM RenameKeepsSubscriptionsAlways == Spec => RenameKeepsSubscriptions
<1>1. IInv /\ [Next]_vars =>
        [ \A old, new \in Path :
            ws'.redirects > ws.redirects /\ new \notin {old} /\ old \in ws.rooms \ ws'.rooms
            => \A c \in Client, p \in Path :
                 (EventPath(ws, p, c) = old /\ c \in ws.inRoom[old])
                 => c \in ws'.inRoom[EventPath(ws', p, c)] ]_vars
  BY NextFollows DEF IInv, Follows
<1> QED
  BY <1>1, Invariance, PTL DEF Spec, RenameKeepsSubscriptions

-----------------------------------------------------------------------------
(* The inductive invariant. *)

\* What a command was asked to do.
Identity(t, u) ==
  /\ u.kind = t.kind /\ u.path = t.path /\ u.to = t.to
  /\ u.expected = t.expected /\ u.basis = t.basis

\* How far task t is, and the x times its code was sent: the code is sent after
\* the first save, and what is saved later never leads back to the sending.
Sent(t, x) ==
  /\ x <= 1
  /\ t.stage = "none" => x = 0
  /\ t.stage \notin {"none", "done"} /\ t.saves = 0 => x = 0
  /\ t.stage = "progress" => t.saves >= 1 /\ (t.saves = 1 => x = 0)
  /\ t.stage = "send" => x = 0 /\ t.saves = 1
  /\ t.stage = "run" => t.saves >= 1
  /\ t.stage = "finish" /\ t.ok => t.number >= 1

\* A key is in the ledger from its first submission on, and a task in flight
\* knows its notebook.
Entered(k) ==
  /\ task[k].stage # "none" => ledger[k] # "absent"
  /\ task[k].stage = "none" => task[k].kind = "Query"
  /\ InFlight(k) => task[k].path \in Path /\ task[k].to \in Path

\* A rename holds the namespace guard, so there is at most one, and the redirect
\* it was admitted for is still to be had when it settles.
Guarding(k) ==
  InFlight(k) /\ task[k].kind = "Rename" =>
    artifact = k /\ task[k].to # task[k].path /\ ws.redirects < MaxRedirects

\* Work is accepted in open rooms only.
Opened == \A p \in Path : ws.active[p] > 0 => p \in ws.rooms

\* The commands that were ever accepted, and the unfinished writes of a path.
Entries == {k \in Command : ledger[k] # "absent"}
Pending(p) == {k \in Command : InFlight(k) /\ task[k].path = p /\ Writes(task[k].kind)}

\* Until a rename is accepted.
Counted ==
  ~Accepted("Rename") => \A p \in Path : ws.active[p] = Cardinality(Pending(p))

GatewayInvariant ==
  /\ IInv
  /\ GatewayTypeOK
  /\ \A k \in Command : Sent(task[k], executed[k]) /\ Entered(k) /\ Guarding(k)
  /\ Opened
  /\ IsFiniteSet(Entries)
  /\ Counted

-----------------------------------------------------------------------------
(* What the steps of a task have in common. *)

\* Only task k moves on, and it stays the same command.
Advances(k) ==
  /\ task' \in [Command -> Task]
  /\ \A j \in Command \ {k} : task'[j] = task[j]
  /\ Identity(task[k], task'[k])
  /\ InFlight(k) /\ task'[k].stage \notin {"none", "done"}

\* The stages from which Goto leads on without any condition.
Plain == Stages \ {"none", "done", "progress", "send", "run", "finish"}

LEMMA GotoAdvances ==
  ASSUME GatewayTypeOK, NEW k \in Command, InFlight(k),
         NEW s \in Stages \ {"none", "done"}, Goto(k, s)
  PROVE  /\ Advances(k) /\ task'[k].stage = s
         /\ task'[k].saves = task[k].saves /\ task'[k].raw = task[k].raw
         /\ task'[k].ok = task[k].ok /\ task'[k].number = task[k].number
         /\ task'[k].complete = task[k].complete
BY DEF GatewayTypeOK, Goto, Advances, Identity, Task

LEMMA AbortAdvances ==
  ASSUME GatewayTypeOK, NEW k \in Command, InFlight(k), Abort(k)
  PROVE  /\ Advances(k) /\ task'[k].stage = "finish" /\ task'[k].ok = FALSE
         /\ task'[k].saves = task[k].saves /\ task'[k].raw = task[k].raw
<1> DEFINE u == [task[k] EXCEPT !.stage = "finish", !.ok = FALSE]
<1>1. task[k] \in Task
  BY DEF GatewayTypeOK
<1>2. /\ u \in Task /\ Identity(task[k], u) /\ u.stage = "finish" /\ u.ok = FALSE
      /\ u.saves = task[k].saves /\ u.raw = task[k].raw
  BY <1>1 DEF Task, Identity, Stages
<1>3. task' = [task EXCEPT ![k] = u]
  BY DEF Abort
<1> HIDE DEF u
<1> QED
  BY <1>2, <1>3 DEF GatewayTypeOK, Advances

\* Tasks that saved nothing have sent nothing, whatever stage they go to.
LEMMA PlainSent ==
  ASSUME NEW t \in Task, NEW u \in Task, NEW x \in Nat, Sent(t, x),
         t.stage \notin {"none", "done"}, u.stage \in Plain, u.saves = t.saves
  PROVE  Sent(u, x)
BY DEF Sent, Plain, Stages

LEMMA AbortSent ==
  ASSUME NEW t \in Task, NEW u \in Task, NEW x \in Nat, Sent(t, x),
         t.stage \notin {"none", "done"}, u.stage = "finish", u.ok = FALSE, u.saves = t.saves
  PROVE  Sent(u, x)
BY DEF Sent

LEMMA NumberPositive ==
  ASSUME GatewayTypeOK, NEW p \in Path, NEW cells
  PROVE  Number(p, cells) \in Nat \ {0}
BY DEF GatewayTypeOK, Number

\* `committed`, as the rooms see it, and its types.
LEMMA CommittedPublishes ==
  ASSUME GatewayTypeOK, NEW p \in Path, NEW cells \in Cells, Committed(p, cells)
  PROVE  /\ PublishSnapshot(p, Number(p, cells)) /\ Number(p, cells) \in Nat \ {0}
         /\ revisions' \in [Path -> [cells : Cells, number : Nat]]
         /\ shown' \in [Path -> Cells]
         /\ seen' \in [Path -> SUBSET [number : Nat, cells : Cells]]
<1>1. Number(p, cells) \in Nat \ {0}
  BY NumberPositive
<1>2. PublishSnapshot(p, Number(p, cells))
  BY DEF Committed, PublishSnapshot
<1>3. revisions' \in [Path -> [cells : Cells, number : Nat]]
  BY <1>1 DEF Committed, GatewayTypeOK
<1>4. shown' \in [Path -> Cells]
  BY DEF Committed, GatewayTypeOK
<1>5. seen' \in [Path -> SUBSET [number : Nat, cells : Cells]]
  <2> DEFINE s == [number |-> Number(p, cells), cells |-> cells]
  <2>1. s \in [number : Nat, cells : Cells]
    BY <1>1
  <2>2. seen' = seen \/ seen' = [seen EXCEPT ![p] = @ \cup {s}]
    BY DEF Committed
  <2> HIDE DEF s
  <2> QED
    BY <2>1, <2>2 DEF GatewayTypeOK
<1> QED
  BY <1>1, <1>2, <1>3, <1>4, <1>5

\* Notebooks, numbers and kernels, here and at Jupyter.
DataOK ==
  /\ revisions \in [Path -> [cells : Cells, number : Nat]]
  /\ shown \in [Path -> Cells]
  /\ seen \in [Path -> SUBSET [number : Nat, cells : Cells]]
  /\ stored \in [Path -> Cells] /\ writes \in Nat
  /\ kernel \in [Path -> {"clean", "unknown"}]

\* A step of the task of k between its admission and its settlement.
InnerStep(k) ==
  /\ Advances(k)
  /\ executed' \in [Command -> Nat]
  /\ \A j \in Command \ {k} : executed'[j] = executed[j]
  /\ Sent(task'[k], executed'[k])
  /\ ledger' = ledger /\ artifact' = artifact /\ uncertain' = uncertain
  /\ DataOK'
  /\ UNCHANGED vars \/ \E p \in Path, n \in Nat \ {0} : PublishSnapshot(p, n)

\* What the task of k may rely on.
Ready(k) == GatewayTypeOK /\ Entered(k) /\ Sent(task[k], executed[k])

LEMMA ReadyTypes ==
  ASSUME NEW k \in Command, Ready(k)
  PROVE  /\ DataOK /\ task[k] \in Task /\ executed[k] \in Nat
         /\ executed \in [Command -> Nat] /\ GatewayTypeOK /\ Sent(task[k], executed[k])
         /\ InFlight(k) => task[k].path \in Path /\ task[k].to \in Path
BY DEF Ready, Entered, GatewayTypeOK, DataOK

LEMMA PlainInner ==
  ASSUME NEW k \in Command, Ready(k), InFlight(k), NEW s \in Plain, Goto(k, s),
         ledger' = ledger, artifact' = artifact, uncertain' = uncertain,
         executed' = executed, DataOK',
         UNCHANGED vars \/ \E p \in Path, n \in Nat \ {0} : PublishSnapshot(p, n)
  PROVE  InnerStep(k)
<1>1. s \in Stages \ {"none", "done"}
  BY DEF Plain
<1>2. Advances(k) /\ task'[k].stage = s /\ task'[k].saves = task[k].saves
  BY <1>1, GotoAdvances DEF Ready
<1>3. task'[k] \in Task
  BY <1>2 DEF Advances
<1>4. Sent(task'[k], executed[k])
  BY <1>2, <1>3, ReadyTypes, PlainSent DEF InFlight
<1> QED
  BY <1>2, <1>4, ReadyTypes DEF InnerStep

LEMMA AbortInner ==
  ASSUME NEW k \in Command, Ready(k), InFlight(k), Abort(k),
         ledger' = ledger, artifact' = artifact, uncertain' = uncertain,
         executed' = executed, DataOK',
         UNCHANGED vars \/ \E p \in Path, n \in Nat \ {0} : PublishSnapshot(p, n)
  PROVE  InnerStep(k)
<1>1. /\ Advances(k) /\ task'[k].stage = "finish" /\ task'[k].ok = FALSE
      /\ task'[k].saves = task[k].saves
  BY AbortAdvances DEF Ready
<1>2. task'[k] \in Task
  BY <1>1 DEF Advances
<1>3. Sent(task'[k], executed[k])
  BY <1>1, <1>2, ReadyTypes, AbortSent DEF InFlight
<1> QED
  BY <1>1, <1>3, ReadyTypes DEF InnerStep

LEMMA StartInner ==
  ASSUME NEW k \in Command, Ready(k), Start(k)
  PROVE  InnerStep(k)
<1>1. InFlight(k) /\ task[k].kind \in AllKinds
  BY ReadyTypes DEF Start, InFlight, Task
<1>2. FirstStage(task[k].kind) \in Plain
  BY <1>1 DEF FirstStage, AllKinds, Plain, Stages
<1>3. /\ Abort(k) \/ Goto(k, FirstStage(task[k].kind))
      /\ UNCHANGED <<vars, ledger, artifact, roomVars, uncertain, jupyterVars>>
  BY DEF Start
<1>4. DataOK' /\ executed' = executed
  BY <1>3, ReadyTypes DEF DataOK, roomVars, jupyterVars
<1> QED
  BY <1>1, <1>2, <1>3, <1>4, PlainInner, AbortInner

LEMMA WriteTyped ==
  ASSUME GatewayTypeOK, NEW p \in Path, Write(p)
  PROVE  stored' \in [Path -> Cells] /\ writes' \in Nat
BY DEF GatewayTypeOK, Write, Cells

LEMMA DisturbedTyped ==
  ASSUME NEW k \in Command, GatewayTypeOK
  PROVE  Disturbed(k) \in [Path -> {"clean", "unknown"}]
BY DEF Disturbed, GatewayTypeOK

LEMMA KernelActionInner ==
  ASSUME NEW k \in Command, Ready(k), KernelAction(k)
  PROVE  InnerStep(k)
<1>1. InFlight(k) /\ "read" \in Plain /\ Goto(k, "read")
  BY DEF KernelAction, InFlight, Plain, Stages
<1>2. UNCHANGED <<vars, ledger, artifact, roomVars, uncertain, stored, writes, executed>>
  BY DEF KernelAction
<1>3. kernel' \in [Path -> {"clean", "unknown"}]
  BY DEF KernelAction, Ready, GatewayTypeOK
<1>4. DataOK'
  BY <1>2, <1>3, ReadyTypes DEF DataOK, roomVars
<1> QED
  BY <1>1, <1>2, <1>4, PlainInner

LEMMA CreateInner ==
  ASSUME NEW k \in Command, Ready(k), Create(k)
  PROVE  InnerStep(k)
<1>1. InFlight(k) /\ "read" \in Plain /\ Goto(k, "read")
  BY DEF Create, InFlight, Plain, Stages
<1>2. UNCHANGED <<vars, ledger, artifact, roomVars, uncertain, kernel, executed>>
  BY DEF Create
<1>3. stored' \in [Path -> Cells] /\ writes' \in Nat
  BY <1>1, ReadyTypes, WriteTyped DEF Create, DataOK
<1>4. DataOK'
  BY <1>2, <1>3, ReadyTypes DEF DataOK, roomVars
<1> QED
  BY <1>1, <1>2, <1>4, PlainInner

LEMMA ReadInner ==
  ASSUME NEW k \in Command, Ready(k), Read(k)
  PROVE  InnerStep(k)
<1> DEFINE p == IF task[k].stage = "reread" THEN task[k].to ELSE task[k].path
           s == IF task[k].stage = "reread" THEN "final" ELSE AfterRead(task[k].kind)
           u == [task[k] EXCEPT !.raw = stored[p], !.stage = s]
<1>1. InFlight(k) /\ task[k].kind \in AllKinds
  BY ReadyTypes DEF Read, InFlight, Task
<1>2. UNCHANGED <<vars, ledger, artifact, roomVars, uncertain, jupyterVars>>
  BY DEF Read
<1>3. DataOK' /\ executed' = executed
  BY <1>2, ReadyTypes DEF DataOK, roomVars, jupyterVars
<1>4. CASE Abort(k)
  BY <1>1, <1>2, <1>3, <1>4, AbortInner
<1>5. CASE task' = [task EXCEPT ![k] = u]
  <2>1. p \in Path /\ stored[p] \in Cells
    BY <1>1, ReadyTypes DEF DataOK
  <2>2. s \in Plain
    BY <1>1 DEF AfterRead, AllKinds, Plain, Stages
  <2> HIDE DEF p, s
  <2>3. u \in Task /\ Identity(task[k], u) /\ u.saves = task[k].saves /\ u.stage = s
    BY <2>1, <2>2, ReadyTypes DEF Task, Identity, Plain
  <2> HIDE DEF u
  <2>4. Sent(u, executed[k])
    BY <1>1, <2>2, <2>3, ReadyTypes, PlainSent DEF InFlight
  <2>5. Advances(k) /\ task'[k] = u
    BY <1>1, <1>5, <2>2, <2>3 DEF Advances, Ready, GatewayTypeOK, Plain
  <2> QED
    BY <1>2, <1>3, <2>4, <2>5, ReadyTypes DEF InnerStep
<1>6. Abort(k) \/ task' = [task EXCEPT ![k] = u]
  BY DEF Read
<1> QED
  BY <1>4, <1>5, <1>6

\* A commit in between, of what the task read or wrote last.
LEMMA CommitTyped ==
  ASSUME NEW k \in Command, Ready(k), NEW p \in Path, Committed(p, task[k].raw),
         UNCHANGED jupyterVars
  PROVE  /\ DataOK' /\ executed' = executed
         /\ \E q \in Path, n \in Nat \ {0} : PublishSnapshot(q, n)
<1>1. task[k].raw \in Cells
  BY ReadyTypes DEF Task
<1> QED
  BY <1>1, ReadyTypes, CommittedPublishes DEF DataOK, jupyterVars

LEMMA PrepareInner ==
  ASSUME NEW k \in Command, Ready(k), Prepare(k)
  PROVE  InnerStep(k)
<1>1. InFlight(k) /\ "save" \in Plain
  BY DEF Prepare, InFlight, Plain, Stages
<1>2. /\ Committed(task[k].path, task[k].raw)
      /\ Goto(k, "save") \/ Abort(k)
      /\ UNCHANGED <<ledger, artifact, uncertain, jupyterVars>>
  BY DEF Prepare
<1>3. task[k].path \in Path
  BY <1>1, ReadyTypes
<1> QED
  BY <1>1, <1>2, <1>3, CommitTyped, PlainInner, AbortInner

LEMMA SaveInner ==
  ASSUME NEW k \in Command, Ready(k), Save(k)
  PROVE  InnerStep(k)
<1> DEFINE s == IF task[k].kind = "Execute" THEN "progress" ELSE "final"
           u == [task[k] EXCEPT !.raw = writes + 1, !.saves = @ + 1, !.stage = s]
<1>1. InFlight(k) /\ task[k].stage = "save" /\ Write(task[k].path)
  BY DEF Save, InFlight
<1>2. UNCHANGED <<vars, ledger, artifact, roomVars, uncertain, kernel, executed>>
  BY DEF Save
<1>3. DataOK'
  BY <1>1, <1>2, ReadyTypes, WriteTyped DEF DataOK, roomVars
<1>4. task' = [task EXCEPT ![k] = u]
  BY DEF Save
<1>5. s \in {"progress", "final"}
  OBVIOUS
<1> HIDE DEF s
<1>6. /\ writes + 1 \in Cells /\ task[k].saves \in Nat /\ task[k].saves + 1 \in Nat
      /\ task[k] \in Task
  BY ReadyTypes DEF Cells, DataOK, Task
<1>7. u \in Task /\ Identity(task[k], u) /\ u.saves = task[k].saves + 1 /\ u.stage = s
  <2>1. s \in Stages
    BY <1>5 DEF Stages
  <2>2. u = [task[k] EXCEPT !.raw = writes + 1, !.saves = task[k].saves + 1, !.stage = s]
    BY <1>6 DEF Task
  <2> HIDE DEF u
  <2>3. u \in Task
    BY <1>6, <2>1, <2>2 DEF Task
  <2>4. Identity(task[k], u)
    BY <1>6, <2>2 DEF Task, Identity
  <2>5. u.saves = task[k].saves + 1 /\ u.stage = s
    BY <1>6, <2>2 DEF Task
  <2> QED
    BY <2>3, <2>4, <2>5
<1> HIDE DEF u
<1>8. Sent(u, executed[k])
  BY <1>1, <1>5, <1>6, <1>7, ReadyTypes DEF Sent
<1>9. Advances(k) /\ task'[k] = u
  BY <1>1, <1>4, <1>5, <1>7 DEF Advances, Ready, GatewayTypeOK
<1> QED
  BY <1>2, <1>3, <1>8, <1>9, ReadyTypes DEF InnerStep

LEMMA SaveUnacknowledgedInner ==
  ASSUME NEW k \in Command, Ready(k), SaveUnacknowledged(k)
  PROVE  InnerStep(k)
<1>1. InFlight(k) /\ Write(task[k].path) /\ Abort(k) /\ kernel' = Disturbed(k)
  BY DEF SaveUnacknowledged, InFlight
<1>2. UNCHANGED <<vars, ledger, artifact, roomVars, uncertain, executed>>
  BY DEF SaveUnacknowledged
<1>3. DataOK'
  BY <1>1, <1>2, ReadyTypes, WriteTyped, DisturbedTyped DEF DataOK, roomVars
<1> QED
  BY <1>1, <1>2, <1>3, AbortInner

LEMMA ProgressInner ==
  ASSUME NEW k \in Command, Ready(k), Progress(k)
  PROVE  InnerStep(k)
<1> DEFINE s == CASE task[k].saves = 1 -> "send" [] task[k].complete -> "final" [] OTHER -> "run"
<1>1. InFlight(k) /\ task[k].stage = "progress" /\ task[k].path \in Path
  BY ReadyTypes DEF Progress, InFlight
<1>2. /\ Committed(task[k].path, task[k].raw)
      /\ Goto(k, s) \/ Abort(k)
      /\ UNCHANGED <<ledger, artifact, uncertain, jupyterVars>>
  BY DEF Progress
<1>3. /\ DataOK' /\ executed' = executed
      /\ \E q \in Path, n \in Nat \ {0} : PublishSnapshot(q, n)
  BY <1>1, <1>2, CommitTyped
<1>4. CASE Abort(k)
  BY <1>1, <1>2, <1>3, <1>4, AbortInner
<1>5. CASE Goto(k, s)
  <2>1. s \in {"send", "final", "run"} /\ (s = "send" => task[k].saves = 1)
    BY ReadyTypes DEF Task
  <2> HIDE DEF s
  <2>2. /\ Advances(k) /\ task'[k].stage = s /\ task'[k].saves = task[k].saves
    BY <1>1, <1>5, <2>1, GotoAdvances DEF Ready, Stages
  <2>3. Sent(task'[k], executed[k])
    BY <1>1, <2>1, <2>2, ReadyTypes DEF Sent, Task
  <2> QED
    BY <1>2, <1>3, <2>2, <2>3, ReadyTypes DEF InnerStep
<1> QED
  BY <1>2, <1>4, <1>5

\* The code is sent: this is where the key's only execution happens.
LEMMA SendInner ==
  ASSUME NEW k \in Command, Ready(k), Send(k)
  PROVE  InnerStep(k)
<1>1. InFlight(k) /\ task[k].stage = "send" /\ "run" \in Stages \ {"none", "done"} /\ Goto(k, "run")
  BY DEF Send, InFlight, Stages
<1>2. /\ UNCHANGED <<vars, ledger, artifact, roomVars, uncertain, stored, writes, kernel>>
      /\ executed' = [executed EXCEPT ![k] = @ + 1]
  BY DEF Send
<1>3. DataOK'
  BY <1>2, ReadyTypes DEF DataOK, roomVars
<1>4. Advances(k) /\ task'[k].stage = "run" /\ task'[k].saves = task[k].saves
  BY <1>1, GotoAdvances DEF Ready
<1>5. executed[k] = 0 /\ task[k].saves = 1
  BY <1>1, ReadyTypes DEF Sent
<1>6. /\ executed' \in [Command -> Nat] /\ executed'[k] = 1
      /\ \A j \in Command \ {k} : executed'[j] = executed[j]
  BY <1>2, <1>5, ReadyTypes
<1>7. Sent(task'[k], executed'[k])
  BY <1>4, <1>5, <1>6 DEF Sent
<1> QED
  BY <1>2, <1>3, <1>4, <1>6, <1>7 DEF InnerStep

LEMMA OutputInner ==
  ASSUME NEW k \in Command, Ready(k), Output(k)
  PROVE  InnerStep(k)
<1>1. InFlight(k) /\ "save" \in Plain /\ Goto(k, "save")
  BY DEF Output, InFlight, Plain, Stages
<1>2. UNCHANGED <<vars, ledger, artifact, roomVars, uncertain, jupyterVars>>
  BY DEF Output
<1>3. DataOK' /\ executed' = executed
  BY <1>2, ReadyTypes DEF DataOK, roomVars, jupyterVars
<1> QED
  BY <1>1, <1>2, <1>3, PlainInner

LEMMA CompleteInner ==
  ASSUME NEW k \in Command, Ready(k), Complete(k)
  PROVE  InnerStep(k)
<1> DEFINE u == [task[k] EXCEPT !.stage = "save", !.complete = TRUE]
<1>1. InFlight(k) /\ task' = [task EXCEPT ![k] = u]
  BY DEF Complete, InFlight
<1>2. UNCHANGED <<vars, ledger, artifact, roomVars, uncertain, jupyterVars>>
  BY DEF Complete
<1>3. DataOK' /\ executed' = executed
  BY <1>2, ReadyTypes DEF DataOK, roomVars, jupyterVars
<1>4. u \in Task /\ Identity(task[k], u) /\ u.saves = task[k].saves /\ u.stage = "save"
  BY ReadyTypes DEF Task, Identity, Stages
<1> HIDE DEF u
<1>5. "save" \in Plain
  BY DEF Plain, Stages
<1>6. Sent(u, executed[k])
  BY <1>1, <1>4, <1>5, ReadyTypes, PlainSent DEF InFlight
<1>7. Advances(k) /\ task'[k] = u
  BY <1>1, <1>4 DEF Advances, Ready, GatewayTypeOK
<1> QED
  BY <1>2, <1>3, <1>6, <1>7, ReadyTypes DEF InnerStep

LEMMA MoveInner ==
  ASSUME NEW k \in Command, Ready(k), Move(k)
  PROVE  InnerStep(k)
<1>1. /\ InFlight(k) /\ "session" \in Plain /\ task[k].path \in Path /\ task[k].to \in Path
      /\ Goto(k, "session") \/ Abort(k)
  BY ReadyTypes DEF Move, InFlight, Plain, Stages
<1>2. UNCHANGED <<vars, ledger, artifact, roomVars, uncertain, writes, kernel, executed>>
  BY DEF Move
<1>3. stored' = stored
        \/ stored' = [stored EXCEPT ![task[k].to] = stored[task[k].path], ![task[k].path] = NoCells]
  BY DEF Move
<1>4. stored \in [Path -> Cells] /\ NoCells \in Cells
  BY ReadyTypes DEF DataOK, Cells
<1>5. stored' \in [Path -> Cells]
  BY <1>1, <1>3, <1>4
<1>6. DataOK'
  BY <1>2, <1>5, ReadyTypes DEF DataOK, roomVars
<1> QED
  BY <1>1, <1>2, <1>6, PlainInner, AbortInner

LEMMA MoveSessionInner ==
  ASSUME NEW k \in Command, Ready(k), MoveSession(k)
  PROVE  InnerStep(k)
<1>1. /\ InFlight(k) /\ "rekey" \in Plain /\ task[k].path \in Path /\ task[k].to \in Path
      /\ Goto(k, "rekey")
  BY ReadyTypes DEF MoveSession, InFlight, Plain, Stages
<1>2. UNCHANGED <<vars, ledger, artifact, roomVars, uncertain, stored, writes, executed>>
  BY DEF MoveSession
<1>3. kernel' \in [Path -> {"clean", "unknown"}]
  BY <1>1, ReadyTypes DEF MoveSession, DataOK
<1>4. DataOK'
  BY <1>2, <1>3, ReadyTypes DEF DataOK, roomVars
<1> QED
  BY <1>1, <1>2, <1>4, PlainInner

LEMMA RekeyInner ==
  ASSUME NEW k \in Command, Ready(k), Rekey(k)
  PROVE  InnerStep(k)
<1>1. /\ InFlight(k) /\ "reread" \in Plain /\ task[k].path \in Path /\ task[k].to \in Path
      /\ Goto(k, "reread")
  BY ReadyTypes DEF Rekey, InFlight, Plain, Stages
<1>2. UNCHANGED <<vars, ledger, artifact, shown, seen, uncertain, jupyterVars>>
  BY DEF Rekey
<1>3. revisions' \in [Path -> [cells : Cells, number : Nat]]
  <2> DEFINE none == [cells |-> NoCells, number |-> 0]
  <2>1. none \in [cells : Cells, number : Nat]
    BY DEF Cells
  <2>2. revisions' = revisions \/ revisions' =
          [revisions EXCEPT ![task[k].to] = revisions[task[k].path], ![task[k].path] = none]
    BY DEF Rekey
  <2> HIDE DEF none
  <2> QED
    BY <1>1, <2>1, <2>2, ReadyTypes DEF DataOK
<1>4. DataOK' /\ executed' = executed
  BY <1>2, <1>3, ReadyTypes DEF DataOK, jupyterVars
<1> QED
  BY <1>1, <1>2, <1>4, PlainInner

LEMMA FinalInner ==
  ASSUME NEW k \in Command, Ready(k), Final(k)
  PROVE  InnerStep(k)
<1> DEFINE p == IF task[k].kind = "Rename" THEN task[k].to ELSE task[k].path
           n == Number(p, task[k].raw)
           u == [task[k] EXCEPT !.stage = "finish", !.number = n]
<1>1. InFlight(k) /\ p \in Path /\ task[k].stage = "final"
  BY ReadyTypes DEF Final, InFlight
<1>2. /\ Committed(p, task[k].raw)
      /\ Abort(k) \/ task' = [task EXCEPT ![k] = u]
      /\ UNCHANGED <<ledger, artifact, uncertain, jupyterVars>>
  BY DEF Final
<1>3. /\ DataOK' /\ executed' = executed
      /\ \E q \in Path, m \in Nat \ {0} : PublishSnapshot(q, m)
  BY <1>1, <1>2, CommitTyped
<1>4. n \in Nat \ {0}
  BY <1>1, ReadyTypes, NumberPositive
<1> HIDE DEF p, n
<1>5. CASE Abort(k)
  BY <1>1, <1>2, <1>3, <1>5, AbortInner
<1>6. CASE task' = [task EXCEPT ![k] = u]
  <2>1. /\ u \in Task /\ Identity(task[k], u) /\ u.stage = "finish" /\ u.number = n
        /\ u.saves = task[k].saves
    BY <1>4, ReadyTypes DEF Task, Identity, Stages
  <2> HIDE DEF u
  <2>2. Sent(u, executed[k])
    BY <1>1, <1>4, <2>1, ReadyTypes DEF Sent, InFlight
  <2>3. Advances(k) /\ task'[k] = u
    BY <1>1, <1>6, <2>1 DEF Advances, Ready, GatewayTypeOK
  <2> QED
    BY <1>2, <1>3, <2>2, <2>3, ReadyTypes DEF InnerStep
<1> QED
  BY <1>2, <1>5, <1>6

LEMMA FailInner ==
  ASSUME NEW k \in Command, Ready(k), Fail(k)
  PROVE  InnerStep(k)
<1>1. InFlight(k) /\ Abort(k) /\ kernel' = Disturbed(k)
  BY DEF Fail, InFlight
<1>2. UNCHANGED <<vars, ledger, artifact, roomVars, uncertain, stored, writes, executed>>
  BY DEF Fail
<1>3. DataOK'
  BY <1>1, <1>2, ReadyTypes, DisturbedTyped DEF DataOK, roomVars
<1> QED
  BY <1>1, <1>2, <1>3, AbortInner

\* Every step of `run` in one.
Inner(k) ==
  \/ Start(k) \/ KernelAction(k) \/ Create(k) \/ Read(k) \/ Prepare(k)
  \/ Save(k) \/ SaveUnacknowledged(k) \/ Progress(k) \/ Send(k) \/ Output(k)
  \/ Complete(k) \/ Move(k) \/ MoveSession(k) \/ Rekey(k) \/ Final(k) \/ Fail(k)

LEMMA InnerSteps ==
  ASSUME NEW k \in Command, Ready(k), Inner(k)
  PROVE  InnerStep(k)
BY StartInner, KernelActionInner, CreateInner, ReadInner, PrepareInner, SaveInner,
   SaveUnacknowledgedInner, ProgressInner, SendInner, OutputInner, CompleteInner, MoveInner,
   MoveSessionInner, RekeyInner, FinalInner, FailInner DEF Inner

-----------------------------------------------------------------------------
(* What dispatch does to the rooms is what Collaboration allows. *)

\* A step of Collaboration, for snapshots of any revision.
RoomsNext ==
  \/ [Next]_vars
  \/ \E p \in Path, n \in Nat \ {0} :
       PublishSnapshot(p, n) \/ \E q \in Path : SettleRename(p, q, n)

LEMMA RoomsNextKeeps ==
  ASSUME IInv, RoomsNext
  PROVE  IInv'
BY NextKeeps, PublishSnapshotKeeps, SettleRenameKeeps DEF RoomsNext

LEMMA RoomsNextRefines ==
  ASSUME Revision = Nat \ {0}, RoomsNext
  PROVE  [Next]_vars
BY DEF RoomsNext, Next

\* Opening a room is settling work that the room never had.
LEMMA OpenRefines ==
  ASSUME Good(ws), Opened, NEW p \in Path, ws' = Open(ws, p), Informs({})
  PROVE  RoomsNext
<1>1. ws \in Workspace /\ ws.active \in [Path -> Nat] /\ ws.rooms \subseteq Path
  BY DEF Good, Workspace
<1>2. CASE ws.active[p] > 0
  <2>1. p \in ws.rooms
    BY <1>2 DEF Opened
  <2>2. ws' = ws
    <3>1. ws.rooms \cup {p} = ws.rooms
      BY <2>1
    <3> QED
      BY <1>1, <3>1 DEF Open, Workspace
  <2> QED
    BY <2>2 DEF Informs, RoomsNext, vars
<1>3. CASE ~(ws.active[p] > 0)
  <2> DEFINE o == Open(ws, p)
  <2>1. o \in Workspace /\ o.active = ws.active
    BY <1>1 DEF Open, Workspace
  <2>2. Settle(ws, p) = [o EXCEPT !.active[p] = IF @ > 0 THEN @ - 1 ELSE 0]
    BY DEF Settle
  <2>3. ws' = o
    OBVIOUS
  <2> HIDE DEF o
  <2>4. [o.active EXCEPT ![p] = IF @ > 0 THEN @ - 1 ELSE 0] = o.active
    BY <1>1, <1>3, <2>1
  <2>5. Settle(ws, p) = [o EXCEPT !.active = o.active]
    BY <2>2, <2>4
  <2>6. [o EXCEPT !.active = o.active] = o
    BY <2>1 DEF Workspace
  <2>7. SettleWrite(p)
    BY <2>3, <2>5, <2>6 DEF SettleWrite
  <2> QED
    BY <2>7 DEF RoomsNext, Next
<1> QED
  BY <1>2, <1>3

LEMMA RequestSteps ==
  ASSUME Good(ws), Opened, CollaborationRequest
  PROVE  RoomsNext /\ Untouched(ws, ws')
<1>1. CASE Tick
  BY <1>1, TickUntouched DEF RoomsNext, Next
<1>2. ASSUME NEW c \in Client, NEW p \in Path,
             JoinRequest(c, p) \/ JoinDenied(c, p) \/ Ask(c, p) \/ Poll(c, p)
               \/ Leave(c, p) \/ Release(c, p)
      PROVE  RoomsNext /\ Untouched(ws, ws')
  <2>1. Next
    BY <1>2 DEF Next
  <2>2. Untouched(ws, ws')
    BY <1>2, JoinRequestSmooth, JoinDeniedSmooth, MemberSmooth, PollSmooth, LeaveOrderly,
       ReleaseOrderly DEF Ask, Smooth
  <2> QED
    BY <2>1, <2>2 DEF RoomsNext
<1>3. ASSUME NEW c \in Client, NEW p \in Path, Refuse(c, p)
      PROVE  RoomsNext /\ Untouched(ws, ws')
  <2>1. CASE ws' = Member(ws, p, c)
    <3>1. Ask(c, p)
      BY <1>3, <2>1 DEF Refuse, Ask
    <3> QED
      BY <1>2, <3>1
  <2>2. CASE ws' = Open(ws, p)
    BY <1>3, <2>2, OpenRefines, OpenSmooth DEF Refuse, Smooth
  <2> QED
    BY <1>3, <2>1, <2>2 DEF Refuse
<1>4. ASSUME NEW c \in Client, NEW p \in Path, NEW d \in Client,
             Claim(c, p) \/ Handoff(c, p, d)
      PROVE  RoomsNext /\ Untouched(ws, ws')
  <2>1. Next
    BY <1>4 DEF Next
  <2>2. Untouched(ws, ws')
    BY <1>4, TransferRetains DEF Claim, Handoff
  <2> QED
    BY <2>1, <2>2 DEF RoomsNext
<1>5. ASSUME NEW c \in Client, NEW p \in Path, NEW q \in Path, PublishView(c, p, q)
      PROVE  RoomsNext /\ Untouched(ws, ws')
  <2>1. Next
    BY <1>5 DEF Next
  <2>2. Untouched(ws, ws')
    BY <1>5, PublishViewSmooth DEF Smooth
  <2> QED
    BY <2>1, <2>2 DEF RoomsNext
<1> QED
  BY <1>1, <1>2, <1>3, <1>4, <1>5 DEF CollaborationRequest

-----------------------------------------------------------------------------
(* The accounts of the rooms: accepted work, redirects. *)

LEMMA PublishAccounts ==
  ASSUME NEW w \in Workspace, NEW p \in Path, NEW rev \in Nat
  PROVE  LET v == Publish(w, p, rev) IN
         v.active = w.active /\ v.redirects = w.redirects /\ w.rooms \subseteq v.rooms
BY DEF Publish, Open, Workspace

LEMMA SettleAccounts ==
  ASSUME NEW w \in Workspace, NEW p \in Path
  PROVE  LET v == Settle(w, p) IN
         /\ v.active = [w.active EXCEPT ![p] = IF @ > 0 THEN @ - 1 ELSE 0]
         /\ v.redirects = w.redirects /\ w.rooms \subseteq v.rooms
BY DEF Settle, Open, Workspace

LEMMA RenameAccounts ==
  ASSUME NEW w \in Workspace, NEW old \in Path, NEW new \in Path, old # new
  PROVE  LET r == Rename(w, old, new) IN
         \/ r = w
         \/ /\ r.rooms = (w.rooms \ {old}) \cup {new}
            /\ r.active = [w.active EXCEPT ![new] = w.active[old], ![old] = 0]
<1> DEFINE fresh == {c \in w.inRoom[old] : w.redirect[old][c] = None}
           redirect == [p \in Path |-> [c \in Client |->
               IF (p = old /\ c \in w.inRoom[old]) \/ w.redirect[p][c] = old
               THEN new ELSE w.redirect[p][c]]]
           v == [w EXCEPT
                  !.rooms = (@ \ {old}) \cup {new},
                  !.inRoom = [@ EXCEPT ![new] = w.inRoom[old], ![old] = {}],
                  !.active = [@ EXCEPT ![new] = w.active[old], ![old] = 0],
                  !.snapshot = [@ EXCEPT ![new] = w.snapshot[old], ![old] = 0],
                  !.heard = [@ EXCEPT ![new] = {}, ![old] = {}],
                  !.redirect = redirect,
                  !.redirects = @ + Cardinality(fresh)]
<1>1. Rename(w, old, new) = IF old \notin w.rooms THEN w ELSE v
  BY Zenon DEF Rename
<1> HIDE DEF fresh, redirect
<1>2. /\ v.rooms = (w.rooms \ {old}) \cup {new}
      /\ v.active = [w.active EXCEPT ![new] = w.active[old], ![old] = 0]
  BY DEF Workspace
<1> HIDE DEF v
<1> QED
  BY <1>1, <1>2

\* A step that leaves the accounts alone keeps work in open rooms.
LEMMA UntouchedOpened ==
  ASSUME Opened, ws'.active = ws.active, ws.rooms \subseteq ws'.rooms
  PROVE  Opened'
BY DEF Opened

LEMMA SettleOpened ==
  ASSUME NEW w \in Workspace, NEW v, NEW p \in Path,
         \A q \in Path : w.active[q] > 0 => q \in w.rooms,
         v.active = [w.active EXCEPT ![p] = IF @ > 0 THEN @ - 1 ELSE 0],
         w.rooms \subseteq v.rooms
  PROVE  \A q \in Path : v.active[q] > 0 => q \in v.rooms
<1>1. w.active \in [Path -> Nat]
  BY DEF Workspace
<1> QED
  BY <1>1

LEMMA SettleRenameOpened ==
  ASSUME Good(ws), Opened, NEW old \in Path, NEW new \in Path, NEW rev \in Nat,
         SettleRename(old, new, rev)
  PROVE  Opened'
<1> DEFINE s == Settle(ws, old)
           r == Rename(s, old, new)
<1>1. ws' = Publish(r, new, rev) /\ old # new /\ ws \in Workspace
  BY DEF SettleRename, Good
<1>2. Good(s)
  BY <1>1, SettleSameRoles, SameRolesGood
<1>3. \A q \in Path : s.active[q] > 0 => q \in s.rooms
  <2>1. /\ s.active = [ws.active EXCEPT ![old] = IF @ > 0 THEN @ - 1 ELSE 0]
        /\ ws.rooms \subseteq s.rooms
    BY <1>1, SettleAccounts
  <2>2. \A q \in Path : ws.active[q] > 0 => q \in ws.rooms
    BY DEF Opened
  <2> HIDE DEF s
  <2> QED
    BY <1>1, <2>1, <2>2, SettleOpened
<1> HIDE DEF s
<1>4. r \in Workspace
  BY <1>2, RenameGood DEF Good
<1>5. r = s \/ /\ r.rooms = (s.rooms \ {old}) \cup {new}
               /\ r.active = [s.active EXCEPT ![new] = s.active[old], ![old] = 0]
  BY <1>1, <1>2, RenameAccounts DEF Good
<1> HIDE DEF r
<1>6. s.active \in [Path -> Nat]
  BY <1>2 DEF Good, Workspace
<1>7. \A q \in Path : r.active[q] > 0 => q \in r.rooms
  BY <1>3, <1>5, <1>6
<1>8. ws'.active = r.active /\ r.rooms \subseteq ws'.rooms
  BY <1>1, <1>4, PublishAccounts
<1> QED
  BY <1>7, <1>8 DEF Opened

-----------------------------------------------------------------------------
(* The four kinds of steps keep the invariant. *)

LEMMA InvReady ==
  ASSUME GatewayInvariant, NEW k \in Command
  PROVE  Ready(k) /\ Good(ws) /\ Guarding(k)
BY DEF GatewayInvariant, Ready, IInv

\* What collaboration requests do.
LEMMA RequestKeeps ==
  ASSUME GatewayInvariant, CollaborationRequest, UNCHANGED gatewayVars
  PROVE  GatewayInvariant'
<1>1. RoomsNext /\ Untouched(ws, ws')
  BY RequestSteps DEF GatewayInvariant, IInv
<1>2. IInv'
  BY <1>1, RoomsNextKeeps DEF GatewayInvariant
<1>3. GatewayTypeOK'
  BY DEF GatewayInvariant, GatewayTypeOK, gatewayVars, dispatchVars, roomVars, jupyterVars
<1>4. ASSUME NEW k \in Command
      PROVE  Sent(task'[k], executed'[k]) /\ Entered(k)' /\ Guarding(k)'
  <2>1. Sent(task[k], executed[k]) /\ Entered(k) /\ Guarding(k)
    BY DEF GatewayInvariant
  <2> QED
    BY <1>1, <2>1 DEF Entered, Guarding, InFlight, Untouched, gatewayVars, dispatchVars,
       jupyterVars
<1>5. Opened'
  BY <1>1, UntouchedOpened DEF Untouched, GatewayInvariant
<1>6. Entries' = Entries /\ Counted'
  <2>1. ledger' = ledger /\ task' = task /\ ws'.active = ws.active
    BY <1>1 DEF gatewayVars, dispatchVars, Untouched
  <2> QED
    BY <2>1 DEF GatewayInvariant, Entries, Counted, Accepted, Pending, InFlight
<1> QED
  BY <1>2, <1>3, <1>4, <1>5, <1>6 DEF GatewayInvariant

\* The tasks that are pending do not change while one of them moves on.
LEMMA AdvancesCount ==
  ASSUME GatewayTypeOK, NEW k \in Command, Advances(k)
  PROVE  /\ \A p \in Path : Pending(p)' = Pending(p)
         /\ \A kind \in AllKinds : Accepted(kind)' <=> Accepted(kind)
<1>1. /\ task \in [Command -> Task] /\ task' \in [Command -> Task]
      /\ \A j \in Command \ {k} : task'[j] = task[j]
      /\ task'[k].kind = task[k].kind /\ task'[k].path = task[k].path
      /\ task[k].stage \notin {"none", "done"} /\ task'[k].stage \notin {"none", "done"}
  BY DEF GatewayTypeOK, Advances, Identity, InFlight
<1>2. \A j \in Command : /\ task'[j].kind = task[j].kind /\ task'[j].path = task[j].path
                         /\ (task'[j].stage \notin {"none", "done"})
                              <=> (task[j].stage \notin {"none", "done"})
  BY <1>1
<1> QED
  BY <1>2 DEF Pending, InFlight, Accepted

LEMMA InnerKeeps ==
  ASSUME GatewayInvariant, NEW k \in Command, Inner(k)
  PROVE  GatewayInvariant'
<1>1. InnerStep(k) /\ GatewayTypeOK /\ Good(ws)
  BY InvReady, InnerSteps DEF Ready
<1>2. RoomsNext
  BY <1>1 DEF InnerStep, RoomsNext, vars
<1>3. IInv'
  BY <1>2, RoomsNextKeeps DEF GatewayInvariant
<1>4. ws'.active = ws.active /\ ws'.redirects = ws.redirects /\ ws.rooms \subseteq ws'.rooms
  <2>1. CASE UNCHANGED vars
    BY <2>1 DEF vars
  <2>2. CASE \E p \in Path, n \in Nat \ {0} : PublishSnapshot(p, n)
    BY <1>1, <2>2, PublishAccounts DEF PublishSnapshot, Good
  <2> QED
    BY <1>1, <2>1, <2>2 DEF InnerStep
<1>5. GatewayTypeOK'
  BY <1>1 DEF InnerStep, DataOK, Advances, GatewayTypeOK
<1>6. ASSUME NEW j \in Command
      PROVE  Sent(task'[j], executed'[j]) /\ Entered(j)' /\ Guarding(j)'
  <2>1. Sent(task[j], executed[j]) /\ Entered(j) /\ Guarding(j)
    BY DEF GatewayInvariant
  <2>2. ledger' = ledger /\ artifact' = artifact
    BY <1>1 DEF InnerStep
  <2>3. CASE j # k
    <3>1. task'[j] = task[j] /\ executed'[j] = executed[j]
      BY <1>1, <2>3 DEF InnerStep, Advances
    <3> QED
      BY <1>4, <2>1, <2>2, <3>1 DEF Entered, Guarding, InFlight
  <2>4. CASE j = k
    <3>1. /\ Sent(task'[j], executed'[j]) /\ Identity(task[j], task'[j])
          /\ task[j].stage \notin {"none", "done"} /\ task'[j].stage \notin {"none", "done"}
      BY <1>1, <2>4 DEF InnerStep, Advances, InFlight
    <3> QED
      BY <1>4, <2>1, <2>2, <3>1 DEF Entered, Guarding, InFlight, Identity
  <2> QED
    BY <2>3, <2>4
<1>7. Opened'
  BY <1>4, UntouchedOpened DEF GatewayInvariant
<1>8. Entries' = Entries
  BY <1>1 DEF InnerStep, Entries
<1>9. Counted'
  <2>1. /\ \A p \in Path : Pending(p)' = Pending(p)
        /\ Accepted("Rename")' <=> Accepted("Rename")
    BY <1>1, AdvancesCount DEF InnerStep, AllKinds
  <2> QED
    BY <1>4, <2>1 DEF GatewayInvariant, Counted
<1> QED
  BY <1>3, <1>5, <1>6, <1>7, <1>8, <1>9 DEF GatewayInvariant

-----------------------------------------------------------------------------
(* Admission. *)

\* What `begin` leaves behind, whatever it was asked.
LEMMA SubmitFacts ==
  ASSUME GatewayInvariant, NEW k \in Command, NEW c \in Client, NEW p \in Path,
         NEW kind \in AllKinds, NEW to \in Path, NEW expected \in Nat, NEW basis \in Cells,
         Submit(k, c, p, kind, to, expected, basis)
  PROVE  /\ task[k].stage = "none" /\ task[k].kind = "Query" /\ executed[k] = 0
         /\ task' \in [Command -> Task]
         /\ \A j \in Command \ {k} : task'[j] = task[j]
         /\ task'[k].stage = "queued" /\ task'[k].kind = kind
         /\ task'[k].path = p /\ task'[k].to = to /\ task'[k].saves = 0
         /\ task'[k].expected = expected /\ task'[k].basis = basis
         /\ ledger[k] = "absent" /\ ledger' = [ledger EXCEPT ![k] = "accepted"]
<1>1. ~InFlight(k) /\ ledger[k] = "absent"
  BY DEF Submit, Admissible
<1>2. Entered(k) /\ Sent(task[k], executed[k]) /\ executed[k] \in Nat
  BY DEF GatewayInvariant, GatewayTypeOK
<1>3. task[k].stage = "none" /\ task[k].kind = "Query" /\ executed[k] = 0
  BY <1>1, <1>2 DEF Entered, Sent
<1> DEFINE u == [Idle EXCEPT !.stage = "queued", !.kind = kind, !.path = p, !.to = to,
                             !.expected = expected, !.basis = basis]
<1>4. task' = [task EXCEPT ![k] = u] /\ ledger' = [ledger EXCEPT ![k] = "accepted"]
  BY DEF Submit
<1>5. /\ u \in Task /\ u.stage = "queued" /\ u.kind = kind /\ u.path = p /\ u.to = to
      /\ u.saves = 0 /\ u.expected = expected /\ u.basis = basis
  <2>1. Idle \in Task /\ Idle.saves = 0
    BY DEF Idle, Task, Stages, AllKinds, Cells
  <2>2. "queued" \in Stages
    BY DEF Stages
  <2> QED
    BY <2>1, <2>2 DEF Task
<1> HIDE DEF u
<1> QED
  BY <1>1, <1>3, <1>4, <1>5 DEF GatewayInvariant, GatewayTypeOK

\* The accounts after an admission.
LEMMA SubmitAccounts ==
  ASSUME Good(ws), Opened, NEW k \in Command, NEW c \in Client, NEW p \in Path,
         NEW kind \in AllKinds, NEW to, NEW expected, NEW basis,
         Submit(k, c, p, kind, to, expected, basis)
  PROVE  /\ RoomsNext /\ Opened'
         /\ ws'.redirects = ws.redirects
         /\ ws'.active = IF Writes(kind) THEN [ws.active EXCEPT ![p] = @ + 1] ELSE ws.active
<1>1. CASE Writes(kind)
  <2> DEFINE m == Member(ws, p, c)
  <2>1. ws' = [m EXCEPT !.active[p] = @ + 1] /\ Informs({}) /\ CanOpen(Refresh(ws), p)
    BY <1>1 DEF Submit, Accept
  <2>2. AcceptWrite(c, p)
    BY <1>1 DEF Submit, AcceptWrite
  <2>3. Good(m) /\ Untouched(ws, m)
    BY MemberGood, MemberSmooth DEF Smooth
  <2>4. p \in m.rooms
    <3> DEFINE r == Open(Refresh(ws), p)
    <3>1. p \in r.rooms /\ r \in Workspace
      BY <2>1, RefreshGood DEF Open, Good, Workspace
    <3>2. m = IF c \in r.inRoom[p] THEN [r EXCEPT !.idle[c] = 0] ELSE r
      BY DEF Member
    <3> HIDE DEF r, m
    <3> QED
      BY <3>1, <3>2 DEF Workspace
  <2> HIDE DEF m
  <2>5. /\ ws'.active = [ws.active EXCEPT ![p] = @ + 1] /\ ws'.redirects = ws.redirects
        /\ ws'.rooms = m.rooms /\ ws.active \in [Path -> Nat]
    BY <2>1, <2>3 DEF Good, Workspace, Untouched
  <2>6. Opened'
    BY <2>3, <2>4, <2>5 DEF Opened, Untouched
  <2>7. RoomsNext
    BY <2>2 DEF RoomsNext, Next
  <2> QED
    BY <1>1, <2>5, <2>6, <2>7
<1>2. CASE ~Writes(kind)
  <2>1. ws' = Open(ws, p) /\ Informs({})
    BY <1>2 DEF Submit
  <2>2. RoomsNext /\ Untouched(ws, ws')
    BY <2>1, OpenRefines, OpenSmooth DEF Smooth
  <2> QED
    BY <1>2, <2>2, UntouchedOpened DEF Untouched
<1> QED
  BY <1>1, <1>2

LEMMA SubmitGuards ==
  ASSUME GatewayInvariant, NEW k \in Command, NEW c \in Client, NEW p \in Path,
         NEW kind \in AllKinds, NEW to \in Path, kind = "Rename" => to # p,
         NEW expected \in Nat, NEW basis \in Cells,
         Submit(k, c, p, kind, to, expected, basis), NEW j \in Command
  PROVE  Guarding(j)'
<1>1. /\ task'[k].kind = kind /\ task'[k].path = p /\ task'[k].to = to
      /\ \A i \in Command \ {k} : task'[i] = task[i]
  BY SubmitFacts
<1>2. ws'.redirects = ws.redirects
  BY SubmitAccounts DEF GatewayInvariant, IInv
<1>3. /\ Namespace(kind) => artifact = None
      /\ artifact' = IF Namespace(kind) THEN k ELSE artifact
      /\ kind = "Rename" => CanRename(Refresh(ws), p, to)
  BY DEF Submit, Admissible
<1>4. CASE j = k
  <2>1. Untouched(ws, Refresh(ws))
    BY RefreshSmooth DEF GatewayInvariant, IInv, Smooth
  <2> QED
    BY <1>1, <1>2, <1>3, <1>4, <2>1 DEF Guarding, Namespace, CanRename, Untouched
<1>5. CASE j # k
  <2>1. task'[j] = task[j] /\ Guarding(j) /\ j # None
    BY <1>1, <1>5, GatewayAssumption DEF GatewayInvariant
  <2> QED
    BY <1>2, <1>3, <2>1 DEF Guarding, InFlight
<1> QED
  BY <1>4, <1>5

LEMMA SubmitCounts ==
  ASSUME GatewayInvariant, NEW k \in Command, NEW c \in Client, NEW p \in Path,
         NEW kind \in AllKinds, NEW to \in Path, NEW expected \in Nat, NEW basis \in Cells,
         Submit(k, c, p, kind, to, expected, basis)
  PROVE  IsFiniteSet(Entries') /\ Counted'
<1>1. /\ task[k].stage = "none" /\ task[k].kind = "Query"
      /\ task' \in [Command -> Task]
      /\ \A j \in Command \ {k} : task'[j] = task[j]
      /\ task'[k].stage = "queued" /\ task'[k].kind = kind /\ task'[k].path = p
      /\ ledger[k] = "absent" /\ ledger' = [ledger EXCEPT ![k] = "accepted"]
  BY SubmitFacts
<1>2. Entries' = Entries \cup {k}
  BY <1>1 DEF Entries, GatewayInvariant, GatewayTypeOK
<1>3. IsFiniteSet(Entries')
  BY <1>2, FS_AddElement DEF GatewayInvariant
<1>4. Counted'
  <2> SUFFICES ASSUME ~Accepted("Rename")', NEW q \in Path
               PROVE  ws'.active[q] = Cardinality(Pending(q)')
    BY DEF Counted
  <2>1. ~Accepted("Rename")
    <3> SUFFICES ASSUME NEW j \in Command, task[j].kind = "Rename" PROVE FALSE
      BY DEF Accepted
    <3>1. j # k
      BY <1>1
    <3> QED
      BY <1>1, <3>1 DEF Accepted
  <2>2. ws.active[q] = Cardinality(Pending(q))
    BY <2>1 DEF GatewayInvariant, Counted
  <2>3. ws'.active = IF Writes(kind) THEN [ws.active EXCEPT ![p] = @ + 1] ELSE ws.active
    BY SubmitAccounts DEF GatewayInvariant, IInv
  <2>4. ws.active \in [Path -> Nat]
    BY DEF GatewayInvariant, IInv, Good, Workspace
  <2>5. Pending(q)' = IF q = p /\ Writes(kind) THEN Pending(q) \cup {k} ELSE Pending(q)
    BY <1>1 DEF Pending, InFlight
  <2>6. k \notin Pending(q) /\ Pending(q) \subseteq Entries
    BY <1>1 DEF Pending, InFlight, Entries, GatewayInvariant, Entered
  <2>7. IsFiniteSet(Pending(q))
    BY <2>6, FS_Subset DEF GatewayInvariant
  <2>8. Cardinality(Pending(q) \cup {k}) = Cardinality(Pending(q)) + 1
    BY <2>6, <2>7, FS_AddElement
  <2> QED
    BY <2>2, <2>3, <2>4, <2>5, <2>8
<1> QED
  BY <1>3, <1>4

LEMMA SubmitKeeps ==
  ASSUME GatewayInvariant, NEW k \in Command, NEW c \in Client, NEW p \in Path,
         NEW kind \in AllKinds, NEW to \in Path, kind = "Rename" => to # p,
         NEW expected \in Nat, NEW basis \in Cells,
         Submit(k, c, p, kind, to, expected, basis)
  PROVE  GatewayInvariant'
<1>1. /\ task[k].stage = "none" /\ executed[k] = 0
      /\ task' \in [Command -> Task]
      /\ \A j \in Command \ {k} : task'[j] = task[j]
      /\ task'[k].stage = "queued" /\ task'[k].path = p /\ task'[k].to = to
      /\ task'[k].saves = 0
      /\ ledger[k] = "absent" /\ ledger' = [ledger EXCEPT ![k] = "accepted"]
  BY SubmitFacts
<1>2. RoomsNext /\ Opened'
  BY SubmitAccounts DEF GatewayInvariant, IInv
<1>3. IInv'
  BY <1>2, RoomsNextKeeps DEF GatewayInvariant
<1>4. /\ UNCHANGED <<uncertain, roomVars, jupyterVars>>
      /\ artifact' = IF Namespace(kind) THEN k ELSE artifact
  BY DEF Submit
<1>5. GatewayTypeOK'
  <2>1. ledger' \in [Command -> {"absent", "accepted", "result"}]
    BY <1>1 DEF GatewayInvariant, GatewayTypeOK
  <2>2. artifact' \in Command \cup {None}
    BY <1>4 DEF GatewayInvariant, GatewayTypeOK
  <2> QED
    BY <1>1, <1>4, <2>1, <2>2 DEF GatewayInvariant, GatewayTypeOK, roomVars, jupyterVars
<1>6. ASSUME NEW j \in Command
      PROVE  Sent(task'[j], executed'[j]) /\ Entered(j)'
  <2>1. Sent(task[j], executed[j]) /\ Entered(j) /\ executed' = executed
    BY <1>4 DEF GatewayInvariant, jupyterVars
  <2>2. ledger'[j] # "absent" \/ (j # k /\ ledger'[j] = ledger[j])
    BY <1>1 DEF GatewayInvariant, GatewayTypeOK
  <2>3. CASE j = k
    BY <1>1, <2>1, <2>2, <2>3 DEF Sent, Entered, InFlight
  <2>4. CASE j # k
    BY <1>1, <2>1, <2>2, <2>4 DEF Entered, InFlight
  <2> QED
    BY <2>3, <2>4
<1> QED
  BY <1>2, <1>3, <1>5, <1>6, SubmitGuards, SubmitCounts DEF GatewayInvariant

-----------------------------------------------------------------------------
(* Settlement. *)

\* A room is opened once.
LEMMA OpenTwice ==
  ASSUME NEW w \in Workspace, NEW p \in Path
  PROVE  Open(Open(w, p), p) = Open(w, p)
<1> DEFINE o == Open(w, p)
<1>1. o \in Workspace /\ (o = w \/ p \in o.rooms)
  BY DEF Open, Workspace
<1>2. CASE p \in o.rooms
  <2> HIDE DEF o
  <2>1. o.rooms \cup {p} = o.rooms
    BY <1>2
  <2> QED
    BY <1>1, <2>1 DEF Open, Workspace
<1> QED
  BY <1>1, <1>2

\* The settlement of a rename that succeeded, of any other write, of a query.
LEMMA FinishCases ==
  ASSUME GatewayInvariant, NEW k \in Command, NEW overflow \in BOOLEAN, Finish(k, overflow)
  PROVE  LET t == task[k] IN
         /\ t.ok /\ t.kind = "Rename" =>
              t.number \in Nat \ {0} /\ SettleRename(t.path, t.to, t.number)
         /\ ~(t.ok /\ t.kind = "Rename") /\ Writes(t.kind) =>
              SettleWrite(t.path) \/ SettleFailure(t.path)
         /\ ~Writes(t.kind) => ws' = ws
<1> DEFINE t == task[k]
           p == t.path
           bumped == [ws EXCEPT !.heard[p] = {}]
<1>1. /\ t.stage = "finish" /\ ws' = Settled(t) /\ Informs({})
      /\ t \in Task /\ p \in Path /\ t.to \in Path /\ InFlight(k)
  BY InvReady, ReadyTypes DEF Finish, InFlight
<1>2. Sent(t, executed[k]) /\ Guarding(k) /\ ws \in Workspace
  BY DEF GatewayInvariant, IInv, Good
<1>3. t.ok \in BOOLEAN /\ t.number \in Nat
  BY <1>1 DEF Task
<1>4. ASSUME t.ok, t.kind = "Rename"
      PROVE  t.number \in Nat \ {0} /\ SettleRename(p, t.to, t.number)
  <2>1. t.number \in Nat \ {0}
    BY <1>1, <1>2, <1>3, <1>4 DEF Sent
  <2>2. t.to # p /\ ws.redirects < MaxRedirects
    BY <1>1, <1>2, <1>4 DEF Guarding
  <2>3. Settled(t) = Publish(Rename(Settle(ws, p), p, t.to), t.to, t.number)
    BY <1>4 DEF Settled, Writes
  <2> QED
    BY <1>1, <2>1, <2>2, <2>3 DEF SettleRename
<1>5. ASSUME ~(t.ok /\ t.kind = "Rename"), Writes(t.kind)
      PROVE  SettleWrite(p) \/ SettleFailure(p)
  <2>1. CASE ~t.ok /\ t.kind = "Execute" /\ ws.snapshot[p] > 0
    <3>1. Settled(t) = Settle(Open(bumped, p), p)
      BY <1>5, <2>1 DEF Settled
    <3>2. bumped \in Workspace
      BY <1>1, <1>2 DEF Workspace
    <3> HIDE DEF bumped
    <3>3. Settle(Open(bumped, p), p) = Settle(bumped, p)
      BY <1>1, <3>2, OpenTwice DEF Settle
    <3>4. SettleFailure(p)
      BY <1>1, <2>1, <3>1, <3>3 DEF SettleFailure, bumped
    <3> QED
      BY <3>4
  <2>2. CASE ~t.ok /\ t.kind = "Execute" /\ ~(ws.snapshot[p] > 0)
    <3>1. Settled(t) = Settle(Open(ws, p), p)
      BY <1>5, <2>2 DEF Settled
    <3>2. Settle(Open(ws, p), p) = Settle(ws, p)
      BY <1>1, <1>2, OpenTwice DEF Settle
    <3> QED
      BY <1>1, <3>1, <3>2 DEF SettleWrite
  <2>3. CASE ~(~t.ok /\ t.kind = "Execute")
    <3>1. Settled(t) = Settle(ws, p)
      BY <1>5, <2>3 DEF Settled
    <3> QED
      BY <1>1, <3>1 DEF SettleWrite
  <2> QED
    BY <2>1, <2>2, <2>3
<1>6. ASSUME ~Writes(t.kind)
      PROVE  ws' = ws
  BY <1>1, <1>6 DEF Settled, Writes
<1> QED
  BY <1>4, <1>5, <1>6

\* The accounts after a settlement.
LEMMA FinishAccounts ==
  ASSUME GatewayInvariant, NEW k \in Command, NEW overflow \in BOOLEAN, Finish(k, overflow)
  PROVE  LET t == task[k] IN
         /\ RoomsNext /\ Opened'
         /\ t.kind # "Rename" =>
              /\ ws'.redirects = ws.redirects
              /\ ws'.active = IF Writes(t.kind)
                              THEN [ws.active EXCEPT ![t.path] = IF @ > 0 THEN @ - 1 ELSE 0]
                              ELSE ws.active
         /\ ~(t.ok /\ t.kind = "Rename") => ws'.redirects = ws.redirects
<1> DEFINE t == task[k]
           p == t.path
           v == [ws EXCEPT !.heard[p] = {}]
<1>1. p \in Path /\ t.to \in Path /\ Good(ws) /\ ws \in Workspace /\ Opened /\ Informs({})
  BY InvReady, ReadyTypes DEF Finish, InFlight, Good, GatewayInvariant
<1>2. CASE t.ok /\ t.kind = "Rename"
  <2>1. t.number \in Nat \ {0} /\ SettleRename(p, t.to, t.number)
    BY <1>2, FinishCases
  <2> QED
    BY <1>1, <1>2, <2>1, SettleRenameOpened DEF RoomsNext
<1>3. CASE ~(t.ok /\ t.kind = "Rename") /\ Writes(t.kind)
  <2>1. SettleWrite(p) \/ SettleFailure(p)
    BY <1>3, FinishCases
  <2>2. v \in Workspace /\ v.active = ws.active /\ v.redirects = ws.redirects /\ v.rooms = ws.rooms
    BY <1>1 DEF Workspace
  <2>3. ws' = Settle(ws, p) \/ ws' = Settle(v, p)
    BY <2>1 DEF SettleWrite, SettleFailure
  <2> HIDE DEF v
  <2>4. /\ ws'.active = [ws.active EXCEPT ![p] = IF @ > 0 THEN @ - 1 ELSE 0]
        /\ ws'.redirects = ws.redirects /\ ws.rooms \subseteq ws'.rooms
    BY <1>1, <2>2, <2>3, SettleAccounts
  <2>5. Opened'
    <3>1. \A q \in Path : ws.active[q] > 0 => q \in ws.rooms
      BY <1>1 DEF Opened
    <3>2. \A q \in Path : ws'.active[q] > 0 => q \in ws'.rooms
      BY <1>1, <2>4, <3>1, SettleOpened
    <3> QED
      BY <3>2 DEF Opened
  <2>6. RoomsNext
    BY <1>1, <2>1 DEF RoomsNext, Next
  <2> QED
    BY <1>3, <2>4, <2>5, <2>6
<1>4. CASE ~Writes(t.kind)
  <2>1. ws' = ws
    BY <1>4, FinishCases
  <2>2. RoomsNext
    BY <1>1, <2>1 DEF RoomsNext, Informs, vars
  <2>3. t.kind # "Rename"
    BY <1>4 DEF Writes
  <2> QED
    BY <1>1, <1>4, <2>1, <2>2, <2>3 DEF Opened
<1>5. t.kind = "Rename" => Writes(t.kind)
  BY DEF Writes
<1> QED
  BY <1>2, <1>3, <1>4, <1>5

\* What the other tables hold after a settlement.
LEMMA FinishFacts ==
  ASSUME GatewayInvariant, NEW k \in Command, NEW overflow \in BOOLEAN, Finish(k, overflow)
  PROVE  /\ task[k].stage = "finish" /\ InFlight(k)
         /\ task' \in [Command -> Task]
         /\ \A j \in Command \ {k} : task'[j] = task[j]
         /\ task'[k].stage = "done" /\ task'[k].kind = task[k].kind
         /\ ledger' \in [Command -> {"absent", "accepted", "result"}]
         /\ \A j \in Command : ledger'[j] = "absent" <=> ledger[j] = "absent"
         /\ GatewayTypeOK'
<1> DEFINE t == task[k]
           u == [Idle EXCEPT !.stage = "done", !.kind = t.kind]
<1>1. /\ t.stage = "finish" /\ t \in Task /\ t.path \in Path /\ t.to \in Path
      /\ InFlight(k) /\ GatewayTypeOK /\ ledger[k] # "absent"
  BY InvReady, ReadyTypes DEF Finish, InFlight, GatewayInvariant, Entered
<1>2. /\ task' = [task EXCEPT ![k] = u] /\ ledger' = Recorded(k, overflow)
      /\ artifact' = IF artifact = k THEN None ELSE artifact
      /\ UNCHANGED <<revisions, jupyterVars>>
  BY DEF Finish
<1>3. u \in Task /\ u.stage = "done" /\ u.kind = t.kind
  <2>1. Idle \in Task /\ t.kind \in AllKinds
    BY <1>1 DEF Idle, Task, Stages, AllKinds, Cells
  <2>2. "done" \in Stages
    BY DEF Stages
  <2> QED
    BY <2>1, <2>2 DEF Task
<1>4. /\ ledger' \in [Command -> {"absent", "accepted", "result"}]
      /\ \A j \in Command : ledger'[j] = "absent" <=> ledger[j] = "absent"
  BY <1>1, <1>2 DEF Recorded, GatewayTypeOK
<1> HIDE DEF u
<1>5. /\ task' \in [Command -> Task] /\ task'[k] = u
      /\ \A j \in Command \ {k} : task'[j] = task[j]
  BY <1>1, <1>2, <1>3 DEF GatewayTypeOK
<1>6. shown' \in [Path -> Cells] /\ seen' \in [Path -> SUBSET [number : Nat, cells : Cells]]
  <2>1. /\ shown \in [Path -> Cells] /\ seen \in [Path -> SUBSET [number : Nat, cells : Cells]]
        /\ t.raw \in Cells /\ NoCells \in Cells
    BY <1>1 DEF GatewayTypeOK, Task, Cells
  <2>2. \/ shown' = shown /\ seen' = seen
        \/ /\ shown' = [shown EXCEPT ![t.path] = NoCells,
                 ![t.to] = IF ws.snapshot[t.path] > t.number THEN shown[t.path] ELSE t.raw]
           /\ seen' = [seen EXCEPT ![t.path] = {}, ![t.to] = @ \cup seen[t.path]]
    BY DEF Finish
  <2>3. CASE shown' = shown /\ seen' = seen
    BY <2>1, <2>3
  <2>4. CASE /\ shown' = [shown EXCEPT ![t.path] = NoCells,
                 ![t.to] = IF ws.snapshot[t.path] > t.number THEN shown[t.path] ELSE t.raw]
             /\ seen' = [seen EXCEPT ![t.path] = {}, ![t.to] = @ \cup seen[t.path]]
    <3>1. shown' \in [Path -> Cells]
      BY <1>1, <2>1, <2>4
    <3>2. seen' \in [Path -> SUBSET [number : Nat, cells : Cells]]
      BY <1>1, <2>1, <2>4
    <3> QED
      BY <3>1, <3>2
  <2> QED
    BY <2>2, <2>3, <2>4
<1>7. uncertain' \subseteq Path
  BY <1>1 DEF Finish, GatewayTypeOK
<1>8. artifact' \in Command \cup {None}
  BY <1>1, <1>2 DEF GatewayTypeOK
<1> QED
  BY <1>1, <1>2, <1>3, <1>4, <1>5, <1>6, <1>7, <1>8 DEF GatewayTypeOK, jupyterVars

LEMMA FinishCounts ==
  ASSUME GatewayInvariant, NEW k \in Command, NEW overflow \in BOOLEAN, Finish(k, overflow)
  PROVE  Entries' = Entries /\ Counted'
<1>1. /\ InFlight(k) /\ task' \in [Command -> Task]
      /\ \A j \in Command \ {k} : task'[j] = task[j]
      /\ task'[k].stage = "done" /\ task'[k].kind = task[k].kind
      /\ \A j \in Command : ledger'[j] = "absent" <=> ledger[j] = "absent"
  BY FinishFacts
<1>2. Entries' = Entries
  BY <1>1 DEF Entries
<1>3. Counted'
  <2> SUFFICES ASSUME ~Accepted("Rename")', NEW q \in Path
               PROVE  ws'.active[q] = Cardinality(Pending(q)')
    BY DEF Counted
  <2> DEFINE t == task[k]
  <2>1. ~Accepted("Rename") /\ t.kind # "Rename"
    BY <1>1 DEF Accepted
  <2>2. ws.active[q] = Cardinality(Pending(q)) /\ ws.active \in [Path -> Nat]
    BY <2>1 DEF GatewayInvariant, Counted, IInv, Good, Workspace
  <2>3. ws'.active = IF Writes(t.kind)
                     THEN [ws.active EXCEPT ![t.path] = IF @ > 0 THEN @ - 1 ELSE 0]
                     ELSE ws.active
    BY <2>1, FinishAccounts
  <2>4. Pending(q) \subseteq Entries
    BY DEF Pending, InFlight, Entries, GatewayInvariant, Entered
  <2>5. IsFiniteSet(Pending(q))
    BY <2>4, FS_Subset DEF GatewayInvariant
  <2>6. CASE q = t.path /\ Writes(t.kind)
    <3>1. Pending(q)' = Pending(q) \ {k} /\ k \in Pending(q)
      BY <1>1, <2>6 DEF Pending, InFlight
    <3>2. Cardinality(Pending(q) \ {k}) = Cardinality(Pending(q)) - 1
      BY <2>5, <3>1, FS_RemoveElement
    <3>3. Cardinality(Pending(q)) # 0 /\ Cardinality(Pending(q)) \in Nat
      BY <2>5, <3>1, FS_EmptySet, FS_CardinalityType
    <3> QED
      BY <2>2, <2>3, <2>6, <3>1, <3>2, <3>3
  <2>7. CASE ~(q = t.path /\ Writes(t.kind))
    <3>1. Pending(q)' = Pending(q)
      BY <1>1, <2>7 DEF Pending, InFlight
    <3>2. ws'.active[q] = ws.active[q]
      BY <2>2, <2>3, <2>7
    <3> QED
      BY <2>2, <3>1, <3>2
  <2> QED
    BY <2>6, <2>7
<1> QED
  BY <1>2, <1>3

LEMMA FinishKeeps ==
  ASSUME GatewayInvariant, NEW k \in Command, NEW overflow \in BOOLEAN, Finish(k, overflow)
  PROVE  GatewayInvariant'
<1>1. /\ task[k].stage = "finish" /\ InFlight(k) /\ task' \in [Command -> Task]
      /\ \A j \in Command \ {k} : task'[j] = task[j]
      /\ task'[k].stage = "done" /\ task'[k].kind = task[k].kind
      /\ \A j \in Command : ledger'[j] = "absent" <=> ledger[j] = "absent"
      /\ GatewayTypeOK'
  BY FinishFacts
<1>2. RoomsNext /\ Opened'
  BY FinishAccounts
<1>3. IInv'
  BY <1>2, RoomsNextKeeps DEF GatewayInvariant
<1>4. artifact' = (IF artifact = k THEN None ELSE artifact) /\ executed' = executed
  BY DEF Finish, jupyterVars
<1>5. ASSUME NEW j \in Command
      PROVE  Sent(task'[j], executed'[j]) /\ Entered(j)' /\ Guarding(j)'
  <2>1. Sent(task[j], executed[j]) /\ Entered(j) /\ Guarding(j) /\ Guarding(k)
    BY DEF GatewayInvariant
  <2>2. CASE j = k
    BY <1>1, <1>4, <2>1, <2>2 DEF Sent, Entered, Guarding, InFlight
  <2>3. CASE j # k
    <3>1. task'[j] = task[j]
      BY <1>1, <2>3
    <3>2. Sent(task'[j], executed'[j]) /\ Entered(j)'
      BY <1>1, <1>4, <2>1, <3>1 DEF Entered, InFlight
    <3>3. Guarding(j)'
      <4> SUFFICES ASSUME InFlight(j), task[j].kind = "Rename"
                   PROVE  artifact' = j /\ task[j].to # task[j].path /\ ws'.redirects < MaxRedirects
        BY <3>1 DEF Guarding, InFlight
      <4>1. artifact = j /\ task[j].to # task[j].path /\ ws.redirects < MaxRedirects
        BY <2>1 DEF Guarding
      <4>2. task[k].kind # "Rename"
        BY <1>1, <2>1, <2>3, <4>1 DEF Guarding
      <4>3. ws'.redirects = ws.redirects
        BY <4>2, FinishAccounts
      <4> QED
        BY <1>4, <2>3, <4>1, <4>3
    <3> QED
      BY <3>2, <3>3
  <2> QED
    BY <2>2, <2>3
<1> QED
  BY <1>1, <1>2, <1>3, <1>5, FinishCounts DEF GatewayInvariant

-----------------------------------------------------------------------------
(* The invariance theorem and what it establishes. *)

\* A revision that a change expects is that of a snapshot its client was shown.
Shown(p, kind, expected, basis) ==
  kind = "Modify" /\ expected # 0 => [number |-> expected, cells |-> basis] \in seen[p]

\* The kinds of steps of command dispatch.
LEMMA GatewaySteps ==
  ASSUME GatewayInvariant, [GatewayNext]_allVars
  PROVE  \/ CollaborationRequest /\ UNCHANGED gatewayVars
         \/ \E k \in Command, c \in Client, p \in Path, kind \in AllKinds, to \in Path,
               expected \in Nat, basis \in Cells :
              /\ kind = "Rename" => to # p
              /\ Shown(p, kind, expected, basis)
              /\ Submit(k, c, p, kind, to, expected, basis)
         \/ \E k \in Command : Inner(k)
         \/ \E k \in Command, overflow \in BOOLEAN : Finish(k, overflow)
         \/ UNCHANGED allVars
<1>1. ASSUME NEW k \in Command, SubmitAny(k)
      PROVE  \E c \in Client, p \in Path, kind \in AllKinds, to \in Path,
               expected \in Nat, basis \in Cells :
              /\ kind = "Rename" => to # p
              /\ Shown(p, kind, expected, basis)
              /\ Submit(k, c, p, kind, to, expected, basis)
  <2>1. PICK c \in Client, p \in Path, kind \in Kinds :
          \E to \in (IF kind = "Rename" THEN Path \ {p} ELSE {p}),
             s \in {Unconditional} \cup (IF kind = "Modify" THEN seen[p] ELSE {}) :
               Submit(k, c, p, kind, to, s.number, s.cells)
    BY <1>1 DEF SubmitAny
  <2>2. PICK to \in (IF kind = "Rename" THEN Path \ {p} ELSE {p}),
             s \in {Unconditional} \cup (IF kind = "Modify" THEN seen[p] ELSE {}) :
               Submit(k, c, p, kind, to, s.number, s.cells)
    BY <2>1
  <2>3. kind \in AllKinds /\ to \in Path /\ (kind = "Rename" => to # p)
    BY GatewayAssumption
  <2>4. s.number \in Nat /\ s.cells \in Cells
    <3>1. Unconditional.number \in Nat /\ Unconditional.cells \in Cells
      BY DEF Unconditional, Cells
    <3>2. seen[p] \subseteq [number : Nat, cells : Cells]
      BY DEF GatewayInvariant, GatewayTypeOK
    <3>3. s = Unconditional \/ s \in [number : Nat, cells : Cells]
      BY <3>2
    <3> QED
      BY <3>1, <3>3
  <2>5. Shown(p, kind, s.number, s.cells)
    <3>1. seen[p] \subseteq [number : Nat, cells : Cells] /\ Unconditional.number = 0
      BY DEF GatewayInvariant, GatewayTypeOK, Unconditional
    <3>2. CASE s = Unconditional
      BY <3>1, <3>2 DEF Shown
    <3>3. CASE kind = "Modify" /\ s \in seen[p]
      <4>1. s = [number |-> s.number, cells |-> s.cells]
        BY <3>1, <3>3
      <4> QED
        BY <3>3, <4>1 DEF Shown
    <3>4. CASE kind # "Modify"
      BY <3>4 DEF Shown
    <3> QED
      BY <3>2, <3>3, <3>4
  <2> QED
    BY <2>2, <2>3, <2>4, <2>5
<1>2. ASSUME NEW k \in Command, Work(k)
      PROVE  Inner(k) \/ \E overflow \in BOOLEAN : Finish(k, overflow)
  BY <1>2, Zenon DEF Work, Inner
<1> QED
  BY <1>1, <1>2, Zenon DEF GatewayNext

LEMMA GatewayNextKeeps ==
  ASSUME GatewayInvariant, [GatewayNext]_allVars
  PROVE  GatewayInvariant'
<1>1. CASE CollaborationRequest /\ UNCHANGED gatewayVars
  BY <1>1, RequestKeeps
<1>2. ASSUME NEW k \in Command, NEW c \in Client, NEW p \in Path, NEW kind \in AllKinds,
             NEW to \in Path, NEW expected \in Nat, NEW basis \in Cells,
             kind = "Rename" => to # p,
             Submit(k, c, p, kind, to, expected, basis)
      PROVE  GatewayInvariant'
  BY <1>2, SubmitKeeps
<1>3. ASSUME NEW k \in Command, Inner(k)
      PROVE  GatewayInvariant'
  BY <1>3, InnerKeeps
<1>4. ASSUME NEW k \in Command, NEW overflow \in BOOLEAN, Finish(k, overflow)
      PROVE  GatewayInvariant'
  BY <1>4, FinishKeeps
<1>5. CASE UNCHANGED allVars
  <2>1. RoomsNext /\ UNCHANGED gatewayVars
    BY <1>5 DEF allVars, RoomsNext
  <2>2. IInv'
    BY <2>1, RoomsNextKeeps DEF GatewayInvariant
  <2>3. ws' = ws
    BY <1>5 DEF allVars, vars
  <2> QED
    BY <2>1, <2>2, <2>3 DEF GatewayInvariant, GatewayTypeOK, Entered, Guarding, InFlight, Opened,
       Entries, Counted, Accepted, Pending, gatewayVars, dispatchVars, roomVars, jupyterVars
<1> QED
  BY <1>1, <1>2, <1>3, <1>4, <1>5, GatewaySteps, Zenon

LEMMA GatewayInitEstablishes == GatewayInit => GatewayInvariant
<1> SUFFICES ASSUME GatewayInit PROVE GatewayInvariant
  OBVIOUS
<1>1. IInv
  BY InitEstablishes DEF GatewayInit
<1>2. Idle \in Task
  BY DEF Idle, Task, Stages, AllKinds, Cells
<1>3. GatewayTypeOK
  BY <1>2 DEF GatewayInit, GatewayTypeOK, Cells, NoCells
<1>4. ASSUME NEW k \in Command
      PROVE  Sent(task[k], executed[k]) /\ Entered(k) /\ Guarding(k)
  BY DEF GatewayInit, Idle, Sent, Entered, Guarding, InFlight
<1>5. ws.active = [p \in Path |-> 0]
  BY DEF GatewayInit, Init, NewWorkspace
<1>6. Entries = {} /\ \A p \in Path : Pending(p) = {}
  BY DEF GatewayInit, Entries, Pending, InFlight, Idle
<1>7. Opened /\ Counted /\ IsFiniteSet(Entries)
  BY <1>5, <1>6, FS_EmptySet DEF Opened, Counted
<1> QED
  BY <1>1, <1>3, <1>4, <1>7 DEF GatewayInvariant

\* The inductive invariant holds of every run of the gateway.
THEOREM GatewayInvariance == GatewaySpec => []GatewayInvariant
<1>1. GatewayInvariant /\ [GatewayNext]_allVars => GatewayInvariant'
  BY GatewayNextKeeps
<1> QED
  BY <1>1, GatewayInitEstablishes, PTL DEF GatewaySpec

\* What is accepted, locked, numbered and counted hangs together: as long as no
\* notebook is renamed, the `active` of a room is the number of its accepted
\* unfinished writes (Collaboration.accept, settle), so that hand-over and the
\* next command wait for them and for nothing else.
THEOREM DispatchInvHolds == GatewaySpec => []DispatchInv
<1>1. GatewayInvariant => DispatchInv
  BY DEF GatewayInvariant, DispatchInv, ActiveCountsWork, Counted, Pending
<1> QED
  BY <1>1, GatewayInvariance, PTL

\* However often a key is submitted, whatever fails and whenever replay data is
\* dropped, its code is sent to the kernel at most once (`begin`, Jupyter.execute).
THEOREM AtMostOnceHolds == GatewaySpec => []AtMostOnce
<1>1. GatewayInvariant => AtMostOnce
  BY DEF GatewayInvariant, AtMostOnce, Sent
<1> QED
  BY <1>1, GatewayInvariance, PTL

\* A step of dispatch changes the rooms the way Collaboration allows.
LEMMA GatewayRoomsNext ==
  ASSUME GatewayInvariant, [GatewayNext]_allVars
  PROVE  RoomsNext
<1>1. CASE CollaborationRequest /\ UNCHANGED gatewayVars
  BY <1>1, RequestSteps DEF GatewayInvariant, IInv
<1>2. ASSUME NEW k \in Command, NEW c \in Client, NEW p \in Path, NEW kind \in AllKinds,
             NEW to \in Path, NEW expected \in Nat, NEW basis \in Cells,
             Submit(k, c, p, kind, to, expected, basis)
      PROVE  RoomsNext
  BY <1>2, SubmitAccounts DEF GatewayInvariant, IInv
<1>3. ASSUME NEW k \in Command, Inner(k)
      PROVE  RoomsNext
  BY <1>3, InvReady, InnerSteps DEF InnerStep, RoomsNext, vars
<1>4. ASSUME NEW k \in Command, NEW overflow \in BOOLEAN, Finish(k, overflow)
      PROVE  RoomsNext
  BY <1>4, FinishAccounts
<1>5. CASE UNCHANGED allVars
  BY <1>5 DEF allVars, RoomsNext
<1> QED
  BY <1>1, <1>2, <1>3, <1>4, <1>5, GatewaySteps, Zenon

\* Whatever dispatch does with commands, its rooms follow the single-driver
\* policy (Collaboration), for snapshots of any revision; with
\* AuthorityImplemented, the gateway as a whole implements the Authority.
THEOREM RefinesCollaborationHolds ==
  ASSUME Revision = Nat \ {0}
  PROVE  GatewaySpec => RefinesCollaboration
<1>1. GatewayInit => Init
  BY DEF GatewayInit
<1>2. GatewayInvariant /\ [GatewayNext]_allVars => [Next]_vars
  BY GatewayRoomsNext, RoomsNextRefines
<1> QED
  BY <1>1, <1>2, GatewayInvariance, PTL DEF GatewaySpec, RefinesCollaboration, Spec

\* What is proved of the policy holds of the gateway, whatever its commands do:
\* it implements the Authority, the oldest survivor succeeds a driver, leases are
\* honoured and a rename keeps the subscriptions of a room.
THEOREM PolicyOfGateway ==
  ASSUME Revision = Nat \ {0}
  PROVE  GatewaySpec => /\ ImplementsAuthority /\ OldestSurvivorSucceeds
                        /\ LeaseHonoured /\ RenameKeepsSubscriptions
                        /\ []RolesInv /\ []UpToDateKnowsDriver
<1>1. GatewaySpec => Spec
  BY RefinesCollaborationHolds DEF RefinesCollaboration
<1> QED
  BY <1>1, AuthorityImplemented, OldestSurvivorSucceedsAlways, LeaseHonouredAlways,
     RenameKeepsSubscriptionsAlways, RolesHold, UpToDateKnowsDriverAlways

-----------------------------------------------------------------------------
(***************************************************************************)
(* Proofs, for any number of commands, clients, notebooks and limits, of   *)
(* what command dispatch (Gateway) promises about notebooks and kernels    *)
(* until a notebook is renamed: no change is stored over cells its client  *)
(* was not shown, snapshots follow the order of the writes, and no code is *)
(* sent to a kernel in which a lost execution may still be running.        *)
(*                                                                         *)
(* The first two rest on the path lock: what its holder read or wrote last *)
(* is what the notebook holds (Current), so that a revision number that    *)
(* was not outrun names the cells it was given for (Numbered, Based).  The *)
(* third rests on the admission: one command at a time works on a notebook *)
(* (Apart), an execution only where none is uncertain (Safe, Suspect), and *)
(* a notebook stops being uncertain when its kernel was restarted          *)
(* (Revived).                                                              *)
(***************************************************************************)

-----------------------------------------------------------------------------
(* The inductive invariant. *)

\* Which kinds of commands reach a stage.
Kinded(t) ==
  /\ t.stage = "kernel" => t.kind \in {"Interrupt", "Restart"}
  /\ t.stage = "create" => t.kind = "Setup"
  /\ t.stage = "prepare" => t.kind = "Modify"
  /\ t.stage = "save" => t.kind \in {"Modify", "Execute"}
  /\ t.stage \in {"progress", "send", "run"} => t.kind = "Execute"
  /\ t.stage \in {"move", "session", "rekey", "reread"} => t.kind = "Rename"

\* The stages in which a command goes by the notebook it read or wrote last, and
\* those of a restart whose kernel is new.
Knowing == {"prepare", "save", "progress", "send", "run", "final"}
Restarted(t) == t.stage \in {"read", "final"} \/ (t.stage = "finish" /\ t.ok)

\* Commands that work on the notebook, and executions about to be uncertain.
Works(t) == t.stage \notin {"none", "done"} /\ Writes(t.kind) /\ ~OutOfBand(t.kind)
Lost(t, p) == t.stage = "finish" /\ t.kind = "Execute" /\ ~t.ok /\ t.path = p

\* A path lock has one holder, and one command at a time works on a notebook.
Locked == \A j, k \in Command : \A p \in Path : Holds(j, p) /\ Holds(k, p) => j = k
Apart ==
  \A j, k \in Command :
    Works(task[j]) /\ Works(task[k]) /\ task[j].path = task[k].path => j = k

\* What the holder of the path lock read or wrote last is what is stored.
Current(k) ==
  task[k].stage \in Knowing /\ ~OutOfBand(task[k].kind) => task[k].raw = stored[task[k].path]

\* A conditional change names a snapshot its client was shown; once it may be
\* stored, these are the cells it was prepared against.
Based(k) ==
  InFlight(k) /\ task[k].kind = "Modify" /\ task[k].expected # 0 =>
    /\ [number |-> task[k].expected, cells |-> task[k].basis] \in seen[task[k].path]
    /\ task[k].stage = "save" => task[k].raw = task[k].basis

\* Snapshots are numbered up to the present one, which has its cells.
Numbered(p) ==
  \A s \in seen[p] : /\ s.number <= revisions[p].number
                     /\ s.number = revisions[p].number => s.cells = revisions[p].cells

\* Writes are counted, and no snapshot is ahead of them.
Written(p) ==
  /\ stored[p] <= writes
  /\ ~Accepted("Interrupt") => shown[p] <= stored[p]

\* An execution under way has a known kernel, a kernel that is not known is
\* uncertain or about to be, and a restart leaves a known kernel.
Safe(k) ==
  InFlight(k) /\ task[k].kind = "Execute" /\ task[k].stage # "finish" =>
    kernel[task[k].path] = "clean" /\ task[k].path \notin uncertain
Suspect(p) ==
  kernel[p] = "unknown" => p \in uncertain \/ \E k \in Command : Lost(task[k], p)
Revived(k) ==
  task[k].kind = "Restart" /\ Restarted(task[k]) => kernel[task[k].path] = "clean"

Orderliness ==
  /\ \A k \in Command : Kinded(task[k]) /\ Current(k) /\ Based(k) /\ Safe(k) /\ Revived(k)
  /\ \A p \in Path : Numbered(p) /\ Written(p) /\ Suspect(p)
  /\ Locked /\ Apart

DispatchInvariant ==
  /\ GatewayInvariant
  /\ ~Accepted("Rename") => Orderliness

-----------------------------------------------------------------------------
(* What a step of `run` may touch: its own notebook and kernel. *)

\* Task t becomes u; only the holder of the lock writes, what it knows after it
\* is what is stored, and what it commits is what it knew.
Stores(t, u) ==
  /\ \/ UNCHANGED <<stored, writes>>
     \/ t.stage # "queued" /\ ~OutOfBand(t.kind) /\ Write(t.path)
  /\ \/ UNCHANGED <<revisions, shown, seen>>
     \/ t.stage \in Knowing /\ Committed(t.path, t.raw)
  /\ u.stage \in Knowing /\ ~OutOfBand(t.kind) =>
       \/ u.raw = stored'[t.path]
       \/ t.stage \in Knowing /\ u.raw = t.raw /\ UNCHANGED stored
  /\ u.stage = "save" /\ t.kind = "Modify" /\ t.expected # 0 =>
       t.stage = "prepare" /\ Committed(t.path, t.raw)
         /\ u.raw = t.raw /\ t.expected = Number(t.path, t.raw)

\* A restart makes the kernel known; an execution that is given up makes it unknown.
Drives(t, u) ==
  /\ \/ UNCHANGED kernel
     \/ t.kind = "Restart" /\ kernel' = [kernel EXCEPT ![t.path] = "clean"]
     \/ /\ t.kind = "Execute" /\ u.stage = "finish" /\ ~u.ok
        /\ kernel' = [kernel EXCEPT ![t.path] = "unknown"]
  /\ t.kind = "Restart" /\ Restarted(u) =>
       kernel' = [kernel EXCEPT ![t.path] = "clean"] \/ (Restarted(t) /\ UNCHANGED kernel)

\* The task gets the lock before it does anything, and ends with its settlement.
Footprint(k) ==
  LET t == task[k]
      u == task'[k]
  IN
  /\ Kinded(u)
  /\ t.stage = "queued" => OutOfBand(t.kind) \/ \A j \in Command : ~Holds(j, t.path)
  /\ t.stage # "finish" /\ u.stage # "queued"
  /\ Stores(t, u) /\ Drives(t, u)

\* What a step may rely on.
Prepared(k) == Ready(k) /\ Kinded(task[k]) /\ task[k].kind # "Rename"

LEMMA PreparedTypes ==
  ASSUME NEW k \in Command, Prepared(k)
  PROVE  /\ DataOK /\ task[k] \in Task /\ GatewayTypeOK
         /\ Kinded(task[k]) /\ task[k].kind # "Rename"
         /\ InFlight(k) => task[k].path \in Path
BY ReadyTypes DEF Prepared

\* Another stage changes nothing else of a task.
LEMMA GotoFootprint ==
  ASSUME NEW k \in Command, Prepared(k), NEW s \in Stages \ {"none", "done"}, Goto(k, s)
  PROVE  LET u == task'[k] IN
         u.stage = s /\ u.kind = task[k].kind /\ u.raw = task[k].raw /\ u.ok = task[k].ok
<1>1. task'[k] = [task[k] EXCEPT !.stage = s]
  BY PreparedTypes DEF Goto, GatewayTypeOK
<1>2. task[k] \in Task
  BY PreparedTypes
<1> QED
  BY <1>1, <1>2 DEF Task

LEMMA AbortFootprint ==
  ASSUME NEW k \in Command, Prepared(k), Abort(k)
  PROVE  LET u == task'[k] IN
         /\ u.stage = "finish" /\ ~u.ok /\ Kinded(u)
         /\ ~Restarted(u) /\ u.stage \notin Knowing
<1>1. task'[k] = [task[k] EXCEPT !.stage = "finish", !.ok = FALSE]
  BY PreparedTypes DEF Abort, GatewayTypeOK
<1>2. task'[k].stage = "finish" /\ task'[k].ok = FALSE
  BY <1>1, PreparedTypes DEF Task
<1> QED
  BY <1>2 DEF Kinded, Restarted, Knowing

LEMMA StartFootprint ==
  ASSUME NEW k \in Command, Prepared(k), Start(k)
  PROVE  Footprint(k)
<1> DEFINE t == task[k]
           u == task'[k]
<1>1. /\ t.stage = "queued"
      /\ OutOfBand(t.kind) \/ \A j \in Command : ~Holds(j, t.path)
      /\ UNCHANGED <<stored, writes, kernel, revisions, shown, seen>>
  BY DEF Start, roomVars, jupyterVars
<1>2. CASE Abort(k)
  BY <1>1, <1>2, AbortFootprint DEF Footprint, Stores, Drives
<1>3. CASE Goto(k, FirstStage(t.kind))
  <2>1. /\ FirstStage(t.kind) \in Stages \ {"none", "done"}
    BY DEF FirstStage, Stages
  <2>2. u.stage = FirstStage(t.kind) /\ u.kind = t.kind /\ t.kind # "Rename" /\ t.kind \in AllKinds
    BY <1>3, <2>1, GotoFootprint, PreparedTypes DEF Task
  <2>3. /\ u.stage \notin Knowing \cup {"queued", "finish"} /\ Kinded(u)
        /\ t.kind = "Restart" => ~Restarted(u)
    BY <2>2 DEF FirstStage, Kinded, Restarted, Knowing, AllKinds
  <2> HIDE DEF t, u
  <2>4. Stores(t, u) /\ Drives(t, u)
    BY <1>1, <2>3 DEF Stores, Drives, Knowing
  <2> QED
    BY <1>1, <2>3, <2>4 DEF Footprint, t, u
<1> QED
  BY <1>2, <1>3 DEF Start

LEMMA KernelActionFootprint ==
  ASSUME NEW k \in Command, Prepared(k), KernelAction(k)
  PROVE  Footprint(k)
<1> DEFINE t == task[k]
           u == task'[k]
<1>1. /\ t.stage = "kernel" /\ UNCHANGED <<stored, writes, revisions, shown, seen>>
      /\ kernel' = IF t.kind = "Restart" THEN [kernel EXCEPT ![t.path] = "clean"] ELSE kernel
      /\ Goto(k, "read")
  BY DEF KernelAction, roomVars
<1>2. u.stage = "read" /\ u.kind = t.kind
  BY <1>1, GotoFootprint DEF Stages
<1>3. Kinded(u)
  BY <1>2 DEF Kinded
<1> HIDE DEF t, u
<1>4. Stores(t, u) /\ Drives(t, u)
  BY <1>1, <1>2 DEF Stores, Drives, Knowing
<1> QED
  BY <1>1, <1>2, <1>3, <1>4 DEF Footprint, t, u

LEMMA CreateFootprint ==
  ASSUME NEW k \in Command, Prepared(k), Create(k)
  PROVE  Footprint(k)
<1> DEFINE t == task[k]
           u == task'[k]
<1>1. /\ t.stage = "create" /\ UNCHANGED <<kernel, revisions, shown, seen>>
      /\ Write(t.path) \/ UNCHANGED <<stored, writes>>
      /\ Goto(k, "read")
  BY DEF Create, roomVars
<1>2. u.stage = "read" /\ u.kind = t.kind /\ t.kind = "Setup"
  <2>1. "read" \in Stages \ {"none", "done"} /\ t.kind = "Setup"
    BY <1>1, PreparedTypes DEF Stages, Kinded
  <2> QED
    BY <1>1, <2>1, GotoFootprint
<1>3. Kinded(u)
  BY <1>2 DEF Kinded
<1> HIDE DEF t, u
<1>4. Stores(t, u) /\ Drives(t, u)
  BY <1>1, <1>2 DEF Stores, Drives, Knowing, OutOfBand
<1> QED
  BY <1>1, <1>2, <1>3, <1>4 DEF Footprint, t, u

LEMMA ReadFootprint ==
  ASSUME NEW k \in Command, Prepared(k), Read(k)
  PROVE  Footprint(k)
<1> DEFINE t == task[k]
           u == task'[k]
<1>1. /\ t.stage = "read" /\ UNCHANGED <<stored, writes, kernel, revisions, shown, seen>>
      /\ t.kind \in AllKinds /\ t.kind # "Rename" /\ t \in Task
  BY PreparedTypes DEF Read, roomVars, jupyterVars, Kinded, Task
<1>2. CASE Abort(k)
  BY <1>1, <1>2, AbortFootprint DEF Footprint, Stores, Drives
<1>3. CASE ~Abort(k)
  <2>1. task' = [task EXCEPT ![k] = [t EXCEPT !.raw = stored[t.path], !.stage = AfterRead(t.kind)]]
    BY <1>1, <1>3 DEF Read
  <2>2. u = [t EXCEPT !.raw = stored[t.path], !.stage = AfterRead(t.kind)]
    BY <2>1, PreparedTypes DEF GatewayTypeOK
  <2>3. u.raw = stored[t.path] /\ u.stage = AfterRead(t.kind) /\ u.kind = t.kind
    BY <1>1, <2>2 DEF Task
  <2>4. /\ Kinded(u) /\ u.stage \in {"prepare", "save", "final"}
        /\ t.kind = "Modify" => u.stage = "prepare"
    BY <1>1, <2>3 DEF Kinded, AfterRead, AllKinds
  <2>5. Restarted(t)
    BY <1>1 DEF Restarted
  <2> HIDE DEF t, u
  <2>6. Stores(t, u) /\ Drives(t, u)
    BY <1>1, <2>3, <2>4, <2>5 DEF Stores, Drives
  <2> QED
    BY <1>1, <2>4, <2>6 DEF Footprint, t, u
<1> QED
  BY <1>2, <1>3

LEMMA PrepareFootprint ==
  ASSUME NEW k \in Command, Prepared(k), Prepare(k)
  PROVE  Footprint(k)
<1> DEFINE t == task[k]
           u == task'[k]
<1>1. /\ t.stage = "prepare" /\ t.kind = "Modify" /\ UNCHANGED <<stored, writes, kernel>>
      /\ Committed(t.path, t.raw) /\ t.expected \in Nat
  BY PreparedTypes DEF Prepare, jupyterVars, Kinded, Task
<1>2. CASE Abort(k)
  BY <1>1, <1>2, AbortFootprint DEF Footprint, Stores, Drives, Knowing
<1>3. CASE t.expected \in {0, Number(t.path, t.raw)} /\ Goto(k, "save")
  <2>1. "save" \in Stages \ {"none", "done"}
    BY DEF Stages
  <2>2. u.stage = "save" /\ u.kind = t.kind /\ u.raw = t.raw
    BY <1>3, <2>1, GotoFootprint
  <2>3. Kinded(u)
    BY <1>1, <2>2 DEF Kinded
  <2> HIDE DEF t, u
  <2>4. Stores(t, u) /\ Drives(t, u)
    BY <1>1, <1>3, <2>2 DEF Stores, Drives, Knowing
  <2> QED
    BY <1>1, <2>2, <2>3, <2>4 DEF Footprint, t, u
<1> QED
  BY <1>2, <1>3 DEF Prepare

LEMMA SaveFootprint ==
  ASSUME NEW k \in Command, Prepared(k), Save(k)
  PROVE  Footprint(k)
<1> DEFINE t == task[k]
           u == task'[k]
           s == IF t.kind = "Execute" THEN "progress" ELSE "final"
           w == writes + 1
           n == t.saves + 1
           x == [t EXCEPT !.raw = w, !.saves = n, !.stage = s]
<1>1. /\ t.stage = "save" /\ t.kind \in {"Modify", "Execute"} /\ Write(t.path)
      /\ UNCHANGED <<kernel, revisions, shown, seen>> /\ t \in Task /\ t.path \in Path
      /\ task' = [task EXCEPT ![k] = x]
  BY PreparedTypes DEF Save, roomVars, Kinded, InFlight
<1>2. u = x
  BY <1>1, PreparedTypes DEF GatewayTypeOK
<1>3. u.raw = w /\ u.stage = s /\ u.kind = t.kind
  <2> HIDE DEF s, w, n, t, u
  <2> QED
    BY <1>1, <1>2 DEF Task
<1>4. stored'[t.path] = writes + 1
  BY <1>1, PreparedTypes DEF Write, DataOK
<1>5. Kinded(u)
  BY <1>1, <1>3 DEF Kinded
<1>6. ~Restarted(u) \/ t.kind # "Restart"
  BY <1>1
<1> HIDE DEF t, u, x
<1>7. Stores(t, u) /\ Drives(t, u)
  BY <1>1, <1>3, <1>4 DEF Stores, Drives, OutOfBand
<1> QED
  BY <1>1, <1>3, <1>5, <1>7 DEF Footprint, t, u

\* What Disturbed leaves in the kernel when the execution is given up.
LEMMA DisturbedDrives ==
  ASSUME NEW k \in Command, Prepared(k), Abort(k), kernel' = Disturbed(k)
  PROVE  Drives(task[k], task'[k])
BY AbortFootprint DEF Drives, Disturbed

LEMMA SaveUnacknowledgedFootprint ==
  ASSUME NEW k \in Command, Prepared(k), SaveUnacknowledged(k)
  PROVE  Footprint(k)
<1> DEFINE t == task[k]
           u == task'[k]
<1>1. /\ t.stage = "save" /\ t.kind \in {"Modify", "Execute"} /\ Write(t.path) /\ Abort(k)
      /\ UNCHANGED <<revisions, shown, seen>> /\ kernel' = Disturbed(k)
  BY PreparedTypes DEF SaveUnacknowledged, roomVars, Kinded
<1>2. u.stage = "finish" /\ Kinded(u)
  BY <1>1, AbortFootprint
<1>3. Drives(t, u)
  BY <1>1, DisturbedDrives
<1>4. Stores(t, u)
  BY <1>1, <1>2 DEF Stores, Knowing, OutOfBand
<1> QED
  BY <1>1, <1>2, <1>3, <1>4 DEF Footprint

LEMMA ProgressFootprint ==
  ASSUME NEW k \in Command, Prepared(k), Progress(k)
  PROVE  Footprint(k)
<1> DEFINE t == task[k]
           u == task'[k]
<1>1. /\ t.stage = "progress" /\ t.kind = "Execute" /\ UNCHANGED <<stored, writes, kernel>>
      /\ Committed(t.path, t.raw)
  BY PreparedTypes DEF Progress, jupyterVars, Kinded
<1>2. CASE Abort(k)
  BY <1>1, <1>2, AbortFootprint DEF Footprint, Stores, Drives, Knowing
<1>3. ASSUME NEW s \in {"send", "final", "run"}, Goto(k, s)
      PROVE  Footprint(k)
  <2>1. s \in Stages \ {"none", "done"}
    BY DEF Stages
  <2>2. u.stage = s /\ u.kind = t.kind /\ u.raw = t.raw
    BY <1>3, <2>1, GotoFootprint
  <2>3. Kinded(u)
    BY <1>1, <2>2 DEF Kinded
  <2> HIDE DEF t, u
  <2>4. Stores(t, u) /\ Drives(t, u)
    BY <1>1, <2>2 DEF Stores, Drives, Knowing
  <2> QED
    BY <1>1, <2>2, <2>3, <2>4 DEF Footprint, t, u
<1> QED
  BY <1>2, <1>3 DEF Progress

\* The steps of an execution that leave notebook and room alone.
LEMMA QuietFootprint ==
  ASSUME NEW k \in Command, Prepared(k), NEW s \in {"run", "save"},
         task[k].stage \in {"send", "run"},
         task'[k].stage = s, task'[k].kind = task[k].kind, task'[k].raw = task[k].raw,
         UNCHANGED <<stored, writes, kernel, revisions, shown, seen>>
  PROVE  Footprint(k)
<1> DEFINE t == task[k]
           u == task'[k]
<1>1. t.kind = "Execute"
  BY PreparedTypes DEF Kinded
<1>2. Kinded(u)
  BY <1>1 DEF Kinded
<1>3. Stores(t, u) /\ Drives(t, u)
  BY <1>1 DEF Stores, Drives, Knowing
<1> QED
  BY <1>2, <1>3 DEF Footprint

LEMMA SendFootprint ==
  ASSUME NEW k \in Command, Prepared(k), Send(k)
  PROVE  Footprint(k)
<1>1. "run" \in Stages \ {"none", "done"}
  BY DEF Stages
<1> QED
  BY <1>1, GotoFootprint, QuietFootprint DEF Send, roomVars

LEMMA OutputFootprint ==
  ASSUME NEW k \in Command, Prepared(k), Output(k)
  PROVE  Footprint(k)
<1>1. "save" \in Stages \ {"none", "done"}
  BY DEF Stages
<1> QED
  BY <1>1, GotoFootprint, QuietFootprint DEF Output, roomVars, jupyterVars

LEMMA CompleteFootprint ==
  ASSUME NEW k \in Command, Prepared(k), Complete(k)
  PROVE  Footprint(k)
<1> DEFINE x == [task[k] EXCEPT !.stage = "save", !.complete = TRUE]
<1>1. task[k] \in Task /\ task'[k] = x
  BY PreparedTypes DEF Complete, GatewayTypeOK
<1>2. x.stage = "save" /\ x.kind = task[k].kind /\ x.raw = task[k].raw
  BY <1>1 DEF Task
<1> HIDE DEF x
<1> QED
  BY <1>1, <1>2, QuietFootprint DEF Complete, roomVars, jupyterVars

LEMMA FinalFootprint ==
  ASSUME NEW k \in Command, Prepared(k), Final(k)
  PROVE  Footprint(k)
<1> DEFINE t == task[k]
           u == task'[k]
           x == [t EXCEPT !.stage = "finish", !.number = Number(t.path, t.raw)]
<1>1. /\ t.stage = "final" /\ UNCHANGED <<stored, writes, kernel>>
      /\ Committed(t.path, t.raw)
      /\ task' = [task EXCEPT ![k] = x] \/ Abort(k)
  BY PreparedTypes DEF Final, jupyterVars
<1>2. CASE Abort(k)
  BY <1>1, <1>2, AbortFootprint DEF Footprint, Stores, Drives, Knowing
<1>3. CASE task' = [task EXCEPT ![k] = x]
  <2>1. u = x /\ t \in Task
    BY <1>3, PreparedTypes DEF GatewayTypeOK
  <2>2. u.stage = "finish"
    BY <2>1 DEF Task
  <2>3. Kinded(u) /\ Restarted(t)
    BY <1>1, <2>2 DEF Kinded, Restarted
  <2> HIDE DEF t, u, x
  <2>4. Stores(t, u) /\ Drives(t, u)
    BY <1>1, <2>2, <2>3 DEF Stores, Drives, Knowing
  <2> QED
    BY <1>1, <2>2, <2>3, <2>4 DEF Footprint, t, u
<1> QED
  BY <1>1, <1>2, <1>3

LEMMA FailFootprint ==
  ASSUME NEW k \in Command, Prepared(k), Fail(k)
  PROVE  Footprint(k)
<1> DEFINE t == task[k]
           u == task'[k]
<1>1. /\ t.stage \notin {"queued", "finish"} /\ Abort(k) /\ kernel' = Disturbed(k)
      /\ UNCHANGED <<stored, writes, revisions, shown, seen>>
  BY DEF Fail, roomVars
<1>2. u.stage = "finish" /\ Kinded(u)
  BY <1>1, AbortFootprint
<1>3. Drives(t, u)
  BY <1>1, DisturbedDrives
<1>4. Stores(t, u)
  BY <1>1, <1>2 DEF Stores, Knowing
<1> QED
  BY <1>1, <1>2, <1>3, <1>4 DEF Footprint

LEMMA InnerFootprint ==
  ASSUME NEW k \in Command, Prepared(k), Inner(k)
  PROVE  Footprint(k)
<1>1. ~Move(k) /\ ~MoveSession(k) /\ ~Rekey(k)
  BY PreparedTypes DEF Kinded, Move, MoveSession, Rekey
<1> QED
  BY <1>1, StartFootprint, KernelActionFootprint, CreateFootprint, ReadFootprint,
     PrepareFootprint, SaveFootprint, SaveUnacknowledgedFootprint, ProgressFootprint,
     SendFootprint, OutputFootprint, CompleteFootprint, FinalFootprint, FailFootprint DEF Inner

-----------------------------------------------------------------------------
(* A step of `run` keeps the invariant. *)

\* A step of a command that is no rename.
Step(k) ==
  /\ GatewayTypeOK /\ GatewayTypeOK'
  /\ InnerStep(k) /\ Footprint(k)
  /\ task[k].path \in Path

LEMMA InnerIsStep ==
  ASSUME GatewayInvariant, Orderliness, ~Accepted("Rename"), NEW k \in Command, Inner(k)
  PROVE  Step(k)
<1>1. Ready(k) /\ GatewayTypeOK
  BY InvReady DEF Ready
<1>2. InnerStep(k)
  BY <1>1, InnerSteps
<1>3. Prepared(k)
  BY <1>1 DEF Prepared, Orderliness, Accepted
<1>4. GatewayInvariant'
  BY InnerKeeps
<1> QED
  BY <1>1, <1>2, <1>3, <1>4, InnerFootprint, ReadyTypes
     DEF Step, GatewayInvariant, InnerStep, Advances

LEMMA StepTasks ==
  ASSUME NEW k \in Command, Step(k)
  PROVE  /\ \A j \in Command \ {k} : task'[j] = task[j]
         /\ LET t == task[k]
                u == task'[k]
            IN /\ Identity(t, u)
               /\ t.stage \notin {"none", "done", "finish"}
               /\ u.stage \notin {"none", "done", "queued"}
BY DEF Step, InnerStep, Footprint, Advances, InFlight

LEMMA StepLocks ==
  ASSUME NEW k \in Command, Step(k), Locked, Apart
  PROVE  Locked' /\ Apart'
<1>1. ASSUME NEW j \in Command, NEW p \in Path, Holds(j, p)', Holds(k, p)'
      PROVE  j = k
  <2>1. SUFFICES ASSUME j # k PROVE FALSE
    OBVIOUS
  <2>2. Holds(j, p)
    BY <1>1, <2>1, StepTasks DEF Holds, InFlight
  <2>3. task[k].path = p /\ ~OutOfBand(task[k].kind)
    BY <1>1, StepTasks DEF Holds, Identity
  <2>4. task[k].stage # "queued"
    BY <2>2, <2>3 DEF Step, Footprint
  <2>5. Holds(k, p)
    BY <2>3, <2>4, StepTasks DEF Holds, InFlight
  <2> QED
    BY <2>1, <2>2, <2>5 DEF Locked
<1>2. ASSUME NEW i \in Command, NEW j \in Command, NEW p \in Path,
             i # k, j # k, Holds(i, p)', Holds(j, p)'
      PROVE  i = j
  BY <1>2, StepTasks DEF Holds, InFlight, Locked
<1>3. \A j \in Command : /\ Works(task'[j]) <=> Works(task[j])
                         /\ task'[j].path = task[j].path
  <2> TAKE j \in Command
  <2> QED
    BY StepTasks DEF Works, Identity
<1> QED
  BY <1>1, <1>2, <1>3 DEF Locked, Apart

LEMMA StepCurrent ==
  ASSUME NEW k \in Command, Step(k), Locked, \A j \in Command : Current(j),
         NEW j \in Command
  PROVE  Current(j)'
<1> DEFINE t == task[k]
           u == task'[k]
<1>1. /\ Identity(t, u) /\ Stores(t, u) /\ t.stage \notin {"none", "done"}
      /\ stored \in [Path -> Cells] /\ t.path \in Path
  BY StepTasks DEF Step, Footprint, GatewayTypeOK
<1>2. CASE j = k
  <2> SUFFICES ASSUME u.stage \in Knowing, ~OutOfBand(u.kind)
               PROVE  u.raw = stored'[u.path]
    BY <1>2 DEF Current
  <2> HIDE DEF u
  <2>1. u.kind = t.kind /\ u.path = t.path
    BY <1>1 DEF Identity
  <2>2. \/ u.raw = stored'[t.path]
        \/ t.stage \in Knowing /\ u.raw = t.raw /\ stored' = stored
    BY <1>1, <2>1 DEF Stores
  <2>3. Current(k)
    OBVIOUS
  <2> QED
    BY <2>1, <2>2, <2>3 DEF Current
<1>3. CASE j # k
  <2> SUFFICES ASSUME task[j].stage \in Knowing, ~OutOfBand(task[j].kind)
               PROVE  task[j].raw = stored'[task[j].path]
    BY <1>3, StepTasks DEF Current
  <2>1. task[j].raw = stored[task[j].path]
    BY DEF Current
  <2>2. CASE stored' = stored
    BY <2>1, <2>2
  <2>3. CASE t.stage # "queued" /\ ~OutOfBand(t.kind) /\ Write(t.path)
    <3>1. Holds(k, t.path)
      BY <1>1, <2>3 DEF Holds, InFlight
    <3>2. Holds(j, task[j].path)
      BY DEF Holds, InFlight, Knowing
    <3>3. task[j].path # t.path
      BY <1>1, <1>3, <3>1, <3>2 DEF Locked
    <3> QED
      BY <1>1, <2>1, <2>3, <3>3 DEF Write
  <2> QED
    BY <1>1, <2>2, <2>3 DEF Stores
<1> QED
  BY <1>2, <1>3

\* `committed` gives cells that are new a number of their own.
LEMMA CommittedNumbers ==
  ASSUME GatewayTypeOK, NEW q \in Path, NEW cells \in Cells, Committed(q, cells),
         \A p \in Path : Numbered(p)
  PROVE  /\ \A p \in Path : Numbered(p)' /\ seen[p] \subseteq seen'[p]
         /\ revisions'[q] = [cells |-> cells, number |-> Number(q, cells)]
         /\ shown' = shown \/ shown' = [shown EXCEPT ![q] = cells]
<1> DEFINE n == Number(q, cells)
           s == [number |-> n, cells |-> cells]
<1>1. /\ revisions \in [Path -> [cells : Cells, number : Nat]]
      /\ seen \in [Path -> SUBSET [number : Nat, cells : Cells]]
      /\ revisions' = [revisions EXCEPT ![q] = [cells |-> cells, number |-> n]]
      /\ \/ shown' = shown /\ seen' = seen
         \/ shown' = [shown EXCEPT ![q] = cells] /\ seen' = [seen EXCEPT ![q] = @ \cup {s}]
  BY DEF Committed, GatewayTypeOK
<1>2. /\ n \in Nat
      /\ n > revisions[q].number \/ (n = revisions[q].number /\ cells = revisions[q].cells)
  <2>1. revisions[q].number \in Nat
    BY <1>1
  <2> QED
    BY <2>1 DEF Number
<1> HIDE DEF n
<1>3. \A p \in Path : seen[p] \subseteq seen'[p]
  BY <1>1
<1>4. revisions'[q] = [cells |-> cells, number |-> n]
  BY <1>1
<1>5. ASSUME NEW p \in Path, NEW x \in seen'[p]
      PROVE  /\ x.number <= revisions'[p].number
             /\ x.number = revisions'[p].number => x.cells = revisions'[p].cells
  <2>1. x \in seen[p] \/ (p = q /\ x = s)
    BY <1>1, <1>5
  <2>2. CASE x \in seen[p] /\ p = q
    <3>1. /\ x.number <= revisions[q].number
          /\ x.number = revisions[q].number => x.cells = revisions[q].cells
      BY <2>2 DEF Numbered
    <3>2. x.number \in Nat /\ revisions[q].number \in Nat
      BY <1>1, <2>2
    <3> QED
      BY <1>2, <1>4, <2>2, <3>1, <3>2
  <2>3. CASE x \in seen[p] /\ p # q
    <3>1. revisions'[p] = revisions[p]
      BY <1>1, <2>3
    <3> QED
      BY <2>3, <3>1 DEF Numbered
  <2>4. CASE p = q /\ x = s
    BY <1>2, <1>4, <2>4
  <2> QED
    BY <2>1, <2>2, <2>3, <2>4
<1> QED
  BY <1>1, <1>3, <1>4, <1>5 DEF Numbered, n

LEMMA StepNumbered ==
  ASSUME NEW k \in Command, Step(k), \A p \in Path : Numbered(p)
  PROVE  \A p \in Path : Numbered(p)' /\ seen[p] \subseteq seen'[p]
<1>1. /\ Stores(task[k], task'[k]) /\ GatewayTypeOK /\ task[k].path \in Path
      /\ task[k].raw \in Cells
  BY DEF Step, Footprint, GatewayTypeOK, Task
<1>2. CASE Committed(task[k].path, task[k].raw)
  BY <1>1, <1>2, CommittedNumbers
<1>3. CASE UNCHANGED <<revisions, shown, seen>>
  BY <1>3 DEF Numbered
<1> QED
  BY <1>1, <1>2, <1>3 DEF Stores

LEMMA StepBased ==
  ASSUME NEW k \in Command, Step(k), \A p \in Path : Numbered(p),
         \A j \in Command : Based(j) /\ (InFlight(j) => task[j].path \in Path),
         NEW j \in Command
  PROVE  Based(j)'
<1> DEFINE t == task[j]
           u == task'[j]
           s == [number |-> t.expected, cells |-> t.basis]
<1> SUFFICES ASSUME u.stage \notin {"none", "done"}, u.kind = "Modify", u.expected # 0
             PROVE  /\ [number |-> u.expected, cells |-> u.basis] \in seen'[u.path]
                    /\ u.stage = "save" => u.raw = u.basis
  BY DEF Based, InFlight
<1>1. /\ u.kind = t.kind /\ u.path = t.path /\ u.expected = t.expected /\ u.basis = t.basis
      /\ t.stage \notin {"none", "done"} /\ t.path \in Path
  BY StepTasks DEF Identity, InFlight
<1>2. s \in seen[t.path] /\ (t.stage = "save" => t.raw = t.basis)
  BY <1>1 DEF Based, InFlight
<1>3. /\ s \in seen'[t.path]
      /\ \A p \in Path : \A x \in seen'[p] :
           x.number = revisions'[p].number => x.cells = revisions'[p].cells
  BY <1>1, <1>2, StepNumbered DEF Numbered
<1>4. ASSUME u.stage = "save" PROVE u.raw = u.basis
  <2>1. CASE j # k
    BY <1>2, <1>4, <2>1, StepTasks
  <2>2. CASE j = k
    <3>1. /\ Committed(t.path, t.raw) /\ u.raw = t.raw /\ t.expected = Number(t.path, t.raw)
          /\ t.raw \in Cells /\ GatewayTypeOK
      BY <1>1, <1>4, <2>2 DEF Step, Footprint, Stores, GatewayTypeOK, Task
    <3>2. revisions'[t.path] = [cells |-> t.raw, number |-> t.expected]
      BY <1>1, <3>1, CommittedNumbers
    <3>3. s.number = revisions'[t.path].number => s.cells = revisions'[t.path].cells
      BY <1>1, <1>3
    <3> QED
      BY <1>1, <3>1, <3>2, <3>3
  <2> QED
    BY <2>1, <2>2
<1> QED
  BY <1>1, <1>3, <1>4

\* Until an interrupt is accepted, what is committed is what is stored.
LEMMA StepCommits ==
  ASSUME NEW k \in Command, Step(k), Current(k), \A p \in Path : Numbered(p),
         ~Accepted("Interrupt")
  PROVE  shown' = shown
           \/ shown' = [shown EXCEPT ![task[k].path] = stored[task[k].path]]
<1>1. /\ Stores(task[k], task'[k]) /\ GatewayTypeOK /\ task[k].path \in Path
      /\ task[k].raw \in Cells
  BY DEF Step, Footprint, GatewayTypeOK, Task
<1>2. CASE task[k].stage \in Knowing /\ Committed(task[k].path, task[k].raw)
  <2>1. task[k].raw = stored[task[k].path]
    BY <1>2 DEF Current, OutOfBand, Accepted
  <2>2. shown' = shown \/ shown' = [shown EXCEPT ![task[k].path] = task[k].raw]
    BY <1>1, <1>2, CommittedNumbers
  <2> QED
    BY <2>1, <2>2
<1>3. CASE UNCHANGED <<revisions, shown, seen>>
  BY <1>3
<1> QED
  BY <1>1, <1>2, <1>3 DEF Stores

LEMMA StepAccepts ==
  ASSUME NEW k \in Command, Step(k), NEW kind \in AllKinds
  PROVE  Accepted(kind)' <=> Accepted(kind)
<1>1. \A j \in Command : task'[j].kind = task[j].kind
  <2> TAKE j \in Command
  <2> QED
    BY StepTasks DEF Identity
<1> QED
  BY <1>1 DEF Accepted

LEMMA StepWritten ==
  ASSUME NEW k \in Command, Step(k), Current(k),
         \A p \in Path : Numbered(p) /\ Written(p), NEW p \in Path
  PROVE  Written(p)'
<1>1. /\ stored \in [Path -> Cells] /\ shown \in [Path -> Cells] /\ writes \in Nat
      /\ task[k].path \in Path /\ stored[p] <= writes
  BY DEF Step, GatewayTypeOK, Written
<1>2. stored[p] \in Int /\ shown[p] \in Int
  BY <1>1 DEF Cells, NoCells
<1>3. stored'[p] <= writes' /\ stored[p] <= stored'[p] /\ stored'[p] \in Int
  <2>1. CASE UNCHANGED <<stored, writes>>
    BY <1>1, <1>2, <2>1
  <2>2. CASE Write(task[k].path)
    <3>1. /\ writes' = writes + 1
          /\ stored'[p] = IF p = task[k].path THEN writes + 1 ELSE stored[p]
      BY <1>1, <2>2 DEF Write
    <3> QED
      BY <1>1, <1>2, <3>1
  <2> QED
    BY <2>1, <2>2 DEF Step, Footprint, Stores
<1>4. ASSUME ~Accepted("Interrupt")' PROVE shown'[p] <= stored'[p]
  <2>1. ~Accepted("Interrupt")
    BY <1>4, StepAccepts DEF AllKinds
  <2>2. shown[p] <= stored[p]
    BY <2>1 DEF Written
  <2>3. shown'[p] = shown[p] \/ shown'[p] = stored[p]
    BY <1>1, <2>1, StepCommits
  <2> QED
    BY <1>2, <1>3, <2>2, <2>3
<1> QED
  BY <1>3, <1>4 DEF Written

\* Whoever works on a notebook is not disturbed by the execution of another.
LEMMA StepApart ==
  ASSUME NEW k \in Command, Step(k), Apart, NEW j \in Command, j # k, Works(task[j])
  PROVE  LET p == task[j].path IN
         p \in Path => kernel'[p] = kernel[p] \/ kernel'[p] = "clean"
<1> DEFINE t == task[k]
           u == task'[k]
<1> SUFFICES ASSUME task[j].path \in Path
             PROVE  kernel'[task[j].path] \in {kernel[task[j].path], "clean"}
  OBVIOUS
<1>1. Drives(t, u) /\ kernel \in [Path -> {"clean", "unknown"}] /\ t.path \in Path
  BY DEF Step, Footprint, GatewayTypeOK
<1>2. CASE kernel' = kernel \/ kernel' = [kernel EXCEPT ![t.path] = "clean"]
  BY <1>1, <1>2
<1>3. CASE t.kind = "Execute" /\ kernel' = [kernel EXCEPT ![t.path] = "unknown"]
  <2>1. Works(t)
    BY <1>3, StepTasks DEF Works, Writes, OutOfBand
  <2>2. t.path # task[j].path
    BY <2>1 DEF Apart
  <2> QED
    BY <1>1, <1>3, <2>2
<1> QED
  BY <1>1, <1>2, <1>3 DEF Drives

LEMMA StepSafe ==
  ASSUME NEW k \in Command, Step(k), Apart, NEW j \in Command,
         Safe(j), InFlight(j) => task[j].path \in Path
  PROVE  Safe(j)'
<1> DEFINE t == task[j]
           u == task'[j]
<1> SUFFICES ASSUME u.stage \notin {"none", "done", "finish"}, u.kind = "Execute"
             PROVE  kernel'[u.path] = "clean" /\ u.path \notin uncertain'
  BY DEF Safe, InFlight
<1>1. /\ u.kind = t.kind /\ u.path = t.path /\ t.stage \notin {"none", "done", "finish"}
      /\ uncertain' = uncertain
  BY StepTasks DEF Identity, Step, InnerStep
<1>2. kernel[t.path] = "clean" /\ t.path \notin uncertain /\ t.path \in Path
  BY <1>1 DEF Safe, InFlight
<1>3. CASE j = k
  <2>1. Drives(t, u)
    BY <1>3 DEF Step, Footprint
  <2>2. kernel' = kernel
    BY <1>1, <2>1 DEF Drives
  <2> QED
    BY <1>1, <1>2, <2>2
<1>4. CASE j # k
  <2>1. Works(t)
    BY <1>1 DEF Works, Writes, OutOfBand
  <2> QED
    BY <1>1, <1>2, <1>4, <2>1, StepApart
<1> QED
  BY <1>3, <1>4

LEMMA StepSuspect ==
  ASSUME NEW k \in Command, Step(k), NEW p \in Path, Suspect(p)
  PROVE  Suspect(p)'
<1> DEFINE t == task[k]
           u == task'[k]
<1> SUFFICES ASSUME kernel'[p] = "unknown"
             PROVE  p \in uncertain' \/ \E j \in Command : Lost(task'[j], p)
  BY DEF Suspect
<1>1. /\ Drives(t, u) /\ kernel \in [Path -> {"clean", "unknown"}] /\ uncertain' = uncertain
      /\ u.kind = t.kind /\ u.path = t.path
  BY StepTasks DEF Step, Footprint, GatewayTypeOK, InnerStep, Identity
<1>2. CASE kernel[p] = "unknown"
  <2>1. CASE p \in uncertain
    BY <1>1, <2>1
  <2>2. CASE \E j \in Command : Lost(task[j], p)
    <3>1. PICK j \in Command : Lost(task[j], p)
      BY <2>2
    <3>2. task'[j] = task[j]
      BY <3>1, StepTasks DEF Lost
    <3> QED
      BY <3>1, <3>2
  <2> QED
    BY <1>2, <2>1, <2>2 DEF Suspect
<1>3. CASE kernel[p] # "unknown"
  <2>1. t.kind = "Execute" /\ u.stage = "finish" /\ ~u.ok /\ t.path = p
    BY <1>1, <1>3 DEF Drives
  <2>2. Lost(u, p)
    BY <1>1, <2>1 DEF Lost
  <2> QED
    BY <2>2
<1> QED
  BY <1>2, <1>3

LEMMA StepRevived ==
  ASSUME NEW k \in Command, Step(k), Apart, NEW j \in Command,
         Revived(j), InFlight(j) => task[j].path \in Path
  PROVE  Revived(j)'
<1> DEFINE t == task[j]
           u == task'[j]
<1> SUFFICES ASSUME u.kind = "Restart", Restarted(u)
             PROVE  kernel'[u.path] = "clean"
  BY DEF Revived
<1>1. /\ u.kind = t.kind /\ u.path = t.path /\ t.stage \notin {"none", "done"}
      /\ t.path \in Path /\ kernel \in [Path -> {"clean", "unknown"}]
  BY StepTasks DEF Identity, InFlight, Restarted, Step, GatewayTypeOK
<1>2. CASE j = k
  <2>1. Drives(t, u)
    BY <1>2 DEF Step, Footprint
  <2> HIDE DEF t, u
  <2>2. kernel' = [kernel EXCEPT ![t.path] = "clean"] \/ (Restarted(t) /\ kernel' = kernel)
    BY <1>1, <2>1 DEF Drives
  <2>3. Restarted(t) => kernel[t.path] = "clean"
    BY <1>1 DEF Revived, t
  <2> QED
    BY <1>1, <2>2, <2>3
<1>3. CASE j # k
  <2>1. u = t
    BY <1>3, StepTasks
  <2>2. Works(t) /\ kernel[t.path] = "clean"
    BY <1>1, <2>1 DEF Works, Writes, OutOfBand, Revived
  <2> QED
    BY <1>1, <1>3, <2>2, StepApart
<1> QED
  BY <1>2, <1>3

LEMMA InnerOrderly ==
  ASSUME GatewayInvariant, Orderliness, ~Accepted("Rename"), NEW k \in Command, Inner(k)
  PROVE  Orderliness'
<1>1. Step(k)
  BY InnerIsStep
<1>2. /\ \A j \in Command : /\ Kinded(task[j]) /\ Current(j) /\ Based(j) /\ Safe(j) /\ Revived(j)
                            /\ InFlight(j) => task[j].path \in Path
      /\ \A p \in Path : Numbered(p) /\ Written(p) /\ Suspect(p)
      /\ Locked /\ Apart
  BY DEF Orderliness, GatewayInvariant, Entered
<1>3. ASSUME NEW j \in Command
      PROVE  Kinded(task'[j]) /\ Current(j)' /\ Based(j)' /\ Safe(j)' /\ Revived(j)'
  <2>1. Kinded(task'[j])
    BY <1>1, <1>2, StepTasks DEF Step, Footprint
  <2>2. Current(j)' /\ Based(j)'
    BY <1>1, <1>2, StepCurrent, StepBased
  <2>3. Safe(j)' /\ Revived(j)'
    BY <1>1, <1>2, StepSafe, StepRevived
  <2> QED
    BY <2>1, <2>2, <2>3
<1>4. ASSUME NEW p \in Path
      PROVE  Numbered(p)' /\ Written(p)' /\ Suspect(p)'
  BY <1>1, <1>2, StepNumbered, StepWritten, StepSuspect
<1>5. Locked' /\ Apart'
  BY <1>1, <1>2, StepLocks
<1> QED
  BY <1>3, <1>4, <1>5 DEF Orderliness

-----------------------------------------------------------------------------
(* Admission and settlement keep it too. *)

\* A command that is admitted, interrupts aside, meets no unfinished work.
LEMMA AdmittedAlone ==
  ASSUME GatewayInvariant, ~Accepted("Rename"), NEW k \in Command, NEW kind \in AllKinds,
         NEW p \in Path, NEW to, Admissible(k, kind, p, to), ~OutOfBand(kind),
         NEW j \in Command, Works(task[j])
  PROVE  task[j].path # p
<1> SUFFICES ASSUME task[j].path = p PROVE FALSE
  OBVIOUS
<1>1. j \in Pending(p)
  BY DEF Pending, Works, InFlight
<1>2. ws.active[p] = 0 /\ ws.active[p] = Cardinality(Pending(p))
  BY DEF Admissible, GatewayInvariant, Counted
<1>3. Pending(p) \subseteq Entries
  BY DEF Pending, InFlight, Entries, GatewayInvariant, Entered
<1>4. IsFiniteSet(Pending(p))
  BY <1>3, FS_Subset DEF GatewayInvariant
<1> QED
  BY <1>1, <1>2, <1>4, FS_EmptySet

LEMMA SubmitOrderly ==
  ASSUME GatewayInvariant, Orderliness, ~Accepted("Rename"),
         NEW k \in Command, NEW c \in Client, NEW p \in Path, NEW kind \in AllKinds,
         NEW to \in Path, NEW expected \in Nat, NEW basis \in Cells,
         Shown(p, kind, expected, basis),
         Submit(k, c, p, kind, to, expected, basis)
  PROVE  Orderliness'
<1> DEFINE u == task'[k]
<1>1. /\ task[k].stage = "none" /\ task[k].kind = "Query"
      /\ \A j \in Command \ {k} : task'[j] = task[j]
      /\ u.stage = "queued" /\ u.kind = kind /\ u.path = p
      /\ u.expected = expected /\ u.basis = basis
  BY SubmitFacts
<1>2. /\ UNCHANGED <<stored, writes, kernel, revisions, shown, seen, uncertain>>
      /\ Admissible(k, kind, p, to)
  BY DEF Submit, roomVars, jupyterVars
<1>3. /\ \A j \in Command : Kinded(task[j]) /\ Current(j) /\ Based(j) /\ Safe(j) /\ Revived(j)
      /\ \A q \in Path : Numbered(q) /\ Written(q) /\ Suspect(q)
      /\ Locked /\ Apart
  BY DEF Orderliness
<1>4. kind = "Execute" => p \notin uncertain /\ kernel[p] = "clean"
  <2> SUFFICES ASSUME kind = "Execute" PROVE p \notin uncertain /\ kernel[p] = "clean"
    OBVIOUS
  <2>1. p \notin uncertain
    BY <1>2 DEF Admissible
  <2>2. ASSUME NEW j \in Command, Lost(task[j], p) PROVE FALSE
    <3>1. Works(task[j]) /\ task[j].path = p
      BY <2>2 DEF Lost, Works, Writes, OutOfBand
    <3> QED
      BY <1>2, <3>1, AdmittedAlone DEF OutOfBand
  <2>3. kernel[p] \in {"clean", "unknown"}
    BY DEF GatewayInvariant, GatewayTypeOK
  <2> QED
    BY <1>3, <2>1, <2>2, <2>3 DEF Suspect
<1>5. ASSUME NEW j \in Command
      PROVE  Kinded(task'[j]) /\ Current(j)' /\ Based(j)' /\ Safe(j)' /\ Revived(j)'
  <2>1. CASE j = k
    <3>1. Kinded(u) /\ ~Restarted(u) /\ u.stage \notin Knowing
      BY <1>1 DEF Kinded, Restarted, Knowing
    <3>2. Based(k)'
      BY <1>1, <1>2 DEF Based, Shown
    <3>3. Safe(k)'
      BY <1>1, <1>2, <1>4 DEF Safe
    <3> QED
      BY <2>1, <3>1, <3>2, <3>3 DEF Current, Revived
  <2>2. CASE j # k
    BY <1>1, <1>2, <1>3, <2>2 DEF Current, Based, Safe, Revived, InFlight
  <2> QED
    BY <2>1, <2>2
<1>6. ASSUME NEW q \in Path
      PROVE  Numbered(q)' /\ Written(q)' /\ Suspect(q)'
  <2>1. Numbered(q)'
    BY <1>2, <1>3 DEF Numbered
  <2>2. Accepted("Interrupt") => Accepted("Interrupt")'
    BY <1>1 DEF Accepted
  <2>3. Written(q)'
    BY <1>2, <1>3, <2>2 DEF Written
  <2>4. ASSUME NEW j \in Command, Lost(task[j], q) PROVE Lost(task'[j], q)
    BY <1>1, <2>4 DEF Lost
  <2>5. Suspect(q)'
    BY <1>2, <1>3, <2>4 DEF Suspect
  <2> QED
    BY <2>1, <2>3, <2>5
<1>7. Locked'
  <2>1. ASSUME NEW j \in Command, NEW q \in Path, Holds(j, q)' PROVE Holds(j, q)
    BY <1>1, <2>1 DEF Holds, InFlight
  <2> QED
    BY <1>3, <2>1 DEF Locked
<1>8. Apart'
  <2>1. ASSUME Works(u), NEW j \in Command, j # k, Works(task'[j]), task'[j].path = p
        PROVE  FALSE
    <3>1. Works(task[j]) /\ task[j].path = p /\ ~OutOfBand(kind)
      BY <1>1, <2>1 DEF Works
    <3> QED
      BY <1>2, <3>1, AdmittedAlone
  <2> QED
    BY <1>1, <1>3, <2>1 DEF Apart
<1> QED
  BY <1>5, <1>6, <1>7, <1>8 DEF Orderliness

LEMMA FinishOrderly ==
  ASSUME GatewayInvariant, Orderliness, ~Accepted("Rename"),
         NEW k \in Command, NEW overflow \in BOOLEAN, Finish(k, overflow)
  PROVE  Orderliness'
<1> DEFINE t == task[k]
           u == task'[k]
<1>1. /\ t.stage = "finish" /\ u.stage = "done" /\ u.kind = t.kind /\ t.kind # "Rename"
      /\ \A j \in Command \ {k} : task'[j] = task[j]
      /\ t \in Task
  BY FinishFacts DEF Accepted, GatewayInvariant, GatewayTypeOK
<1>2. /\ UNCHANGED <<stored, writes, kernel, revisions, shown, seen>>
      /\ uncertain' = IF t.kind = "Execute" /\ ~t.ok THEN uncertain \cup {t.path}
                      ELSE IF t.kind = "Restart" /\ t.ok THEN uncertain \ {t.path}
                      ELSE uncertain
  BY <1>1 DEF Finish, jupyterVars
<1>3. /\ \A j \in Command : Kinded(task[j]) /\ Current(j) /\ Based(j) /\ Safe(j) /\ Revived(j)
      /\ \A q \in Path : Numbered(q) /\ Written(q) /\ Suspect(q)
      /\ Locked /\ Apart
  BY DEF Orderliness
<1>4. ASSUME NEW j \in Command
      PROVE  Kinded(task'[j]) /\ Current(j)' /\ Based(j)' /\ Safe(j)' /\ Revived(j)'
  <2>1. CASE j = k
    BY <1>1, <2>1 DEF Kinded, Current, Based, Safe, Revived, Restarted, Knowing, InFlight
  <2>2. CASE j # k
    <3>1. Kinded(task'[j]) /\ Current(j)' /\ Based(j)' /\ Revived(j)'
      BY <1>1, <1>2, <1>3, <2>2 DEF Current, Based, Revived, InFlight
    <3>2. Safe(j)'
      <4> SUFFICES ASSUME task[j].stage \notin {"none", "done", "finish"},
                          task[j].kind = "Execute"
                   PROVE  kernel[task[j].path] = "clean" /\ task[j].path \notin uncertain'
        BY <1>1, <1>2, <2>2 DEF Safe, InFlight
      <4>1. kernel[task[j].path] = "clean" /\ task[j].path \notin uncertain
        BY <1>3 DEF Safe, InFlight
      <4>2. t.kind = "Execute" => t.path # task[j].path
        BY <1>1, <1>3, <2>2 DEF Apart, Works, Writes, OutOfBand
      <4> QED
        BY <1>2, <4>1, <4>2
    <3> QED
      BY <3>1, <3>2
  <2> QED
    BY <2>1, <2>2
<1>5. ASSUME NEW q \in Path
      PROVE  Numbered(q)' /\ Written(q)' /\ Suspect(q)'
  <2>1. Numbered(q)'
    BY <1>2, <1>3 DEF Numbered
  <2>2. Accepted("Interrupt") => Accepted("Interrupt")'
    BY <1>1 DEF Accepted
  <2>3. Written(q)'
    BY <1>2, <1>3, <2>2 DEF Written
  <2>4. ASSUME kernel[q] = "unknown"
        PROVE  q \in uncertain' \/ \E j \in Command : Lost(task'[j], q)
    <3>1. CASE q \in uncertain
      <4>1. t.kind = "Restart" /\ t.ok => t.path # q
        BY <1>1, <1>3, <2>4 DEF Revived, Restarted
      <4> QED
        BY <1>2, <3>1, <4>1
    <3>2. ASSUME NEW j \in Command, Lost(task[j], q)
          PROVE  q \in uncertain' \/ Lost(task'[j], q)
      <4>1. CASE j = k
        BY <1>2, <3>2, <4>1 DEF Lost
      <4>2. CASE j # k
        BY <1>1, <3>2, <4>2
      <4> QED
        BY <4>1, <4>2
    <3> QED
      BY <1>3, <2>4, <3>1, <3>2 DEF Suspect
  <2>5. Suspect(q)'
    BY <1>2, <2>4 DEF Suspect
  <2> QED
    BY <2>1, <2>3, <2>5
<1>6. Locked' /\ Apart'
  <2>1. ASSUME NEW j \in Command, NEW q \in Path, Holds(j, q)' PROVE Holds(j, q)
    BY <1>1, <2>1 DEF Holds, InFlight
  <2>2. ASSUME NEW j \in Command, Works(task'[j]) PROVE task'[j] = task[j]
    BY <1>1, <2>2 DEF Works
  <2> QED
    BY <1>3, <2>1, <2>2 DEF Locked, Apart
<1> QED
  BY <1>4, <1>5, <1>6 DEF Orderliness

-----------------------------------------------------------------------------
(* The invariance theorem and what it establishes. *)

\* Commands of a kind stay accepted.
LEMMA AcceptedStays ==
  ASSUME GatewayInvariant, [GatewayNext]_allVars, NEW kind \in AllKinds \ {"Query"},
         Accepted(kind)
  PROVE  Accepted(kind)'
<1>1. PICK i \in Command : task[i].kind = kind
  BY DEF Accepted
<1> SUFFICES task'[i].kind = kind
  BY DEF Accepted
<1>2. CASE CollaborationRequest /\ UNCHANGED gatewayVars
  BY <1>1, <1>2 DEF gatewayVars, dispatchVars
<1>3. ASSUME NEW k \in Command, NEW c \in Client, NEW p \in Path, NEW kd \in AllKinds,
             NEW to \in Path, NEW expected \in Nat, NEW basis \in Cells,
             Submit(k, c, p, kd, to, expected, basis)
      PROVE  task'[i].kind = kind
  <2>1. task[k].kind = "Query" /\ \A j \in Command \ {k} : task'[j] = task[j]
    BY <1>3, SubmitFacts
  <2> QED
    BY <1>1, <2>1
<1>4. ASSUME NEW k \in Command, Inner(k)
      PROVE  task'[i].kind = kind
  BY <1>1, <1>4, InvReady, InnerSteps DEF InnerStep, Advances, Identity
<1>5. ASSUME NEW k \in Command, NEW overflow \in BOOLEAN, Finish(k, overflow)
      PROVE  task'[i].kind = kind
  BY <1>1, <1>5, FinishFacts
<1>6. CASE UNCHANGED allVars
  BY <1>1, <1>6 DEF allVars, gatewayVars, dispatchVars
<1> QED
  BY <1>2, <1>3, <1>4, <1>5, <1>6, GatewaySteps, Zenon

LEMMA DispatchNextKeeps ==
  ASSUME DispatchInvariant, [GatewayNext]_allVars
  PROVE  DispatchInvariant'
<1>1. GatewayInvariant /\ GatewayInvariant'
  BY GatewayNextKeeps DEF DispatchInvariant
<1> SUFFICES ASSUME ~Accepted("Rename")' PROVE Orderliness'
  BY <1>1 DEF DispatchInvariant
<1>2. ~Accepted("Rename") /\ Orderliness
  BY <1>1, AcceptedStays DEF AllKinds, DispatchInvariant
<1>3. ASSUME UNCHANGED gatewayVars PROVE Orderliness'
  BY <1>2, <1>3 DEF Orderliness, Current, Based, Safe, Revived, Numbered, Written, Suspect,
     Locked, Apart, Holds, InFlight, Accepted, gatewayVars, dispatchVars, roomVars, jupyterVars
<1>4. ASSUME NEW k \in Command, NEW c \in Client, NEW p \in Path, NEW kind \in AllKinds,
             NEW to \in Path, NEW expected \in Nat, NEW basis \in Cells,
             Shown(p, kind, expected, basis), Submit(k, c, p, kind, to, expected, basis)
      PROVE  Orderliness'
  BY <1>1, <1>2, <1>4, SubmitOrderly
<1>5. ASSUME NEW k \in Command, Inner(k)
      PROVE  Orderliness'
  BY <1>1, <1>2, <1>5, InnerOrderly
<1>6. ASSUME NEW k \in Command, NEW overflow \in BOOLEAN, Finish(k, overflow)
      PROVE  Orderliness'
  BY <1>1, <1>2, <1>6, FinishOrderly
<1>7. UNCHANGED allVars => UNCHANGED gatewayVars
  BY DEF allVars
<1> QED
  BY <1>1, <1>3, <1>4, <1>5, <1>6, <1>7, GatewaySteps, Zenon

LEMMA DispatchInitEstablishes == GatewayInit => DispatchInvariant
<1> SUFFICES ASSUME GatewayInit PROVE Orderliness
  BY GatewayInitEstablishes DEF DispatchInvariant
<1>1. ASSUME NEW k \in Command
      PROVE  Kinded(task[k]) /\ Current(k) /\ Based(k) /\ Safe(k) /\ Revived(k)
  BY DEF GatewayInit, Idle, Kinded, Current, Based, Safe, Revived, InFlight, Knowing, Restarted
<1>2. ASSUME NEW p \in Path
      PROVE  Numbered(p) /\ Written(p) /\ Suspect(p)
  BY DEF GatewayInit, Numbered, Written, Suspect, NoCells
<1>3. Locked /\ Apart
  BY DEF GatewayInit, Idle, Locked, Apart, Holds, InFlight, Works
<1> QED
  BY <1>1, <1>2, <1>3 DEF Orderliness

\* The inductive invariant holds of every run of the gateway.
THEOREM DispatchInvariance == GatewaySpec => []DispatchInvariant
<1>1. DispatchInvariant /\ [GatewayNext]_allVars => DispatchInvariant'
  BY DispatchNextKeeps
<1> QED
  BY <1>1, DispatchInitEstablishes, PTL DEF GatewaySpec

\* Until a notebook is renamed, a change a client based on a revision it was shown
\* is only stored over exactly the cells it was shown (`modify_cells`, the check
\* of the expected revision under the path lock).
THEOREM NoLostUpdateHolds == GatewaySpec => NoLostUpdate
<1>1. ASSUME DispatchInvariant, NEW k \in Command, ~Accepted("Rename"), Save(k),
             task[k].kind = "Modify", task[k].expected # 0
      PROVE  stored[task[k].path] = task[k].basis
  BY <1>1 DEF DispatchInvariant, Orderliness, Current, Based, Save, InFlight, Knowing, OutOfBand
<1>2. DispatchInvariant =>
        [ \A k \in Command :
            (~Accepted("Rename") /\ Save(k) /\ task[k].kind = "Modify" /\ task[k].expected # 0)
            => stored[task[k].path] = task[k].basis ]_allVars
  BY <1>1
<1> QED
  BY <1>2, DispatchInvariance, PTL DEF NoLostUpdate

\* Until a notebook is renamed, no code is sent to a kernel in which an execution
\* whose end was not seen may still be running, unless it was restarted
\* (Authority.uncertain).
THEOREM ExecutesOnKnownKernelHolds == GatewaySpec => ExecutesOnKnownKernel
<1>1. ASSUME DispatchInvariant, NEW k \in Command, ~Accepted("Rename"), Send(k)
      PROVE  kernel[task[k].path] = "clean"
  <2>1. task[k].stage = "send" /\ Kinded(task[k]) /\ Safe(k)
    BY <1>1 DEF DispatchInvariant, Orderliness, Send
  <2> QED
    BY <2>1 DEF Kinded, Safe, InFlight
<1>2. DispatchInvariant =>
        [ \A k \in Command : ~Accepted("Rename") /\ Send(k)
            => kernel[task[k].path] = "clean" ]_allVars
  BY <1>1
<1> QED
  BY <1>2, DispatchInvariance, PTL DEF ExecutesOnKnownKernel

LEMMA NextFollowsWrites ==
  ASSUME DispatchInvariant, [GatewayNext]_allVars,
         ~Accepted("Interrupt")', ~Accepted("Rename")',
         NEW p \in Path
  PROVE  shown'[p] >= shown[p]
<1>1. GatewayInvariant /\ Orderliness /\ ~Accepted("Interrupt") /\ ~Accepted("Rename")
  BY AcceptedStays DEF AllKinds, DispatchInvariant
<1>2. shown \in [Path -> Int] /\ shown[p] <= stored[p] /\ stored \in [Path -> Int]
  <2>1. Cells \subseteq Int
    BY DEF Cells, NoCells
  <2> QED
    BY <1>1, <2>1 DEF Orderliness, Written, GatewayInvariant, GatewayTypeOK
<1>3. ASSUME shown' = shown PROVE shown'[p] >= shown[p]
  BY <1>2, <1>3
<1>4. ASSUME NEW k \in Command, Inner(k)
      PROVE  shown'[p] >= shown[p]
  <2>1. Step(k) /\ Current(k) /\ \A q \in Path : Numbered(q)
    BY <1>1, <1>4, InnerIsStep DEF Orderliness
  <2>2. \/ shown' = shown
        \/ shown' = [shown EXCEPT ![task[k].path] = stored[task[k].path]]
    BY <1>1, <2>1, StepCommits
  <2> QED
    BY <1>2, <2>2
<1>5. ASSUME NEW k \in Command, NEW overflow \in BOOLEAN, Finish(k, overflow)
      PROVE  shown' = shown
  BY <1>1, <1>5 DEF Finish, Accepted
<1>6. ASSUME NEW k \in Command, NEW c \in Client, NEW q \in Path, NEW kind \in AllKinds,
             NEW to \in Path, NEW expected \in Nat, NEW basis \in Cells,
             Submit(k, c, q, kind, to, expected, basis)
      PROVE  shown' = shown
  BY <1>6 DEF Submit, roomVars
<1>7. UNCHANGED gatewayVars \/ UNCHANGED allVars => shown' = shown
  BY DEF gatewayVars, allVars, roomVars
<1> QED
  BY <1>1, <1>3, <1>4, <1>5, <1>6, <1>7, GatewaySteps, Zenon

\* As long as nobody renames or interrupts, the snapshots of a room follow the
\* order in which the notebook was written (`committed`, emit): a late snapshot
\* brings no earlier output back.
THEOREM SnapshotsFollowWritesHolds == GatewaySpec => SnapshotsFollowWrites
<1>1. DispatchInvariant /\ [GatewayNext]_allVars =>
        [ ~Accepted("Interrupt")' /\ ~Accepted("Rename")' =>
            \A p \in Path : shown'[p] # NoCells => shown'[p] >= shown[p] ]_allVars
  BY NextFollowsWrites
<1> QED
  BY <1>1, DispatchInvariance, PTL DEF GatewaySpec, SnapshotsFollowWrites
=============================================================================
