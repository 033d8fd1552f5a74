----------------------------- MODULE FollowMode -----------------------------
(***************************************************************************)
(* The follow mode of a page: FollowController (web/src/follow.ts), its    *)
(* subscription (collaboration.ts, subscribe), the application of a view   *)
(* (bootstrap.ts) and the part of WorkspaceTools it goes through.          *)
(*                                                                         *)
(* What the gateway does is DriverAuthority and Collaboration; here it is a *)
(* driver, the driver's view and the sequence of the view.  The page hears *)
(* of the driver by one long poll (watch) and of the view by another, so   *)
(* either may be ahead.  A step runs from one await of the page's code to  *)
(* the next.  A view stands for its notebook, scroll position and          *)
(* selection; microscopes are the last await before these are applied.     *)
(***************************************************************************)
EXTENDS Integers

CONSTANTS
  Other,     \* clients of other pages; Me is the client of this one
  Path, Anchor,   \* notebooks; the one follow mode was started in is open
  Me, None,
  MaxSequence, MaxClicks, MaxOpens, MaxFails   \* bounds

View == [n : 1 .. MaxSequence, by : Other, path : Path]
Reply == [sequence : Int, view : View \cup {None}]
Subscription == [cursor : Int, reply : Reply]

ASSUME FollowAssumption ==
  /\ Anchor \in Path /\ Me \notin Other
  /\ None \notin Other \cup Path \cup View /\ None \notin Subscription
  /\ MaxSequence \in Nat \ {0} /\ MaxClicks \in Nat /\ MaxOpens \in Nat /\ MaxFails \in Nat

VARIABLES
  driver, view, sequence,   \* gateway: the driver, its view [n, by, path], view_sequence
  known,     \* the driver as the page's membership poll reported it last
  poll,      \* the subscription: None or [cursor, reply]
  latest,    \* FollowController: the view that waits, or None
  applies,   \* the views being applied: [view, current, step, from]; `current`
             \* says that the epoch is still the one they began in
  active, opened,           \* WorkspaceTools: selected notebook, open notebooks
  pin,       \* the view that the mounted notebook is held at: [n, current] or None
  last,      \* history: the newest view applied
  count      \* [clicks, opens, fails]
gatewayVars == <<driver, view, sequence>>
pageVars == <<known, active, opened, count>>
followVars == <<poll, latest, applies, pin, last>>
vars == <<gatewayVars, pageVars, followVars>>

NoReply == [sequence |-> -1, view |-> None]

Init ==
  /\ driver \in Other /\ view = None /\ sequence = 1 /\ known = driver
  /\ poll = None /\ latest = None /\ applies = {}
  /\ active = Anchor /\ opened = {Anchor} /\ pin = None /\ last = 0
  /\ count = [clicks |-> 0, opens |-> 0, fails |-> 0]

Fails == count.fails < MaxFails /\ count' = [count EXCEPT !.fails = @ + 1]

----------------------------------------------------------------------------
(* The gateway and the membership poll.                                     *)

Publish(p) ==
  /\ driver \in Other /\ sequence < MaxSequence
  /\ sequence' = sequence + 1
  /\ view' = [n |-> sequence + 1, by |-> driver, path |-> p]
  /\ UNCHANGED <<driver, pageVars, followVars>>
Turnover ==
  /\ sequence < MaxSequence /\ sequence' = sequence + 1
  /\ driver' \in (Other \cup {Me, None}) \ {driver} /\ view' = None
  /\ UNCHANGED <<pageVars, followVars>>
Watch ==
  /\ known # driver /\ known' = driver
  /\ UNCHANGED <<gatewayVars, active, opened, count, followVars>>

----------------------------------------------------------------------------
(* FollowController.                                                        *)

Following == poll # None
Allowed(v) == Following /\ known # Me /\ known = v.by
Applies(a) == a.current /\ Allowed(a.view)

\* `drain`: one view is applied at a time, the latest that arrived meanwhile
\* after it; a view that is not allowed is dropped at once.
Beginning(v) ==
  IF v = None \/ ~Allowed(v) THEN {}
  ELSE {[view |-> v, current |-> TRUE, step |-> "queued", from |-> None]}
BusyNever == FALSE
Busy == applies # {}
Receives(v) ==
  IF Busy THEN latest' = v /\ UNCHANGED applies
  ELSE latest' = None /\ applies' = applies \cup Beginning(v)
Done(a) == applies' = (applies \ {a}) \cup Beginning(latest) /\ latest' = None

\* `receive(null)` and `stop`: what is pending is void and the scroll released.
Void ==
  /\ latest' = None /\ pin' = None
  /\ applies' = {[a EXCEPT !.current = FALSE] : a \in applies}

\* The button: the subscription starts without a cursor.
Click ==
  /\ count.clicks < MaxClicks /\ count' = [count EXCEPT !.clicks = @ + 1]
  /\ \/ Following /\ poll' = None
     \/ ~Following /\ active # None /\ known # Me /\ poll' = [cursor |-> -1, reply |-> NoReply]
  /\ Void
  /\ UNCHANGED <<gatewayVars, known, active, opened, last>>
\* The timer of the page: a driver does not follow.
Promoted ==
  /\ Following /\ known = Me /\ poll' = None /\ Void
  /\ UNCHANGED <<gatewayVars, pageVars, last>>

----------------------------------------------------------------------------
(* The subscription.                                                        *)

\* A long poll is answered when there is news, or with what there is after
\* ten seconds.
DeadlineNever == FALSE
Deadline == TRUE
Answer ==
  /\ Following /\ poll.reply = NoReply
  /\ sequence > poll.cursor \/ Deadline
  /\ poll' = [poll EXCEPT !.reply = [sequence |-> sequence, view |-> view]]
  /\ UNCHANGED <<gatewayVars, pageVars, latest, applies, pin, last>>
Receive ==
  /\ Following /\ poll.reply # NoReply
  /\ poll' = [cursor |-> poll.reply.sequence, reply |-> NoReply]
  /\ IF poll.reply.view = None THEN Void
     ELSE Receives(poll.reply.view) /\ UNCHANGED pin
  /\ UNCHANGED <<gatewayVars, pageVars, last>>
\* The request failed: follow pauses, and the poll is made again.
ReceiveFailure ==
  /\ Following /\ Fails /\ poll' = [poll EXCEPT !.reply = NoReply]
  /\ Void
  /\ UNCHANGED <<gatewayVars, known, active, opened, last>>

----------------------------------------------------------------------------
(* Applying a view.  Tools of the workspace run one after another (`tail`). *)

Selecting == \E a \in applies : a.step \in {"creating", "activating"}
To(a, step) == applies' = (applies \ {a}) \cup {[a EXCEPT !.step = step]} /\ UNCHANGED latest

\* The notebook is left, and the mounted application with its scroll position.
Activate(a) ==
  /\ applies' = (applies \ {a}) \cup {[a EXCEPT !.step = "activating", !.from = active]}
  /\ active' = None /\ pin' = None /\ UNCHANGED latest

\* open_notebook: refused when following has ended; unsaved work throws.
Open(a) ==
  /\ a.step = "queued" /\ ~Selecting
  /\ \/ /\ Applies(a) /\ a.view.path \notin opened
        /\ To(a, "creating") /\ UNCHANGED <<active, pin, count>>
     \/ /\ Applies(a) /\ a.view.path \in opened
        /\ IF a.view.path = active THEN To(a, "microscope") /\ UNCHANGED <<active, pin>>
           ELSE Activate(a)
        /\ UNCHANGED count
     \/ ~Applies(a) /\ Done(a) /\ UNCHANGED <<active, pin, count>>
     \/ Fails /\ Done(a) /\ UNCHANGED <<active, pin>>
  /\ UNCHANGED <<gatewayVars, known, opened, poll, last>>
ListedNot(a) == opened
Listed(a) == opened \cup {a.view.path}
Created(a) ==
  /\ a.step = "creating"
  /\ \/ /\ opened' = Listed(a) /\ UNCHANGED count
        /\ IF Applies(a) THEN Activate(a) ELSE Done(a) /\ UNCHANGED <<active, pin>>
     \/ Fails /\ Done(a) /\ UNCHANGED <<active, pin, opened>>
  /\ UNCHANGED <<gatewayVars, known, poll, last>>
Activated(a) ==
  /\ a.step = "activating"
  /\ \/ /\ active' = a.view.path /\ UNCHANGED count
        /\ IF Applies(a) THEN To(a, "microscope") ELSE Done(a)
     \/ Fails /\ active' = a.from /\ Done(a)
  /\ UNCHANGED <<gatewayVars, known, opened, poll, pin, last>>

\* Microscopes were opened or closed: the scroll position is taken over.
StillShown(a) == Following
Shown(a) == Applies(a)
Show(a) ==
  /\ a.step = "microscope"
  /\ \/ /\ Shown(a) /\ active # None /\ UNCHANGED count
        /\ pin' = [n |-> a.view.n, current |-> a.current] /\ last' = a.view.n
     \/ (~Shown(a) \/ active = None) /\ UNCHANGED <<pin, last, count>>
     \/ Fails /\ UNCHANGED <<pin, last>>
  /\ Done(a)
  /\ UNCHANGED <<gatewayVars, known, active, opened, poll>>

\* The user selects another notebook.
Browse(p) ==
  /\ count.opens < MaxOpens /\ count' = [count EXCEPT !.opens = @ + 1]
  /\ ~Selecting /\ p # active
  /\ active' = p /\ opened' = opened \cup {p} /\ pin' = None
  /\ UNCHANGED <<gatewayVars, known, poll, latest, applies, last>>

Applying == \E a \in applies : Open(a) \/ Created(a) \/ Activated(a) \/ Show(a)
Next ==
  \/ Turnover \/ Watch \/ Click \/ Promoted \/ Answer \/ Receive \/ ReceiveFailure
  \/ Applying
  \/ \E p \in Path : Publish(p) \/ Browse(p)

Spec == Init /\ [][Next]_vars
\* Both polls go on, awaits of the page end, its timer ticks.
FairSpec == Spec /\ WF_vars(Watch) /\ WF_vars(Promoted) /\ WF_vars(Answer)
                 /\ WF_vars(Receive) /\ WF_vars(Applying)

----------------------------------------------------------------------------
(* Properties.                                                              *)

FollowTypeOK ==
  /\ driver \in Other \cup {Me, None} /\ known \in Other \cup {Me, None}
  /\ view = None \/ view \in View
  /\ latest = None \/ latest \in View
  /\ active \in opened \cup {None}
  /\ opened \subseteq Path

\* "Stop following immediately releases scroll control"; "Disconnects and driver
\* changes pause follow and release pinned scrolling" (docs/collaboration.md):
\* nothing that was under way then holds the notebook again, also if following
\* starts again meanwhile.
HeldOnlyWhileFollowing == pin # None => Following /\ pin.current

\* What is shown and what is followed hang together.
FollowInv == FollowTypeOK /\ HeldOnlyWhileFollowing

\* However views are coalesced and applied, the page never goes back to an
\* older view than it showed.
NeverBack == [][last' >= last]_vars

\* "still receives the driver's current view": once the driver stays at a view
\* and following goes on, the page comes to that view, although the membership
\* poll may be behind the view and awaits may be overtaken.
ArrivesAtView ==
  <>[](Following /\ view # None) =>
    []<>(view # None /\ pin # None /\ active = view.path /\ pin.n = view.n)
=============================================================================
