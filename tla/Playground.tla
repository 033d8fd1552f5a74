------------------------------ MODULE Playground ------------------------------
(***************************************************************************)
(* The temporary playground of the gateway (native/server/playground.rs):  *)
(* one slot, filled by the driver's open, worked on by its commands,       *)
(* emptied by close, by the reaper and by microscope commands, composed    *)
(* with the driver policy whose leases decide who may do so.               *)
(*                                                                         *)
(* Two async mutexes matter.  The slot's (`holder`) is kept across the     *)
(* requests to Jupyter that open and dispose make; a section without an    *)
(* await is one step that needs the mutex free.  The namespace guard       *)
(* (`namespace`) is kept by an open and by a microscope command.           *)
(* Abstracted data: a playground is the number of its open; a document is  *)
(* the number of times its microscope was replaced; a snapshot is its      *)
(* revision; `quiet` counts the seconds since the playground was touched   *)
(* up to one past the limit, `silent` those since a client was heard of.   *)
(***************************************************************************)
EXTENDS Collaboration

CONSTANTS
  Command,       \* idempotency keys of playground commands
  Kinds,         \* kinds of command in the instance
  Activities,    \* what besides opening happens in the instance
  MaxSeen,       \* keys one playground remembers (256)
  Expiry,        \* seconds without the owner before the reaper acts (60)
  MaxOpens,      \* bound of the model: playgrounds ever started
  MaxUpdates,    \* bound of the model: outputs of one execution
  MaxEdits       \* bound of the model: replacements of the microscope

ASSUME PlaygroundAssumption ==
  /\ None \notin Command
  /\ {"reaper", "edit"} \cap (Client \cup {None}) = {}
  /\ Kinds \subseteq {"Modify", "Execute", "Complete", "Interrupt"}
  /\ Activities \subseteq {"time", "claim", "look", "close", "edit", "run"}
  /\ MaxSeen \in Nat /\ Expiry \in Nat
  /\ MaxOpens \in Nat /\ MaxUpdates \in Nat /\ MaxEdits \in Nat

VARIABLES
  slot,       \* Host.playground
  holder,     \* who keeps the slot's mutex over an await, or None
  namespace,  \* who keeps artifact_lock, or None
  opening,    \* the open request of each client
  disposer,   \* what each caller of dispose_expected is doing
  doc,        \* version of the stored microscope
  run,        \* the task of each playground command
  opens,      \* playgrounds started so far
  sessions,   \* Jupyter: playground sessions that exist
  lost,       \* history: sessions whose creation was never answered
  executed,   \* history: execute_requests per playground and key
  silent      \* history: seconds since each client made a request itself

slotVars == <<slot, holder>>
jupyterVars == <<opens, sessions, lost>>
playVars == <<slot, holder, namespace, opening, disposer, doc, run,
              opens, sessions, lost, executed, silent>>
playgroundVars == <<vars, playVars>>

Disposers == Client \cup {"reaper", "edit"}
Ids == 0 .. MaxOpens

Empty == [ id |-> 0, owner |-> None, path |-> None, doc |-> 0, busy |-> FALSE,
           closing |-> FALSE, quiet |-> 0, revision |-> 0,
           seen |-> [k \in Command |-> "new"] ]
NoOpen == [ stage |-> "none", path |-> None, doc |-> 0 ]
NoDispose == [ stage |-> "none", id |-> 0, owner |-> None, path |-> None, expired |-> FALSE ]
NoRun == [ stage |-> "none", client |-> None, path |-> None, id |-> 0, kind |-> "Modify",
           revision |-> 0, updates |-> 0, ok |-> TRUE ]

PlaygroundInit ==
  /\ Init
  /\ slot = Empty /\ holder = None /\ namespace = None
  /\ opening = [c \in Client |-> NoOpen]
  /\ disposer = [d \in Disposers |-> NoDispose]
  /\ doc = 0
  /\ run = [k \in Command |-> NoRun]
  /\ opens = 0 /\ sessions = {} /\ lost = {}
  /\ executed = [x \in Ids \X Command |-> 0]
  /\ silent = [c \in Client |-> 0]

\* A client makes a request; `require_driver` renews the lease of its caller.
Heard(c) == silent' = [silent EXCEPT ![c] = 0]
Authenticate(c, p) == Ask(c, p) /\ Heard(c)

-----------------------------------------------------------------------------
(* Opening. *)

Open_(c, p) ==
  /\ opening[c].stage = "none"
  /\ opens < MaxOpens
  /\ IsDriver(ws, p, c)
  /\ Authenticate(c, p)
  /\ opening' = [opening EXCEPT ![c] = [NoOpen EXCEPT !.stage = "queued", !.path = p]]
  /\ UNCHANGED <<slotVars, namespace, disposer, doc, run, jupyterVars, executed>>

\* Both guards, in this order; an occupied slot refuses.
TakeNamespace(c) ==
  /\ opening[c].stage = "queued" /\ namespace = None
  /\ namespace' = c
  /\ opening' = [opening EXCEPT ![c].stage = "guarded"]
  /\ UNCHANGED <<vars, slotVars, disposer, doc, run, jupyterVars, executed, silent>>
TakeSlot(c) ==
  /\ opening[c].stage = "guarded" /\ holder = None
  /\ IF slot.id # 0
     THEN /\ opening' = [opening EXCEPT ![c] = NoOpen]
          /\ namespace' = None
          /\ UNCHANGED holder
     ELSE /\ holder' = c
          /\ opening' = [opening EXCEPT ![c].stage = "reading"]
          /\ UNCHANGED namespace
  /\ UNCHANGED <<vars, slot, disposer, doc, run, jupyterVars, executed, silent>>

\* The notebook, then the microscope document with the step's code.
ReadStep(c) ==
  /\ opening[c].stage = "reading"
  /\ opening' = [opening EXCEPT ![c].stage = "starting", ![c].doc = doc]
  /\ UNCHANGED <<vars, slotVars, namespace, disposer, doc, run, jupyterVars, executed, silent>>

OpenEnds(c) ==
  /\ opening' = [opening EXCEPT ![c] = NoOpen]
  /\ holder' = None
  /\ namespace' = IF namespace = c THEN None ELSE namespace

\* A fresh session and kernel; the slot is filled although its caller may no
\* longer drive.
Start(c) ==
  /\ opening[c].stage = "starting" /\ opens < MaxOpens
  /\ opens' = opens + 1
  /\ sessions' = sessions \cup {opens + 1}
  /\ slot' = [Empty EXCEPT !.id = opens + 1, !.owner = c, !.path = opening[c].path,
                           !.doc = opening[c].doc]
  /\ OpenEnds(c)
  /\ UNCHANGED <<vars, disposer, doc, run, lost, executed, silent>>

\* A request fails; the session may exist though its answer was lost.
OpenFails(c) ==
  /\ opening[c].stage \in {"reading", "starting"}
  /\ \/ UNCHANGED jupyterVars
     \/ /\ opening[c].stage = "starting" /\ opens < MaxOpens
        /\ opens' = opens + 1
        /\ sessions' = sessions \cup {opens + 1}
        /\ lost' = lost \cup {opens + 1}
  /\ OpenEnds(c)
  /\ UNCHANGED <<vars, slot, disposer, doc, run, executed, silent>>

\* `read`, also polled by followers: only the driving owner keeps it alive.
Look(c, p) ==
  /\ holder = None /\ Admits(ws, p, c)
  /\ ws' = State(ws, p, c) /\ Informs({c}) /\ Heard(c)
  /\ slot' = IF slot.id # 0 /\ slot.path = p /\ slot.owner = c /\ IsDriver(ws, p, c)
             THEN [slot EXCEPT !.quiet = 0] ELSE slot
  /\ UNCHANGED <<holder, namespace, opening, disposer, doc, run, jupyterVars, executed>>

-----------------------------------------------------------------------------
(* Disposal: dispose_expected, by a close, the reaper or a microscope command. *)

\* What a caller of dispose_expected does next: a microscope command goes on
\* only if it succeeded; the reaper sleeps again; a close is over.
Disposed(d, ok) ==
  /\ disposer' = [disposer EXCEPT ![d] =
       IF d = "edit" /\ ok THEN [NoDispose EXCEPT !.stage = "write"] ELSE NoDispose]
  /\ namespace' = IF d = "edit" /\ ~ok THEN None ELSE namespace

\* The slot is free already, or another playground's than expected.
NothingToDispose(d) ==
  /\ disposer[d].stage = "dispose" /\ holder = None
  /\ slot.id = 0 \/ disposer[d].id \notin {0, slot.id}
  /\ Disposed(d, slot.id = 0)
  /\ UNCHANGED <<vars, slotVars, opening, doc, run, jupyterVars, executed, silent>>
MarkClosing(d) ==
  /\ disposer[d].stage = "dispose" /\ holder = None
  /\ slot.id # 0 /\ disposer[d].id \in {0, slot.id}
  /\ slot' = [slot EXCEPT !.closing = TRUE]
  /\ holder' = d
  /\ disposer' = [disposer EXCEPT ![d].stage = "delete"]
  /\ UNCHANGED <<vars, namespace, opening, doc, run, jupyterVars, executed, silent>>

\* The session is deleted, or was gone already (404).
Deleted(d) ==
  /\ disposer[d].stage = "delete"
  /\ sessions' = sessions \ {slot.id}
  /\ slot' = Empty /\ holder' = None
  /\ Disposed(d, TRUE)
  /\ UNCHANGED <<vars, opening, doc, run, opens, lost, executed, silent>>

\* Mutant: the slot is emptied whatever Jupyter answered.
DeleteForgets(d) ==
  /\ disposer[d].stage = "delete"
  /\ UNCHANGED sessions
  /\ slot' = Empty /\ holder' = None
  /\ Disposed(d, FALSE)
  /\ UNCHANGED <<vars, opening, doc, run, opens, lost, executed, silent>>

\* The request or its answer is lost, or the client that asked for the close
\* went away while it waited; the slot stays closing.
DeleteFails(d) ==
  /\ disposer[d].stage = "delete"
  /\ sessions' \in {sessions, sessions \ {slot.id}}
  /\ holder' = None
  /\ Disposed(d, FALSE)
  /\ UNCHANGED <<vars, slot, opening, doc, run, opens, lost, executed, silent>>

Close(c, p, id) ==
  /\ disposer[c].stage = "none" /\ IsDriver(ws, p, c)
  /\ Authenticate(c, p)
  /\ disposer' = [disposer EXCEPT ![c] = [NoDispose EXCEPT !.stage = "dispose", !.id = id]]
  /\ UNCHANGED <<slotVars, namespace, opening, doc, run, jupyterVars, executed>>

\* Mutants: the reaper forgets playgrounds marked closing, or their age.
ReapUnmarked ==
  /\ disposer["reaper"].stage = "none" /\ holder = None /\ slot.id # 0
  /\ disposer' = [disposer EXCEPT !["reaper"] =
       [stage |-> "ask", id |-> slot.id, owner |-> slot.owner, path |-> slot.path,
        expired |-> slot.quiet > Expiry]]
  /\ UNCHANGED <<vars, slotVars, namespace, opening, doc, run, jupyterVars, executed, silent>>
ReapAgeless ==
  /\ disposer["reaper"].stage = "none" /\ holder = None /\ slot.id # 0
  /\ disposer' = [disposer EXCEPT !["reaper"] =
       [stage |-> "ask", id |-> slot.id, owner |-> slot.owner, path |-> slot.path,
        expired |-> slot.closing]]
  /\ UNCHANGED <<vars, slotVars, namespace, opening, doc, run, jupyterVars, executed, silent>>

\* The reaper wakes up (its five seconds are not counted), then asks for the
\* owner's role in a request of the owner's own, which renews its lease.
Reap ==
  /\ disposer["reaper"].stage = "none" /\ holder = None /\ slot.id # 0
  /\ disposer' = [disposer EXCEPT !["reaper"] =
       [stage |-> "ask", id |-> slot.id, owner |-> slot.owner, path |-> slot.path,
        expired |-> slot.closing \/ slot.quiet > Expiry]]
  /\ UNCHANGED <<vars, slotVars, namespace, opening, doc, run, jupyterVars, executed, silent>>
ReapAsked ==
  LET r == disposer["reaper"] IN
  /\ r.stage = "ask"
  /\ Ask(r.owner, r.path)
  /\ disposer' = [disposer EXCEPT !["reaper"] =
       IF r.expired \/ ~IsDriver(ws, r.path, r.owner)
       THEN [NoDispose EXCEPT !.stage = "dispose", !.id = r.id] ELSE NoDispose]
  /\ UNCHANGED <<slotVars, namespace, opening, doc, run, jupyterVars, executed, silent>>

\* A command that replaces or deletes the microscope of the playground's
\* step: under the namespace guard it looks for an affected playground,
\* disposes of it, and only then writes the document.
EditBegins ==
  /\ disposer["edit"].stage = "none" /\ namespace = None /\ doc < MaxEdits
  /\ namespace' = "edit"
  /\ disposer' = [disposer EXCEPT !["edit"].stage = "look"]
  /\ UNCHANGED <<vars, slotVars, opening, doc, run, jupyterVars, executed, silent>>
EditLooks ==
  /\ disposer["edit"].stage = "look" /\ holder = None
  /\ disposer' = [disposer EXCEPT !["edit"].stage = IF slot.id # 0 THEN "dispose" ELSE "write"]
  /\ UNCHANGED <<vars, slotVars, namespace, opening, doc, run, jupyterVars, executed, silent>>
EditWrites ==
  /\ disposer["edit"].stage = "write"
  /\ doc' = doc + 1
  /\ namespace' = None
  /\ disposer' = [disposer EXCEPT !["edit"] = NoDispose]
  /\ UNCHANGED <<vars, slotVars, opening, run, jupyterVars, executed, silent>>

-----------------------------------------------------------------------------
(* Commands. *)

Request(k, c, p, id, kind) ==
  /\ run[k].stage = "none" /\ IsDriver(ws, p, c)
  /\ Authenticate(c, p)
  /\ run' = [run EXCEPT ![k] = [NoRun EXCEPT !.stage = "asked", !.client = c,
                                  !.path = p, !.id = id, !.kind = kind]]
  /\ UNCHANGED <<slotVars, namespace, opening, disposer, doc, jupyterVars, executed>>

Goto(k, stage) == run' = [run EXCEPT ![k].stage = stage]
Ends(k) == run' = [run EXCEPT ![k] = NoRun]

\* Mutants: a running playground takes further commands, or a key is only
\* remembered with its result.
AdmissibleBusy(k) ==
  LET r == run[k] IN
  /\ slot.id # 0 /\ slot.id = r.id /\ slot.path = r.path /\ slot.owner = r.client
  /\ ~slot.closing
  /\ slot.seen[k] = "new"
  /\ Cardinality({j \in Command : slot.seen[j] # "new"}) < MaxSeen
AdmissibleUnfinished(k) ==
  LET r == run[k] IN
  /\ slot.id # 0 /\ slot.id = r.id /\ slot.path = r.path /\ slot.owner = r.client
  /\ ~slot.closing
  /\ Cardinality({j \in Command : slot.seen[j] # "new"}) < MaxSeen
  /\ ~slot.busy \/ r.kind = "Interrupt"

\* What `run` asks under the slot's mutex.
Admissible(k) ==
  LET r == run[k] IN
  /\ slot.id # 0 /\ slot.id = r.id /\ slot.path = r.path /\ slot.owner = r.client
  /\ ~slot.closing
  /\ slot.seen[k] = "new"
  /\ Cardinality({j \in Command : slot.seen[j] # "new"}) < MaxSeen
  /\ ~slot.busy \/ r.kind = "Interrupt"

\* Refused, replayed, or a revision that is out of date.
RunRefused(k) ==
  /\ run[k].stage = "asked" /\ holder = None
  /\ Ends(k)
  /\ UNCHANGED <<vars, slotVars, namespace, opening, disposer, doc, jupyterVars, executed, silent>>
RunAccepted(k) ==
  LET r == run[k] IN
  /\ r.stage = "asked" /\ holder = None
  /\ Admissible(k)
  /\ slot' = [slot EXCEPT !.busy = @ \/ r.kind # "Interrupt", !.quiet = 0,
                          !.seen[k] = "accepted"]
  /\ run' = [run EXCEPT ![k].revision = IF r.kind = "Execute" THEN slot.revision + 1
                                         ELSE slot.revision,
                        ![k].stage = CASE r.kind \in {"Modify", "Execute"} -> "publish"
                                       [] OTHER -> "request"]
  /\ UNCHANGED <<vars, holder, namespace, opening, disposer, doc, jupyterVars, executed, silent>>

\* Mutant: a playground that is closing is still published into.
PublishUnlessGone(k) ==
  LET r == run[k]
      next == CASE r.kind # "Execute" \/ r.updates > MaxUpdates -> "finish"
                [] r.updates = 0 -> "request"
                [] OTHER -> "execute"
  IN
  /\ r.stage = "publish" /\ holder = None
  /\ IF slot.id = r.id
     THEN slot' = [slot EXCEPT !.revision = r.revision] /\ Goto(k, next)
     ELSE run' = [run EXCEPT ![k].stage = "finish", ![k].ok = FALSE] /\ UNCHANGED slot
  /\ UNCHANGED <<vars, holder, namespace, opening, disposer, doc, jupyterVars, executed, silent>>

\* `publish`: only into the playground the command was accepted for, and
\* only while that is not closing.
Publish_(k) ==
  LET r == run[k]
      next == CASE r.kind # "Execute" \/ r.updates > MaxUpdates -> "finish"
                [] r.updates = 0 -> "request"
                [] OTHER -> "execute"
  IN
  /\ r.stage = "publish" /\ holder = None
  /\ IF slot.id = r.id /\ ~slot.closing
     THEN /\ slot' = [slot EXCEPT !.revision = r.revision]
          /\ Goto(k, next)
     ELSE run' = [run EXCEPT ![k].stage = "finish", ![k].ok = FALSE] /\ UNCHANGED slot
  /\ UNCHANGED <<vars, holder, namespace, opening, disposer, doc, jupyterVars, executed, silent>>

\* The socket and its request, or the interrupt's POST.
SendRequest(k) ==
  LET r == run[k] IN
  /\ r.stage = "request"
  /\ executed' = IF r.kind = "Execute" THEN [executed EXCEPT ![<<r.id, k>>] = @ + 1] ELSE executed
  /\ Goto(k, IF r.kind = "Execute" THEN "execute" ELSE "finish")
  /\ UNCHANGED <<vars, slotVars, namespace, opening, disposer, doc, jupyterVars, silent>>

\* An output is published at a new revision; reply and idle end the loop.
Output(k) ==
  /\ run[k].stage = "execute" /\ run[k].updates < MaxUpdates
  /\ run' = [run EXCEPT ![k].stage = "publish", ![k].revision = @ + 1, ![k].updates = @ + 1]
  /\ UNCHANGED <<vars, slotVars, namespace, opening, disposer, doc, jupyterVars, executed, silent>>
ExecutionEnds(k) ==
  /\ run[k].stage = "execute"
  /\ run' = [run EXCEPT ![k].stage = "publish", ![k].revision = @ + 1,
                        ![k].updates = MaxUpdates + 1]
  /\ UNCHANGED <<vars, slotVars, namespace, opening, disposer, doc, jupyterVars, executed, silent>>

\* The edit does not apply, a socket or request fails, the reply is
\* malformed, or time is up.
RunFails(k) ==
  /\ \/ run[k].stage \in {"request", "execute"}
     \/ run[k].stage = "publish" /\ run[k].kind = "Modify"
  /\ run' = [run EXCEPT ![k].stage = "finish", ![k].ok = FALSE]
  /\ UNCHANGED <<vars, slotVars, namespace, opening, disposer, doc, jupyterVars, executed, silent>>

\* The end of `run`: a failed execution gives the playground up.
RunFinishes(k) ==
  LET r == run[k] IN
  /\ r.stage = "finish" /\ holder = None
  /\ slot' = IF slot.id # r.id THEN slot
             ELSE [slot EXCEPT !.busy = @ /\ r.kind = "Interrupt",
                               !.closing = @ \/ (r.kind = "Execute" /\ ~r.ok),
                               !.seen[k] = "done"]
  /\ Ends(k)
  /\ UNCHANGED <<vars, holder, namespace, opening, disposer, doc, jupyterVars, executed, silent>>

-----------------------------------------------------------------------------
\* A second passes for leases, for the playground and for the history.
Second ==
  /\ Tick
  /\ slot' = IF slot.id # 0 /\ slot.quiet <= Expiry THEN [slot EXCEPT !.quiet = @ + 1] ELSE slot
  /\ silent' = [c \in Client |-> IF c \in ws.members /\ silent[c] <= Lease
                                 THEN silent[c] + 1 ELSE silent[c]]
  /\ UNCHANGED <<holder, namespace, opening, disposer, doc, run, jupyterVars, executed>>

\* Other requests of the clients.
Elsewhere(c, p) ==
  /\ JoinRequest(c, p) \/ Ask(c, p) \/ ("claim" \in Activities /\ Claim(c, p))
  /\ Heard(c)
  /\ UNCHANGED <<slotVars, namespace, opening, disposer, doc, run, jupyterVars, executed>>

Opening(c) == TakeNamespace(c) \/ TakeSlot(c) \/ ReadStep(c) \/ Start(c) \/ OpenFails(c)
Disposing(d) == NothingToDispose(d) \/ MarkClosing(d) \/ Deleted(d) \/ DeleteFails(d)
Reaping == Reap \/ ReapAsked \/ Disposing("reaper")
Editing == EditLooks \/ EditWrites \/ Disposing("edit")
Running(k) == RunRefused(k) \/ RunAccepted(k) \/ Publish_(k) \/ SendRequest(k)
              \/ Output(k) \/ ExecutionEnds(k) \/ RunFails(k) \/ RunFinishes(k)

PlaygroundNext ==
  \/ "time" \in Activities /\ Second
  \/ "edit" \in Activities /\ EditBegins
  \/ Reaping \/ Editing
  \/ \E c \in Client : Opening(c) \/ Disposing(c)
  \/ \E c \in Client, p \in Path :
       \/ Elsewhere(c, p) \/ Open_(c, p)
       \/ "look" \in Activities /\ Look(c, p)
       \/ "close" \in Activities /\ \E id \in 1 .. opens : Close(c, p, id)
       \/ /\ "run" \in Activities
          /\ \E k \in Command, id \in 1 .. opens, kind \in Kinds : Request(k, c, p, id, kind)
  \/ \E k \in Command : Running(k)

PlaygroundSpec == PlaygroundInit /\ [][PlaygroundNext]_playgroundVars

\* Tokio runs every task; its mutexes are first come first served, so whoever
\* waits for one that is free again and again gets it; a deletion that is
\* repeated for ever succeeds some time.  Time passes.
FairPlaygroundSpec ==
  /\ PlaygroundSpec
  /\ WF_playgroundVars(Second)
  /\ WF_playgroundVars(\E c \in Client : Opening(c) /\ opening'[c] # opening[c])
  /\ \A d \in Disposers : WF_playgroundVars(Deleted(d) \/ DeleteFails(d))
  /\ SF_playgroundVars(Reap) /\ WF_playgroundVars(ReapAsked)
  /\ SF_playgroundVars(NothingToDispose("reaper") \/ MarkClosing("reaper"))
  /\ SF_playgroundVars(Deleted("reaper"))

-----------------------------------------------------------------------------
(* Properties. *)

\* Type invariant: in particular a filled slot always has an owner to ask for.
PlaygroundTypeOK ==
  /\ slot \in [id : Ids, owner : Client \cup {None}, path : Path \cup {None}, doc : Nat,
               busy : BOOLEAN, closing : BOOLEAN, quiet : 0 .. Expiry + 1, revision : Nat,
               seen : [Command -> {"new", "accepted", "done"}]]
  /\ holder \in Disposers \cup {None}
  /\ namespace \in Client \cup {"edit", None}
  /\ opening \in [Client -> [stage : {"none", "queued", "guarded", "reading", "starting"},
                             path : Path \cup {None}, doc : Nat]]
  /\ disposer \in [Disposers ->
       [stage : {"none", "ask", "look", "dispose", "delete", "write"}, id : Ids,
        owner : Client \cup {None}, path : Path \cup {None}, expired : BOOLEAN]]
  /\ doc \in Nat /\ opens \in Ids /\ sessions \subseteq Ids /\ lost \subseteq Ids
  /\ executed \in [Ids \X Command -> Nat]
  /\ slot.id # 0 => slot.owner \in Client /\ slot.path \in Path

\* No kernel is left behind: every playground session at Jupyter is the one in
\* the slot, or one whose creation was never answered, whatever disposals
\* overlapped, failed or were abandoned.
SessionsAccountedFor == sessions \subseteq {slot.id} \cup lost

\* "Replacement/deletion of its microscope ... closes it" (docs/microscope.md):
\* a playground never runs the code of a document that was replaced.
OpenMatchesDocument == slot.id # 0 => slot.doc = doc

\* A key is sent to one playground's kernel at most once, however it is retried.
PlaygroundAtMostOnce == \A x \in Ids \X Command : executed[x] <= 1

\* The slot is true: its session is known, its document is the current one, and
\* its commands were sent to the kernel once.
PlaygroundInv ==
  PlaygroundTypeOK /\ SessionsAccountedFor /\ OpenMatchesDocument /\ PlaygroundAtMostOnce

\* A playground only moves forward: its commands publish in the order of its
\* revisions, and what was marked closing is never worked on again.
PlaygroundAdvances ==
  [][ slot'.id = slot.id =>
        /\ slot'.revision >= slot.revision
        /\ slot.closing => slot'.closing /\ slot'.revision = slot.revision ]_playgroundVars

\* "Failed cleanup stays marked closing and is retried" (docs/microscope.md)
\* until the slot is free.
ClosingEnds == \A i \in 1 .. MaxOpens : (slot.id = i /\ slot.closing) ~> slot.id # i

\* An owner that is never heard of again does not keep its playground.
AbandonedEnds ==
  \A i \in 1 .. MaxOpens :
    []<>(slot.id = i) => []<>(slot.id = i /\ slot.quiet = 0)

\* Every playground that is given up ends, although only the reaper ends it and
\* its deletions may fail many times.
PlaygroundsEnd == ClosingEnds /\ AbandonedEnds

-----------------------------------------------------------------------------
(* A statement of the documentation that the code does not keep. *)

\* "Connections expire after 45 seconds without a heartbeat; the next
\* membership check elects the oldest survivor" (docs/collaboration.md): once
\* another client has been answered, no connected client has been silent for
\* longer than the lease.
SilentConnectionsExpire ==
  [][ \A c \in Client, p \in Path :
        Elsewhere(c, p) => \A d \in ws'.members : silent'[d] <= Lease ]_playgroundVars
=============================================================================
