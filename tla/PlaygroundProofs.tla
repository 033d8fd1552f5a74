-------------------------- MODULE PlaygroundProofs --------------------------
(***************************************************************************)
(* Proofs about Playground, for any clients, commands and bounds: the slot *)
(* is true (no session is left behind, no replaced document runs, no key   *)
(* is sent twice), and a playground only moves forward.                    *)
(*                                                                         *)
(* None of this depends on who drives: whatever the workspace answers, the *)
(* two mutexes and the slot's own record are enough.  The invariant says   *)
(* what each request knows between two of its awaits: which guards it      *)
(* holds, and what it was told of the slot that is still so.               *)
(***************************************************************************)
EXTENDS Playground, TLAPS

Task ==
  [stage : {"none", "asked", "publish", "request", "execute", "finish"},
   client : Client \cup {None}, path : Path \cup {None}, id : Ids,
   kind : {"Modify", "Execute", "Complete", "Interrupt"},
   revision : Nat, updates : Nat, ok : BOOLEAN]

TypeInv == PlaygroundTypeOK /\ run \in [Command -> Task]

\* Playgrounds are numbered in the order of their sessions.
Numbered ==
  /\ slot.id <= opens
  /\ sessions \subseteq 1 .. opens
  /\ \A k \in Command : run[k].stage # "none" => run[k].id \in 1 .. opens

\* Who is past a mutex holds it: whoever reads and starts a playground finds
\* the slot empty until the end, whoever deletes one finds it filled.
Guarded ==
  /\ \A c \in Client : opening[c].stage # "none" => opening[c].path \in Path
  /\ \A c \in Client : opening[c].stage \in {"guarded", "reading", "starting"} => namespace = c
  /\ \A c \in Client : opening[c].stage \in {"reading", "starting"} => holder = c /\ slot.id = 0
  /\ \A d \in Disposers : disposer[d].stage = "delete" => holder = d /\ slot.id # 0
  /\ disposer["edit"].stage # "none" => namespace = "edit"

\* A document that was read for a playground is still the stored one when the
\* kernel has started, and is replaced only when there is no playground.
Documents ==
  /\ \A c \in Client : opening[c].stage = "starting" => opening[c].doc = doc
  /\ disposer["edit"].stage = "write" => slot.id = 0

\* Command k was accepted by the playground that is in the slot now.
Working(k) == run[k].stage \notin {"none", "asked"} /\ run[k].id = slot.id

\* A key whose code is still to be sent was not sent before.
Sent ==
  /\ \A i \in Ids, k \in Command : i \notin 1 .. opens => executed[<<i, k>>] = 0
  /\ \A k \in Command : slot.seen[k] = "new" => executed[<<slot.id, k>>] = 0 /\ ~Working(k)
  /\ \A k \in Command :
       /\ run[k].kind = "Execute"
       /\ run[k].stage = "request" \/ (run[k].stage = "publish" /\ run[k].updates = 0)
       => executed[<<run[k].id, k>>] = 0

\* One command besides interrupts works in a playground, and none that works
\* is behind it.
Ordered ==
  /\ \A k \in Command : run[k].stage \in {"publish", "execute"} => run[k].kind # "Interrupt"
  /\ \A k \in Command : Working(k) /\ run[k].kind # "Interrupt" =>
       slot.busy /\ run[k].revision >= slot.revision
  /\ \A k, j \in Command :
       Working(k) /\ Working(j) /\ run[k].kind # "Interrupt" /\ run[j].kind # "Interrupt" => k = j

IInv ==
  /\ TypeInv /\ Numbered
  /\ SessionsAccountedFor /\ OpenMatchesDocument /\ PlaygroundAtMostOnce
  /\ Guarded /\ Documents /\ Sent /\ Ordered

\* What a step may do to the slot.
Advance ==
  slot'.id = slot.id =>
    /\ slot'.revision >= slot.revision
    /\ slot.closing => slot'.closing /\ slot'.revision = slot.revision

SlotType ==
  [id : Ids, owner : Client \cup {None}, path : Path \cup {None}, doc : Nat,
   busy : BOOLEAN, closing : BOOLEAN, quiet : 0 .. Expiry + 1, revision : Nat,
   seen : [Command -> {"new", "accepted", "done"}]]

OpenType ==
  [stage : {"none", "queued", "guarded", "reading", "starting"},
   path : Path \cup {None}, doc : Nat]

DisposeType ==
  [stage : {"none", "ask", "look", "dispose", "delete", "write"}, id : Ids,
   owner : Client \cup {None}, path : Path \cup {None}, expired : BOOLEAN]

-----------------------------------------------------------------------------
(* Types, and what a step that leaves part of the state alone preserves. *)

LEMMA TypeParts ==
  TypeInv <=>
    /\ slot \in SlotType /\ (slot.id # 0 => slot.owner \in Client /\ slot.path \in Path)
    /\ holder \in Disposers \cup {None} /\ namespace \in Client \cup {"edit", None}
    /\ opening \in [Client -> OpenType] /\ disposer \in [Disposers -> DisposeType]
    /\ doc \in Nat /\ opens \in Ids /\ sessions \subseteq Ids /\ lost \subseteq Ids
    /\ executed \in [Ids \X Command -> Nat] /\ run \in [Command -> Task]
BY DEF TypeInv, PlaygroundTypeOK, SlotType, OpenType, DisposeType

\* The constants that stand for nothing done yet have their types.
LEMMA Constants ==
  /\ Empty \in SlotType /\ Empty.id = 0 /\ Empty.revision = 0 /\ Empty.busy = FALSE
  /\ \A k \in Command : Empty.seen[k] = "new"
  /\ NoOpen \in OpenType /\ NoOpen.stage = "none"
  /\ NoDispose \in DisposeType /\ NoDispose.stage = "none"
  /\ NoRun \in Task /\ NoRun.stage = "none" /\ NoRun.kind = "Modify"
  /\ 0 \in Ids /\ MaxOpens \in Nat /\ "edit" \notin Client /\ None # "edit"
  /\ None \notin Client /\ None \notin Disposers /\ Client \subseteq Disposers
BY PlaygroundAssumption, CollaborationAssumption DEF Disposers, Empty, NoOpen, NoDispose, NoRun, SlotType, OpenType, DisposeType, Task, Ids

\* A step that neither runs commands nor fills or empties the slot keeps what
\* is known of the commands.
LEMMA CommandsApart ==
  ASSUME IInv, UNCHANGED <<run, opens, executed>>,
         slot'.id = slot.id, slot'.seen = slot.seen, slot'.busy = slot.busy,
         slot'.revision = slot.revision, slot.closing => slot'.closing
  PROVE  PlaygroundAtMostOnce' /\ Sent' /\ Ordered' /\ Advance
<1>1. PlaygroundAtMostOnce' /\ Sent'
  BY DEF IInv, PlaygroundAtMostOnce, Sent, Working
<1>2. Ordered'
  BY DEF IInv, Ordered, Working
<1>3. slot.revision >= slot.revision
  BY TypeParts DEF IInv, SlotType
<1> QED
  BY <1>1, <1>2, <1>3 DEF Advance

\* A step that takes or releases no guard and leaves the notebooks alone keeps
\* what is known of the sessions and the document.
LEMMA GuardsApart ==
  ASSUME IInv, UNCHANGED <<holder, namespace, opening, disposer, doc, sessions, lost>>,
         slot'.id = slot.id, slot'.doc = slot.doc
  PROVE  SessionsAccountedFor' /\ OpenMatchesDocument' /\ Guarded' /\ Documents'
BY DEF IInv, SessionsAccountedFor, OpenMatchesDocument, Guarded, Documents

\* A step that only touches leases, or the age of the playground.
LEMMA LeasesApart ==
  ASSUME IInv,
         UNCHANGED <<holder, namespace, opening, disposer, doc, run, opens, sessions, lost, executed>>,
         NEW q \in 0 .. Expiry + 1, slot' \in {slot, [slot EXCEPT !.quiet = q]}
  PROVE  IInv' /\ Advance
<1>1. slot \in SlotType
  BY TypeParts DEF IInv
<1>2. /\ slot' \in SlotType /\ slot'.id = slot.id /\ slot'.seen = slot.seen
      /\ slot'.busy = slot.busy /\ slot'.revision = slot.revision /\ slot'.doc = slot.doc
      /\ slot'.closing = slot.closing /\ slot'.owner = slot.owner /\ slot'.path = slot.path
  BY <1>1 DEF SlotType
<1>3. TypeInv'
  BY <1>2, TypeParts DEF IInv, TypeInv, PlaygroundTypeOK, SlotType
<1>4. Numbered'
  BY <1>2 DEF IInv, Numbered
<1> QED
  BY <1>2, <1>3, <1>4, CommandsApart, GuardsApart DEF IInv
-----------------------------------------------------------------------------
(* Where a request stands. *)

\* The request of one client, or one disposal, went on to a stage.
OpeningAt(c, s) ==
  /\ opening'[c].stage = s /\ opening'[c].doc = opening[c].doc
  /\ opening'[c].path = opening[c].path
  /\ \A e \in Client \ {c} : opening'[e] = opening[e]
DisposerAt(d, s) ==
  /\ disposer'[d].stage = s /\ disposer'[d].id = disposer[d].id
  /\ \A e \in Disposers \ {d} : disposer'[e] = disposer[e]

LEMMA OpeningGoes ==
  ASSUME opening \in [Client -> OpenType], NEW c \in Client,
         NEW s \in {"none", "queued", "guarded", "reading", "starting"},
         opening' = [opening EXCEPT ![c].stage = s]
  PROVE  opening' \in [Client -> OpenType] /\ OpeningAt(c, s)
<1>1. opening[c] \in OpenType
  OBVIOUS
<1>2. /\ [opening[c] EXCEPT !.stage = s] \in OpenType
      /\ [opening[c] EXCEPT !.stage = s].stage = s
      /\ [opening[c] EXCEPT !.stage = s].doc = opening[c].doc
      /\ [opening[c] EXCEPT !.stage = s].path = opening[c].path
  BY <1>1 DEF OpenType
<1> QED
  BY <1>2 DEF OpeningAt

LEMMA DisposerGoes ==
  ASSUME disposer \in [Disposers -> DisposeType], NEW d \in Disposers,
         NEW s \in {"none", "ask", "look", "dispose", "delete", "write"},
         disposer' = [disposer EXCEPT ![d].stage = s]
  PROVE  disposer' \in [Disposers -> DisposeType] /\ DisposerAt(d, s)
<1>1. disposer[d] \in DisposeType
  OBVIOUS
<1>2. /\ [disposer[d] EXCEPT !.stage = s] \in DisposeType
      /\ [disposer[d] EXCEPT !.stage = s].stage = s
      /\ [disposer[d] EXCEPT !.stage = s].id = disposer[d].id
  BY <1>1 DEF DisposeType
<1> QED
  BY <1>2 DEF DisposerAt

-----------------------------------------------------------------------------
(* Opening. *)

LEMMA OpenAskedKeeps ==
  ASSUME IInv, NEW c \in Client, NEW p \in Path, Open_(c, p)
  PROVE  IInv' /\ Advance
<1>1. TypeInv'
  BY TypeParts, Constants DEF IInv, Open_, OpenType, slotVars, jupyterVars, TypeInv, PlaygroundTypeOK, SlotType, OpenType, DisposeType
<1>2. Numbered' /\ SessionsAccountedFor' /\ OpenMatchesDocument'
  BY Constants DEF IInv, Numbered, Guarded, Documents, SessionsAccountedFor, OpenMatchesDocument, Open_, OpenType, slotVars, jupyterVars
<1>3. Guarded' /\ Documents'
  BY TypeParts, Constants DEF IInv, Guarded, Documents, Disposers, Open_, OpenType, slotVars, jupyterVars
<1>4. PlaygroundAtMostOnce' /\ Sent' /\ Ordered' /\ Advance
  BY CommandsApart DEF Open_, OpenType, slotVars, jupyterVars
<1> QED
  BY <1>1, <1>2, <1>3, <1>4 DEF IInv

LEMMA TakeNamespaceKeeps ==
  ASSUME IInv, NEW c \in Client, TakeNamespace(c)
  PROVE  IInv' /\ Advance
<1>0. opening' \in [Client -> OpenType] /\ OpeningAt(c, "guarded")
  BY TypeParts, OpeningGoes DEF IInv, TakeNamespace
<1>1. TypeInv'
  BY <1>0, TypeParts, Constants DEF IInv, TakeNamespace, OpeningAt, slotVars, jupyterVars, TypeInv, PlaygroundTypeOK, SlotType, OpenType, DisposeType
<1>2. Numbered' /\ SessionsAccountedFor' /\ OpenMatchesDocument'
  BY <1>0, Constants DEF IInv, Numbered, Guarded, Documents, SessionsAccountedFor, OpenMatchesDocument, TakeNamespace, OpeningAt, slotVars, jupyterVars
<1>3. Guarded' /\ Documents'
  BY <1>0, TypeParts, Constants DEF IInv, Guarded, Documents, Disposers, TakeNamespace, OpeningAt, slotVars, jupyterVars
<1>4. PlaygroundAtMostOnce' /\ Sent' /\ Ordered' /\ Advance
  BY <1>0, CommandsApart DEF TakeNamespace, OpeningAt, slotVars, jupyterVars
<1> QED
  BY <1>1, <1>2, <1>3, <1>4 DEF IInv

LEMMA TakeSlotKeeps ==
  ASSUME IInv, NEW c \in Client, TakeSlot(c)
  PROVE  IInv' /\ Advance
<1>0. /\ opening' \in [Client -> OpenType]
      /\ \/ opening' = [opening EXCEPT ![c] = NoOpen]
         \/ slot.id = 0 /\ OpeningAt(c, "reading")
  BY TypeParts, Constants, OpeningGoes DEF IInv, TakeSlot
<1>1. TypeInv'
  BY <1>0, TypeParts, Constants DEF IInv, TakeSlot, OpeningAt, slotVars, jupyterVars, TypeInv, PlaygroundTypeOK, SlotType, OpenType, DisposeType
<1>2. Numbered' /\ SessionsAccountedFor' /\ OpenMatchesDocument'
  BY <1>0, Constants DEF IInv, Numbered, Guarded, Documents, SessionsAccountedFor, OpenMatchesDocument, TakeSlot, OpeningAt, slotVars, jupyterVars
<1>3. Guarded' /\ Documents'
  BY <1>0, TypeParts, Constants DEF IInv, Guarded, Documents, Disposers, TakeSlot, OpeningAt, slotVars, jupyterVars
<1>4. PlaygroundAtMostOnce' /\ Sent' /\ Ordered' /\ Advance
  BY <1>0, CommandsApart DEF TakeSlot, OpeningAt, slotVars, jupyterVars
<1> QED
  BY <1>1, <1>2, <1>3, <1>4 DEF IInv

LEMMA ReadStepKeeps ==
  ASSUME IInv, NEW c \in Client, ReadStep(c)
  PROVE  IInv' /\ Advance
<1>0. opening' \in [Client -> OpenType] /\ opening'[c].path = opening[c].path
  <2>1. opening[c] \in OpenType /\ doc \in Nat
    BY TypeParts DEF IInv
  <2>2. [opening[c] EXCEPT !.stage = "starting", !.doc = doc] \in OpenType
        /\ [opening[c] EXCEPT !.stage = "starting", !.doc = doc].path = opening[c].path
    BY <2>1 DEF OpenType
  <2> QED
    BY <2>2, TypeParts DEF IInv, ReadStep
<1>1. TypeInv'
  BY <1>0, TypeParts, Constants DEF IInv, ReadStep, slotVars, jupyterVars, TypeInv, PlaygroundTypeOK, SlotType, OpenType, DisposeType
<1>2. Numbered' /\ SessionsAccountedFor' /\ OpenMatchesDocument'
  BY <1>0, Constants DEF IInv, Numbered, Guarded, Documents, SessionsAccountedFor, OpenMatchesDocument, ReadStep, slotVars, jupyterVars
<1>3. Guarded' /\ Documents'
  BY <1>0, TypeParts, Constants DEF IInv, Guarded, Documents, Disposers, ReadStep, slotVars, jupyterVars
<1>4. PlaygroundAtMostOnce' /\ Sent' /\ Ordered' /\ Advance
  BY <1>0, CommandsApart DEF ReadStep, slotVars, jupyterVars
<1> QED
  BY <1>1, <1>2, <1>3, <1>4 DEF IInv
-----------------------------------------------------------------------------
(* Disposal. *)

LEMMA NothingToDisposeKeeps ==
  ASSUME IInv, NEW d \in Disposers, NothingToDispose(d)
  PROVE  IInv' /\ Advance
<1>1. TypeInv'
  BY TypeParts, Constants DEF IInv, NothingToDispose, Disposed, slotVars, jupyterVars, TypeInv, PlaygroundTypeOK, SlotType, OpenType, DisposeType
<1>2. Numbered' /\ SessionsAccountedFor' /\ OpenMatchesDocument'
  BY Constants DEF IInv, Numbered, Guarded, Documents, SessionsAccountedFor, OpenMatchesDocument, NothingToDispose, Disposed, slotVars, jupyterVars
<1>3. Guarded' /\ Documents'
  BY TypeParts, Constants DEF IInv, Guarded, Documents, Disposers, NothingToDispose, Disposed, slotVars, jupyterVars
<1>4. PlaygroundAtMostOnce' /\ Sent' /\ Ordered' /\ Advance
  BY CommandsApart DEF NothingToDispose, Disposed, slotVars, jupyterVars
<1> QED
  BY <1>1, <1>2, <1>3, <1>4 DEF IInv

LEMMA MarkClosingKeeps ==
  ASSUME IInv, NEW d \in Disposers, MarkClosing(d)
  PROVE  IInv' /\ Advance
<1>0. /\ disposer' \in [Disposers -> DisposeType] /\ DisposerAt(d, "delete")
      /\ slot' \in SlotType /\ slot'.closing /\ slot'.busy = slot.busy
      /\ slot'.id = slot.id /\ slot'.owner = slot.owner /\ slot'.path = slot.path
      /\ slot'.doc = slot.doc /\ slot'.seen = slot.seen /\ slot'.revision = slot.revision
  <2>1. slot \in SlotType /\ slot' = [slot EXCEPT !.closing = TRUE]
    BY TypeParts DEF IInv, MarkClosing
  <2>2. disposer' \in [Disposers -> DisposeType] /\ DisposerAt(d, "delete")
    BY TypeParts, DisposerGoes DEF IInv, MarkClosing
  <2> QED
    BY <2>1, <2>2 DEF SlotType
<1>1. TypeInv'
  BY <1>0, TypeParts, Constants DEF IInv, MarkClosing, DisposerAt, slotVars, jupyterVars, TypeInv, PlaygroundTypeOK, SlotType, OpenType, DisposeType
<1>2. Numbered' /\ SessionsAccountedFor' /\ OpenMatchesDocument'
  BY <1>0, Constants DEF IInv, Numbered, Guarded, Documents, SessionsAccountedFor, OpenMatchesDocument, MarkClosing, DisposerAt, slotVars, jupyterVars
<1>3. Guarded' /\ Documents'
  BY <1>0, TypeParts, Constants DEF IInv, Guarded, Documents, Disposers, MarkClosing, DisposerAt, slotVars, jupyterVars
<1>4. PlaygroundAtMostOnce' /\ Sent' /\ Ordered' /\ Advance
  BY <1>0, CommandsApart DEF MarkClosing, DisposerAt, slotVars, jupyterVars
<1> QED
  BY <1>1, <1>2, <1>3, <1>4 DEF IInv

LEMMA DeleteFailsKeeps ==
  ASSUME IInv, NEW d \in Disposers, DeleteFails(d)
  PROVE  IInv' /\ Advance
<1>1. TypeInv'
  BY TypeParts, Constants DEF IInv, DeleteFails, Disposed, slotVars, jupyterVars, TypeInv, PlaygroundTypeOK, SlotType, OpenType, DisposeType
<1>2. Numbered' /\ SessionsAccountedFor' /\ OpenMatchesDocument'
  BY Constants DEF IInv, Numbered, Guarded, Documents, SessionsAccountedFor, OpenMatchesDocument, DeleteFails, Disposed, slotVars, jupyterVars
<1>3. Guarded' /\ Documents'
  BY TypeParts, Constants DEF IInv, Guarded, Documents, Disposers, DeleteFails, Disposed, slotVars, jupyterVars
<1>4. PlaygroundAtMostOnce' /\ Sent' /\ Ordered' /\ Advance
  BY CommandsApart DEF DeleteFails, Disposed, slotVars, jupyterVars
<1> QED
  BY <1>1, <1>2, <1>3, <1>4 DEF IInv

LEMMA CloseKeeps ==
  ASSUME IInv, NEW c \in Client, NEW p \in Path, NEW id \in 1 .. opens, Close(c, p, id)
  PROVE  IInv' /\ Advance
<1>0. disposer' \in [Disposers -> DisposeType]
  <2>1. [NoDispose EXCEPT !.stage = "dispose", !.id = id] \in DisposeType
    <3>1. id \in Ids
      BY TypeParts, PlaygroundAssumption DEF IInv, Ids
    <3> QED
      BY <3>1 DEF NoDispose, DisposeType
  <2> QED
    BY <2>1, TypeParts DEF IInv, Close
<1>1. TypeInv'
  BY <1>0, TypeParts, Constants DEF IInv, Close, slotVars, jupyterVars, TypeInv, PlaygroundTypeOK, SlotType, OpenType, DisposeType
<1>2. Numbered' /\ SessionsAccountedFor' /\ OpenMatchesDocument'
  BY <1>0, Constants DEF IInv, Numbered, Guarded, Documents, SessionsAccountedFor, OpenMatchesDocument, Close, slotVars, jupyterVars
<1>3. Guarded' /\ Documents'
  BY <1>0, TypeParts, Constants DEF IInv, Guarded, Documents, Disposers, Close, slotVars, jupyterVars
<1>4. PlaygroundAtMostOnce' /\ Sent' /\ Ordered' /\ Advance
  BY <1>0, CommandsApart DEF Close, slotVars, jupyterVars
<1> QED
  BY <1>1, <1>2, <1>3, <1>4 DEF IInv

LEMMA ReapKeeps ==
  ASSUME IInv, Reap
  PROVE  IInv' /\ Advance
<1>1. TypeInv'
  BY TypeParts, Constants DEF IInv, Reap, slotVars, jupyterVars, TypeInv, PlaygroundTypeOK, SlotType, OpenType, DisposeType
<1>2. Numbered' /\ SessionsAccountedFor' /\ OpenMatchesDocument'
  BY Constants DEF IInv, Numbered, Guarded, Documents, SessionsAccountedFor, OpenMatchesDocument, Reap, slotVars, jupyterVars
<1>3. Guarded' /\ Documents'
  BY TypeParts, Constants DEF IInv, Guarded, Documents, Disposers, Reap, slotVars, jupyterVars
<1>4. PlaygroundAtMostOnce' /\ Sent' /\ Ordered' /\ Advance
  BY CommandsApart DEF Reap, slotVars, jupyterVars
<1> QED
  BY <1>1, <1>2, <1>3, <1>4 DEF IInv

LEMMA ReapAskedKeeps ==
  ASSUME IInv, ReapAsked
  PROVE  IInv' /\ Advance
<1>1. TypeInv'
  BY TypeParts, Constants DEF IInv, ReapAsked, slotVars, jupyterVars, TypeInv, PlaygroundTypeOK, SlotType, OpenType, DisposeType
<1>2. Numbered' /\ SessionsAccountedFor' /\ OpenMatchesDocument'
  BY Constants DEF IInv, Numbered, Guarded, Documents, SessionsAccountedFor, OpenMatchesDocument, ReapAsked, slotVars, jupyterVars
<1>3. Guarded' /\ Documents'
  BY TypeParts, Constants DEF IInv, Guarded, Documents, Disposers, ReapAsked, slotVars, jupyterVars
<1>4. PlaygroundAtMostOnce' /\ Sent' /\ Ordered' /\ Advance
  BY CommandsApart DEF ReapAsked, slotVars, jupyterVars
<1> QED
  BY <1>1, <1>2, <1>3, <1>4 DEF IInv

LEMMA EditBeginsKeeps ==
  ASSUME IInv, EditBegins
  PROVE  IInv' /\ Advance
<1>0. disposer' \in [Disposers -> DisposeType] /\ DisposerAt("edit", "look")
  BY TypeParts, DisposerGoes DEF IInv, Disposers, EditBegins
<1>1. TypeInv'
  BY <1>0, TypeParts, Constants DEF IInv, EditBegins, DisposerAt, slotVars, jupyterVars, TypeInv, PlaygroundTypeOK, SlotType, OpenType, DisposeType
<1>2. Numbered' /\ SessionsAccountedFor' /\ OpenMatchesDocument'
  BY <1>0, Constants DEF IInv, Numbered, Guarded, Documents, SessionsAccountedFor, OpenMatchesDocument, EditBegins, DisposerAt, slotVars, jupyterVars
<1>3. Guarded' /\ Documents'
  BY <1>0, TypeParts, Constants DEF IInv, Guarded, Documents, Disposers, EditBegins, DisposerAt, slotVars, jupyterVars
<1>4. PlaygroundAtMostOnce' /\ Sent' /\ Ordered' /\ Advance
  BY <1>0, CommandsApart DEF EditBegins, DisposerAt, slotVars, jupyterVars
<1> QED
  BY <1>1, <1>2, <1>3, <1>4 DEF IInv

LEMMA EditLooksKeeps ==
  ASSUME IInv, EditLooks
  PROVE  IInv' /\ Advance
<1>0. /\ disposer' \in [Disposers -> DisposeType]
      /\ \/ slot.id # 0 /\ DisposerAt("edit", "dispose")
         \/ slot.id = 0 /\ DisposerAt("edit", "write")
  BY TypeParts, DisposerGoes DEF IInv, Disposers, EditLooks
<1>1. TypeInv'
  BY <1>0, TypeParts, Constants DEF IInv, EditLooks, DisposerAt, slotVars, jupyterVars, TypeInv, PlaygroundTypeOK, SlotType, OpenType, DisposeType
<1>2. Numbered' /\ SessionsAccountedFor' /\ OpenMatchesDocument'
  BY <1>0, Constants DEF IInv, Numbered, Guarded, Documents, SessionsAccountedFor, OpenMatchesDocument, EditLooks, DisposerAt, slotVars, jupyterVars
<1>3. Guarded' /\ Documents'
  BY <1>0, TypeParts, Constants DEF IInv, Guarded, Documents, Disposers, EditLooks, DisposerAt, slotVars, jupyterVars
<1>4. PlaygroundAtMostOnce' /\ Sent' /\ Ordered' /\ Advance
  BY <1>0, CommandsApart DEF EditLooks, DisposerAt, slotVars, jupyterVars
<1> QED
  BY <1>1, <1>2, <1>3, <1>4 DEF IInv

LEMMA EditWritesKeeps ==
  ASSUME IInv, EditWrites
  PROVE  IInv' /\ Advance
<1>0. disposer' \in [Disposers -> DisposeType]
  BY TypeParts, Constants DEF IInv, EditWrites
<1>1. TypeInv'
  BY <1>0, TypeParts, Constants DEF IInv, EditWrites, slotVars, jupyterVars, TypeInv, PlaygroundTypeOK, SlotType, OpenType, DisposeType
<1>2. Numbered' /\ SessionsAccountedFor' /\ OpenMatchesDocument'
  BY <1>0, Constants DEF IInv, Numbered, Guarded, Documents, SessionsAccountedFor, OpenMatchesDocument, EditWrites, slotVars, jupyterVars
<1>3. Guarded' /\ Documents'
  BY <1>0, TypeParts, Constants DEF IInv, Guarded, Documents, Disposers, EditWrites, slotVars, jupyterVars
<1>4. PlaygroundAtMostOnce' /\ Sent' /\ Ordered' /\ Advance
  BY <1>0, CommandsApart DEF EditWrites, slotVars, jupyterVars
<1> QED
  BY <1>1, <1>2, <1>3, <1>4 DEF IInv
-----------------------------------------------------------------------------
(* Filling and emptying the slot. *)

\* A slot as a playground finds it.
FreshSlot(i) ==
  /\ slot' \in SlotType /\ slot'.id = i /\ slot'.revision = 0
  /\ \A k \in Command : slot'.seen[k] = "new"

\* Sessions are numbered afresh: a slot that is filled or emptied is new to
\* every command that was accepted before.
LEMMA FreshToCommands ==
  ASSUME IInv, UNCHANGED <<run, executed>>,
         opens \in Nat, opens' \in {opens, opens + 1}, opens' \in Ids,
         UNCHANGED slot \/ FreshSlot(0) \/ (FreshSlot(opens + 1) /\ opens' = opens + 1)
  PROVE  PlaygroundAtMostOnce' /\ Sent' /\ Ordered'
<1>1. slot.id \in Ids /\ Ids \subseteq Int /\ 0 \in Ids /\ run \in [Command -> Task]
  BY TypeParts, Constants DEF IInv, SlotType, Ids
<1>2. \A k \in Command : Working(k)' => Working(k) /\ UNCHANGED slot
  BY <1>1 DEF IInv, Numbered, Working, FreshSlot, Task, Ids
<1>3. \A i \in Ids, k \in Command : i \notin 1 .. opens' => executed'[<<i, k>>] = 0
  BY <1>1 DEF IInv, Sent
<1>4. \A k \in Command : slot'.seen[k] = "new" => executed'[<<slot'.id, k>>] = 0 /\ ~Working(k)'
  <2> TAKE k \in Command
  <2> HAVE slot'.seen[k] = "new"
  <2>1. CASE UNCHANGED slot
    BY <1>2, <2>1 DEF IInv, Sent
  <2>2. CASE slot'.id \in {0, opens + 1} /\ slot'.id \in Ids /\ (slot'.id = 0 \/ opens' = opens + 1) /\ ~UNCHANGED slot
    <3>1. slot'.id \notin 1 .. opens
      BY <2>2
    <3> QED
      BY <1>2, <2>2, <3>1 DEF IInv, Sent
  <2> QED
    BY <1>1, <2>1, <2>2 DEF FreshSlot
<1>5. Sent'
  BY <1>3, <1>4 DEF IInv, Sent
<1>6. Ordered'
  BY <1>2 DEF IInv, Ordered
<1>7. PlaygroundAtMostOnce'
  BY DEF IInv, PlaygroundAtMostOnce
<1> QED
  BY <1>5, <1>6, <1>7

LEMMA StartKeeps ==
  ASSUME IInv, NEW c \in Client, Start(c)
  PROVE  IInv' /\ Advance
<1>1. /\ opens \in Nat /\ opens' = opens + 1 /\ opens' \in Ids /\ opens + 1 # 0
      /\ slot.id = 0 /\ opening[c] \in OpenType /\ opening[c].doc = doc
      /\ namespace = c /\ holder = c /\ opening \in [Client -> OpenType]
  <2>1. opens \in Ids /\ opening[c] \in OpenType /\ opening \in [Client -> OpenType]
    BY TypeParts DEF IInv
  <2>2. opens \in Nat /\ opens' = opens + 1 /\ opens' \in Ids
    BY <2>1, Constants DEF Start, Ids
  <2> QED
    BY <2>1, <2>2 DEF Start, IInv, Guarded, Documents
<1>2. /\ FreshSlot(opens + 1) /\ slot'.owner = c /\ slot'.path = opening[c].path
      /\ slot'.doc = opening[c].doc
  <2>1. /\ Empty \in SlotType /\ opening[c].path \in Path \cup {None} /\ opening[c].doc \in Nat
        /\ slot' = [Empty EXCEPT !.id = opens + 1, !.owner = c, !.path = opening[c].path,
                                 !.doc = opening[c].doc]
    BY <1>1, Constants DEF Start, OpenType
  <2>2. slot' \in SlotType /\ slot'.seen = Empty.seen /\ slot'.revision = Empty.revision
    BY <1>1, <2>1 DEF SlotType
  <2> QED
    BY <1>1, <2>1, <2>2, Constants DEF FreshSlot, SlotType
<1>3. slot'.path \in Path
  BY <1>1, <1>2 DEF Start, IInv, Guarded
<1>4. /\ opening' = [opening EXCEPT ![c] = NoOpen] /\ holder' = None /\ namespace' = None
      /\ sessions' = sessions \cup {opens + 1}
      /\ UNCHANGED <<disposer, doc, run, lost, executed>>
  BY <1>1 DEF Start, OpenEnds
<1>5. TypeInv'
  BY <1>1, <1>2, <1>3, <1>4, TypeParts, Constants
     DEF IInv, TypeInv, PlaygroundTypeOK, FreshSlot, SlotType, OpenType, DisposeType
<1>6. Numbered'
  BY <1>1, <1>2, <1>4 DEF IInv, Numbered, FreshSlot
<1>7. SessionsAccountedFor' /\ OpenMatchesDocument'
  BY <1>1, <1>2, <1>4 DEF IInv, Numbered, SessionsAccountedFor, OpenMatchesDocument, FreshSlot
<1>8. Guarded'
  BY <1>1, <1>2, <1>4, Constants DEF IInv, Guarded, FreshSlot
<1>9. Documents'
  BY <1>1, <1>4, Constants DEF IInv, Guarded, Documents
<1>10. PlaygroundAtMostOnce' /\ Sent' /\ Ordered'
  BY <1>1, <1>2, <1>4, FreshToCommands
<1>11. Advance
  BY <1>1, <1>2 DEF Advance, FreshSlot
<1> QED
  BY <1>5, <1>6, <1>7, <1>8, <1>9, <1>10, <1>11 DEF IInv

LEMMA OpenFailsKeeps ==
  ASSUME IInv, NEW c \in Client, OpenFails(c)
  PROVE  IInv' /\ Advance
<1>1. /\ opens \in Nat /\ opens \in Ids /\ slot \in SlotType
      /\ slot.id = 0 /\ namespace = c /\ holder = c /\ opening \in [Client -> OpenType]
  BY TypeParts, Constants DEF IInv, OpenFails, Guarded, Ids
<1>2. /\ opening' = [opening EXCEPT ![c] = NoOpen] /\ holder' = None /\ namespace' = None
      /\ UNCHANGED <<slot, disposer, doc, run, executed>>
  BY <1>1 DEF OpenFails, OpenEnds
<1>3. \/ UNCHANGED <<opens, sessions, lost>>
      \/ /\ opens' = opens + 1 /\ opens + 1 \in Ids
         /\ sessions' = sessions \cup {opens + 1} /\ lost' = lost \cup {opens + 1}
  BY <1>1, Constants DEF OpenFails, Ids, jupyterVars
<1>4. TypeInv'
  BY <1>1, <1>2, <1>3, TypeParts, Constants
     DEF IInv, TypeInv, PlaygroundTypeOK, SlotType, OpenType, DisposeType
<1>5. Numbered' /\ SessionsAccountedFor' /\ OpenMatchesDocument'
  <2>1. Numbered'
    <3>1. 1 .. opens \subseteq 1 .. opens' /\ opens <= opens' /\ sessions' \subseteq 1 .. opens'
      <4>1. sessions \subseteq 1 .. opens
        BY DEF IInv, Numbered
      <4>2. CASE UNCHANGED <<opens, sessions>>
        BY <1>1, <4>1, <4>2
      <4>3. CASE opens' = opens + 1 /\ sessions' = sessions \cup {opens + 1}
        BY <1>1, <4>1, <4>3
      <4> QED
        BY <1>3, <4>2, <4>3
    <3>2. \A k \in Command : run'[k].stage # "none" => run'[k].id \in 1 .. opens'
      BY <1>2, <3>1 DEF IInv, Numbered
    <3>3. slot'.id <= opens'
      BY <1>1, <1>2, <1>3
    <3> QED
      BY <3>1, <3>2, <3>3 DEF Numbered
  <2>2. SessionsAccountedFor' /\ OpenMatchesDocument'
    BY <1>2, <1>3 DEF IInv, SessionsAccountedFor, OpenMatchesDocument
  <2> QED
    BY <2>1, <2>2
<1>6. Guarded' /\ Documents'
  BY <1>1, <1>2, Constants DEF IInv, Guarded, Documents
<1>7. PlaygroundAtMostOnce' /\ Sent' /\ Ordered'
  BY <1>1, <1>2, <1>3, FreshToCommands
<1>8. Advance
  BY <1>1, <1>2 DEF Advance, SlotType
<1> QED
  BY <1>4, <1>5, <1>6, <1>7, <1>8 DEF IInv

LEMMA DeletedKeeps ==
  ASSUME IInv, NEW d \in Disposers, Deleted(d)
  PROVE  IInv' /\ Advance
<1>1. /\ slot.id # 0 /\ holder = d /\ opens \in Nat /\ opens \in Ids
      /\ \A e \in Disposers \ {d} : disposer[e].stage # "delete"
      /\ \A c \in Client : opening[c].stage \notin {"reading", "starting"}
  BY TypeParts, Constants DEF IInv, Deleted, Guarded, Ids
<1>2. /\ slot' = Empty /\ FreshSlot(0) /\ holder' = None /\ namespace' = namespace
      /\ sessions' = sessions \ {slot.id}
      /\ disposer' = [disposer EXCEPT ![d] =
           IF d = "edit" THEN [NoDispose EXCEPT !.stage = "write"] ELSE NoDispose]
      /\ UNCHANGED <<opening, doc, run, opens, lost, executed>>
  BY Constants DEF Deleted, Disposed, FreshSlot
<1>3. disposer' \in [Disposers -> DisposeType] /\ disposer'[d].stage \in {"none", "write"}
  BY <1>2, TypeParts, Constants DEF IInv, DisposeType
<1>4. TypeInv'
  BY <1>2, <1>3, TypeParts, Constants
     DEF IInv, TypeInv, PlaygroundTypeOK, SlotType, OpenType, DisposeType
<1>5. Numbered' /\ SessionsAccountedFor' /\ OpenMatchesDocument'
  BY <1>1, <1>2, Constants DEF IInv, Numbered, SessionsAccountedFor, OpenMatchesDocument
<1>6. Guarded' /\ Documents'
  BY <1>1, <1>2, <1>3, Constants DEF IInv, Guarded, Documents, Deleted
<1>7. PlaygroundAtMostOnce' /\ Sent' /\ Ordered'
  BY <1>1, <1>2, FreshToCommands
<1>8. Advance
  BY <1>1, <1>2, Constants DEF Advance
<1> QED
  BY <1>4, <1>5, <1>6, <1>7, <1>8 DEF IInv
-----------------------------------------------------------------------------
(* Commands. *)

\* Only the task of command k changed.
TaskOf(k) ==
  /\ run' \in [Command -> Task]
  /\ \A j \in Command \ {k} : run'[j] = run[j]
  /\ run'[k].stage # "none" => run'[k].id \in 1 .. opens

\* The slot holds the same playground, maybe with another content.
SamePlayground ==
  /\ slot' \in SlotType /\ slot'.id = slot.id /\ slot'.owner = slot.owner
  /\ slot'.path = slot.path /\ slot'.doc = slot.doc

LEMMA GuardsApartFromCommands ==
  ASSUME IInv, NEW k \in Command, TaskOf(k), SamePlayground,
         UNCHANGED <<holder, namespace, opening, disposer, doc, opens, sessions, lost>>,
         executed' \in [Ids \X Command -> Nat]
  PROVE  /\ TypeInv' /\ Numbered' /\ SessionsAccountedFor' /\ OpenMatchesDocument'
         /\ Guarded' /\ Documents'
<1>1. TypeInv'
  BY TypeParts DEF IInv, TaskOf, SamePlayground, TypeInv, PlaygroundTypeOK, SlotType, OpenType, DisposeType
<1>2. Numbered'
  BY DEF IInv, Numbered, TaskOf, SamePlayground
<1> QED
  BY <1>1, <1>2, GuardsApart DEF SamePlayground

\* A step of one command that neither sends nor publishes, and that does not
\* begin to work.
LEMMA SilentStep ==
  ASSUME IInv, NEW k \in Command, TaskOf(k),
         UNCHANGED <<slotVars, namespace, opening, disposer, doc, jupyterVars, executed>>,
         run'[k].stage # "request",
         run'[k].stage \in {"publish", "execute"} =>
           run'[k].kind # "Interrupt" /\ (run'[k].stage = "publish" => run'[k].updates # 0),
         run'[k].stage \notin {"none", "asked"} =>
           /\ run[k].stage \notin {"none", "asked"} /\ run'[k].id = run[k].id
           /\ run'[k].kind = run[k].kind /\ run'[k].revision >= run[k].revision
  PROVE  IInv' /\ Advance
<1>0. /\ slot \in SlotType /\ run \in [Command -> Task] /\ run' \in [Command -> Task]
      /\ executed \in [Ids \X Command -> Nat] /\ UNCHANGED <<slot, executed, opens>>
  BY TypeParts DEF IInv, TaskOf, slotVars, jupyterVars
<1>1. /\ TypeInv' /\ Numbered' /\ SessionsAccountedFor' /\ OpenMatchesDocument'
      /\ Guarded' /\ Documents'
  BY <1>0, GuardsApartFromCommands DEF SamePlayground, slotVars, jupyterVars
<1>2. PlaygroundAtMostOnce'
  BY <1>0 DEF IInv, PlaygroundAtMostOnce
<1>3. \A j \in Command : Working(j)' =>
        /\ Working(j) /\ run'[j].kind = run[j].kind
        /\ run'[j].revision >= run[j].revision
  BY <1>0 DEF Working, TaskOf, Task
<1>4. Sent'
  BY <1>0, <1>3 DEF IInv, Sent, TaskOf
<1>5. Ordered'
  BY <1>0, <1>3 DEF IInv, Ordered, TaskOf, Task, SlotType
<1>6. Advance
  BY <1>0 DEF Advance, SlotType
<1> QED
  BY <1>1, <1>2, <1>4, <1>5, <1>6 DEF IInv

LEMMA RequestKeeps ==
  ASSUME IInv, NEW k \in Command, NEW c \in Client, NEW p \in Path, NEW id \in 1 .. opens,
         NEW kind \in Kinds, Request(k, c, p, id, kind)
  PROVE  IInv' /\ Advance
<1> DEFINE r == [NoRun EXCEPT !.stage = "asked", !.client = c, !.path = p, !.id = id, !.kind = kind]
<1>1. id \in Ids /\ kind \in {"Modify", "Execute", "Complete", "Interrupt"}
  <2>1. opens \in 0 .. MaxOpens /\ MaxOpens \in Nat
    BY TypeParts, Constants DEF IInv, Ids
  <2> QED
    BY <2>1, PlaygroundAssumption DEF Ids
<1>2. r \in Task /\ r.stage = "asked" /\ r.id = id
  BY <1>1, Constants DEF Task, NoRun
<1>3. run' = [run EXCEPT ![k] = r] /\ run \in [Command -> Task]
  BY TypeParts DEF IInv, Request
<1> HIDE DEF r
<1>4. TaskOf(k) /\ run'[k].stage = "asked"
  BY <1>2, <1>3 DEF TaskOf
<1>5. UNCHANGED <<slotVars, namespace, opening, disposer, doc, jupyterVars, executed>>
  BY DEF Request
<1> QED
  BY <1>4, <1>5, SilentStep

LEMMA RunRefusedKeeps ==
  ASSUME IInv, NEW k \in Command, RunRefused(k)
  PROVE  IInv' /\ Advance
<1>1. TaskOf(k) /\ run'[k].stage = "none"
  BY TypeParts, Constants DEF IInv, RunRefused, Ends, TaskOf
<1>2. UNCHANGED <<slotVars, namespace, opening, disposer, doc, jupyterVars, executed>>
  BY DEF RunRefused
<1> QED
  BY <1>1, <1>2, SilentStep

LEMMA OutputKeeps ==
  ASSUME IInv, NEW k \in Command, Output(k) \/ ExecutionEnds(k)
  PROVE  IInv' /\ Advance
<1> DEFINE n == IF run[k].updates < MaxUpdates /\ Output(k) THEN run[k].updates + 1 ELSE MaxUpdates + 1
           m == run[k].revision + 1
           r == [run[k] EXCEPT !.stage = "publish", !.revision = m, !.updates = n]
<1>1. run \in [Command -> Task] /\ run[k] \in Task /\ run[k].stage = "execute"
  BY TypeParts DEF IInv, Output, ExecutionEnds
<1>2. n \in Nat /\ n # 0 /\ m \in Nat /\ m >= run[k].revision
  BY <1>1, PlaygroundAssumption DEF Task
<1>3. run' = [run EXCEPT ![k] = r]
  BY <1>1 DEF Output, ExecutionEnds
<1> HIDE DEF n, m
<1>4. /\ r \in Task /\ r.stage = "publish" /\ r.updates # 0 /\ r.id = run[k].id
      /\ r.kind = run[k].kind /\ r.revision >= run[k].revision
  <2>1. r \in Task
    BY <1>1, <1>2 DEF Task
  <2>2. r.revision = m /\ r.updates = n
    BY <1>1 DEF Task
  <2>3. r.stage = "publish" /\ r.id = run[k].id /\ r.kind = run[k].kind
    BY <1>1 DEF Task
  <2> HIDE DEF r
  <2> QED
    BY <1>2, <2>1, <2>2, <2>3
<1> HIDE DEF r
<1>5. run[k].id \in 1 .. opens /\ run[k].kind # "Interrupt"
  BY <1>1 DEF IInv, Numbered, Ordered
<1>6. TaskOf(k) /\ run'[k] = r
  BY <1>1, <1>3, <1>4, <1>5 DEF TaskOf
<1>7. UNCHANGED <<slotVars, namespace, opening, disposer, doc, jupyterVars, executed>>
  BY DEF Output, ExecutionEnds
<1> QED
  BY <1>1, <1>4, <1>5, <1>6, <1>7, SilentStep

LEMMA RunFailsKeeps ==
  ASSUME IInv, NEW k \in Command, RunFails(k)
  PROVE  IInv' /\ Advance
<1> DEFINE r == [run[k] EXCEPT !.stage = "finish", !.ok = FALSE]
<1>1. /\ run \in [Command -> Task] /\ run[k] \in Task
      /\ run[k].stage \in {"request", "execute", "publish"} /\ run' = [run EXCEPT ![k] = r]
  BY TypeParts DEF IInv, RunFails
<1>2. /\ r \in Task /\ r.stage = "finish" /\ r.id = run[k].id
      /\ r.kind = run[k].kind /\ r.revision >= run[k].revision
  <2>1. r \in Task
    BY <1>1 DEF Task
  <2>2. r.stage = "finish" /\ r.id = run[k].id /\ r.kind = run[k].kind
    BY <1>1 DEF Task
  <2>3. r.revision = run[k].revision /\ run[k].revision \in Nat
    BY <1>1 DEF Task
  <2> HIDE DEF r
  <2> QED
    BY <2>1, <2>2, <2>3
<1> HIDE DEF r
<1>3. TaskOf(k) /\ run'[k] = r
  BY <1>1, <1>2 DEF TaskOf, IInv, Numbered
<1>4. UNCHANGED <<slotVars, namespace, opening, disposer, doc, jupyterVars, executed>>
  BY DEF RunFails
<1> QED
  BY <1>1, <1>2, <1>3, <1>4, SilentStep

\* Accepted: the key is new to the playground, so nothing was sent for it.
LEMMA RunAcceptedKeeps ==
  ASSUME IInv, NEW k \in Command, RunAccepted(k)
  PROVE  IInv' /\ Advance
<1> DEFINE m == IF run[k].kind = "Execute" THEN slot.revision + 1 ELSE slot.revision
           s == CASE run[k].kind \in {"Modify", "Execute"} -> "publish" [] OTHER -> "request"
           r == [run[k] EXCEPT !.revision = m, !.stage = s]
           b == slot.busy \/ run[k].kind # "Interrupt"
<1>1. /\ run \in [Command -> Task] /\ run[k] \in Task /\ run[k].stage = "asked"
      /\ slot \in SlotType /\ executed \in [Ids \X Command -> Nat]
      /\ slot.id = run[k].id /\ ~slot.closing /\ slot.seen[k] = "new"
      /\ ~slot.busy \/ run[k].kind = "Interrupt"
  BY TypeParts DEF IInv, RunAccepted, Admissible
<1>2. /\ m \in Nat /\ m >= slot.revision /\ b \in BOOLEAN /\ s \in {"publish", "request"}
      /\ s = "publish" => run[k].kind # "Interrupt"
      /\ b <=> slot.busy \/ run[k].kind # "Interrupt"
  BY <1>1 DEF SlotType
<1>3. run' = [run EXCEPT ![k] = r]
  BY <1>1 DEF RunAccepted
<1>4. slot' = [slot EXCEPT !.busy = b, !.quiet = 0, !.seen[k] = "accepted"]
  BY DEF RunAccepted
<1> HIDE DEF m, s, b
<1>5. r \in Task /\ r.stage = s /\ r.id = run[k].id /\ r.kind = run[k].kind /\ r.revision = m
  BY <1>1, <1>2 DEF Task
<1>6. SamePlayground
  <2>1. /\ [slot.seen EXCEPT ![k] = "accepted"] \in [Command -> {"new", "accepted", "done"}]
        /\ 0 \in 0 .. Expiry + 1
    BY <1>1, PlaygroundAssumption DEF SlotType
  <2>2. slot' = [slot EXCEPT !.busy = b, !.quiet = 0, !.seen = [slot.seen EXCEPT ![k] = "accepted"]]
    BY <1>1, <1>4 DEF SlotType
  <2> QED
    BY <1>1, <1>2, <2>1, <2>2 DEF SamePlayground, SlotType
<1>7. /\ slot'.busy = b /\ slot'.revision = slot.revision
      /\ slot'.seen[k] = "accepted" /\ \A j \in Command \ {k} : slot'.seen[j] = slot.seen[j]
  BY <1>1, <1>4 DEF SlotType
<1> HIDE DEF r
<1>8. TaskOf(k) /\ run'[k] = r
  BY <1>1, <1>2, <1>3, <1>5 DEF TaskOf, IInv, Numbered
<1>9. UNCHANGED <<holder, namespace, opening, disposer, doc, opens, sessions, lost, executed>>
  BY DEF RunAccepted, jupyterVars
<1>10. /\ TypeInv' /\ Numbered' /\ SessionsAccountedFor' /\ OpenMatchesDocument'
       /\ Guarded' /\ Documents'
  BY <1>1, <1>6, <1>8, <1>9, GuardsApartFromCommands
<1>11. PlaygroundAtMostOnce'
  BY <1>9 DEF IInv, PlaygroundAtMostOnce
<1>12. \A j \in Command \ {k} : run'[j] = run[j] /\ (Working(j)' <=> Working(j))
  BY <1>6, <1>8 DEF TaskOf, Working, SamePlayground
<1>13. Sent'
  BY <1>1, <1>5, <1>6, <1>7, <1>8, <1>9, <1>12 DEF IInv, Sent, SamePlayground
<1>14. Ordered'
  <2>1. \A j \in Command \ {k} :
          Working(j) /\ run[j].kind # "Interrupt" => slot.busy /\ run[k].kind = "Interrupt"
    BY <1>1 DEF IInv, Ordered
  <2> QED
    BY <1>1, <1>2, <1>5, <1>7, <1>8, <1>12, <2>1 DEF IInv, Ordered
<1>15. Advance
  BY <1>1, <1>6, <1>7 DEF Advance, SlotType, SamePlayground
<1> QED
  BY <1>10, <1>11, <1>13, <1>14, <1>15 DEF IInv

\* Published: only the one command that works in the playground does so.
LEMMA PublishKeeps ==
  ASSUME IInv, NEW k \in Command, Publish_(k)
  PROVE  IInv' /\ Advance
<1>1. /\ run \in [Command -> Task] /\ run[k] \in Task /\ run[k].stage = "publish"
      /\ slot \in SlotType /\ executed \in [Ids \X Command -> Nat]
      /\ run[k].id \in 1 .. opens /\ run[k].kind # "Interrupt"
  BY TypeParts DEF IInv, Publish_, Numbered, Ordered
<1>2. CASE ~(slot.id = run[k].id /\ ~slot.closing)
  <2> DEFINE r == [run[k] EXCEPT !.stage = "finish", !.ok = FALSE]
  <2>1. run' = [run EXCEPT ![k] = r]
    BY <1>1, <1>2 DEF Publish_
  <2>2. r \in Task
    BY <1>1 DEF Task
  <2>3. /\ r.stage = "finish" /\ r.id = run[k].id /\ r.kind = run[k].kind
        /\ r.revision = run[k].revision /\ r.revision \in Nat
    BY <1>1 DEF Task
  <2> HIDE DEF r
  <2>4. TaskOf(k) /\ run'[k] = r
    BY <1>1, <2>1, <2>2, <2>3 DEF TaskOf
  <2>5. UNCHANGED <<slotVars, namespace, opening, disposer, doc, jupyterVars, executed>>
    BY <1>2 DEF Publish_, slotVars
  <2>6. run'[k].revision >= run[k].revision
    BY <2>3, <2>4
  <2> QED
    BY <1>1, <2>3, <2>4, <2>5, <2>6, SilentStep
<1>3. CASE slot.id = run[k].id /\ ~slot.closing
  <2> DEFINE s == CASE run[k].kind # "Execute" \/ run[k].updates > MaxUpdates -> "finish"
                    [] run[k].updates = 0 -> "request"
                    [] OTHER -> "execute"
             r == [run[k] EXCEPT !.stage = s]
  <2>1. /\ s \in {"finish", "request", "execute"}
        /\ s = "request" => run[k].updates = 0
    OBVIOUS
  <2>2. run' = [run EXCEPT ![k] = r] /\ slot' = [slot EXCEPT !.revision = run[k].revision]
    BY <1>1, <1>3 DEF Publish_, Goto
  <2> HIDE DEF s
  <2>3. /\ r \in Task /\ r.stage = s /\ r.id = run[k].id /\ r.kind = run[k].kind
        /\ r.revision = run[k].revision
    BY <1>1, <2>1 DEF Task
  <2> HIDE DEF r
  <2>4. /\ SamePlayground /\ slot'.revision = run[k].revision /\ slot'.seen = slot.seen
        /\ slot'.busy = slot.busy /\ slot'.closing = slot.closing
    BY <1>1, <2>2 DEF SamePlayground, SlotType, Task
  <2>5. TaskOf(k) /\ run'[k] = r
    BY <1>1, <2>1, <2>2, <2>3 DEF TaskOf
  <2>6. UNCHANGED <<holder, namespace, opening, disposer, doc, opens, sessions, lost, executed>>
    BY DEF Publish_, jupyterVars
  <2>7. /\ TypeInv' /\ Numbered' /\ SessionsAccountedFor' /\ OpenMatchesDocument'
        /\ Guarded' /\ Documents'
    BY <1>1, <2>4, <2>5, <2>6, GuardsApartFromCommands
  <2>8. PlaygroundAtMostOnce'
    BY <2>6 DEF IInv, PlaygroundAtMostOnce
  <2>9. \A j \in Command : run'[j].kind = run[j].kind /\ (Working(j)' <=> Working(j))
    BY <1>1, <2>1, <2>3, <2>4, <2>5 DEF TaskOf, Working, SamePlayground
  <2>10. Sent'
    BY <1>1, <2>1, <2>3, <2>4, <2>5, <2>6, <2>9 DEF IInv, Sent, SamePlayground, TaskOf
  <2>11. Working(k) /\ run[k].revision >= slot.revision
    BY <1>1, <1>3 DEF IInv, Ordered, Working
  <2>12. \A j \in Command \ {k} : ~(Working(j) /\ run[j].kind # "Interrupt")
    BY <1>1, <2>11 DEF IInv, Ordered
  <2>13. Ordered'
    <3>1. \A j \in Command \ {k} : run'[j] = run[j]
      BY <2>5 DEF TaskOf
    <3>2. run'[k].revision >= slot'.revision
      BY <1>1, <2>3, <2>4, <2>5 DEF Task
    <3> QED
      BY <1>1, <2>4, <2>9, <2>12, <3>1, <3>2 DEF IInv, Ordered
  <2>14. Advance
    BY <1>3, <2>4, <2>11 DEF Advance
  <2> QED
    BY <2>7, <2>8, <2>10, <2>13, <2>14 DEF IInv
<1> QED
  BY <1>2, <1>3

\* Sent: nothing was sent for this key before, and nothing is left to send.
LEMMA SendRequestKeeps ==
  ASSUME IInv, NEW k \in Command, SendRequest(k)
  PROVE  IInv' /\ Advance
<1> DEFINE s == IF run[k].kind = "Execute" THEN "execute" ELSE "finish"
           r == [run[k] EXCEPT !.stage = s]
<1>1. /\ run \in [Command -> Task] /\ run[k] \in Task /\ run[k].stage = "request"
      /\ slot \in SlotType /\ executed \in [Ids \X Command -> Nat]
      /\ run[k].id \in Ids /\ run[k].id \in 1 .. opens /\ run[k].revision \in Nat
  BY TypeParts DEF IInv, SendRequest, Numbered, Task
<1>2. run' = [run EXCEPT ![k] = r] /\ UNCHANGED slot
  BY <1>1 DEF SendRequest, Goto, slotVars
<1>3. s \in {"execute", "finish"} /\ (s = "execute" => run[k].kind = "Execute")
  OBVIOUS
<1> HIDE DEF s
<1>4. /\ r \in Task /\ r.stage = s /\ r.id = run[k].id /\ r.kind = run[k].kind
      /\ r.revision = run[k].revision
  BY <1>1, <1>3 DEF Task
<1> HIDE DEF r
<1>5. TaskOf(k) /\ run'[k] = r
  BY <1>1, <1>2, <1>3, <1>4 DEF TaskOf
<1>6. /\ executed' \in [Ids \X Command -> Nat]
      /\ \A x \in Ids \X Command : executed'[x] = executed[x] \/
           (run[k].kind = "Execute" /\ x = <<run[k].id, k>> /\ executed'[x] = executed[x] + 1)
  BY <1>1 DEF SendRequest
<1>7. run[k].kind = "Execute" => executed[<<run[k].id, k>>] = 0
  BY <1>1 DEF IInv, Sent
<1>8. PlaygroundAtMostOnce'
  BY <1>1, <1>6, <1>7 DEF IInv, PlaygroundAtMostOnce
<1>9. UNCHANGED <<holder, namespace, opening, disposer, doc, opens, sessions, lost>>
  BY DEF SendRequest, jupyterVars, slotVars
<1>10. /\ TypeInv' /\ Numbered' /\ SessionsAccountedFor' /\ OpenMatchesDocument'
       /\ Guarded' /\ Documents'
  <2>1. SamePlayground
    BY <1>1, <1>2 DEF SamePlayground
  <2> QED
    BY <1>5, <1>6, <1>9, <2>1, GuardsApartFromCommands
<1>11. \A j \in Command : run'[j].kind = run[j].kind /\ run'[j].id = run[j].id /\ (Working(j)' <=> Working(j))
  BY <1>1, <1>2, <1>3, <1>4, <1>5 DEF TaskOf, Working
<1>12. Sent'
  <2>1. slot.id \in Ids
    BY <1>1 DEF SlotType
  <2>2. \A i \in Ids, j \in Command : i \notin 1 .. opens' => executed'[<<i, j>>] = 0
    BY <1>1, <1>6, <1>9 DEF IInv, Sent
  <2>3. \A j \in Command : slot'.seen[j] = "new" => executed'[<<slot'.id, j>>] = 0 /\ ~Working(j)'
    <3> TAKE j \in Command
    <3> HAVE slot'.seen[j] = "new"
    <3>1. executed[<<slot.id, j>>] = 0 /\ ~Working(j) /\ ~Working(j)'
      BY <1>2, <1>11 DEF IInv, Sent
    <3>2. <<slot.id, j>> # <<run[k].id, k>>
      BY <1>1, <3>1 DEF Working
    <3>3. <<slot.id, j>> \in Ids \X Command
      BY <2>1
    <3> QED
      BY <1>2, <1>6, <3>1, <3>2, <3>3
  <2>4. \A j \in Command \ {k} : executed'[<<run[j].id, j>>] = executed[<<run[j].id, j>>]
    <3> TAKE j \in Command \ {k}
    <3>1. <<run[j].id, j>> \in Ids \X Command /\ <<run[j].id, j>> # <<run[k].id, k>>
      BY <1>1 DEF Task
    <3> QED
      BY <1>6, <3>1
  <2>5. \A j \in Command :
          /\ run'[j].kind = "Execute"
          /\ run'[j].stage = "request" \/ (run'[j].stage = "publish" /\ run'[j].updates = 0)
          => executed'[<<run'[j].id, j>>] = 0
    BY <1>3, <1>4, <1>5, <2>4 DEF TaskOf, IInv, Sent
  <2> QED
    BY <2>2, <2>3, <2>5 DEF Sent
<1>13. Ordered'
  <2>1. \A j \in Command : run'[j].revision = run[j].revision
    BY <1>4, <1>5 DEF TaskOf
  <2>2. \A j \in Command : run'[j].stage \in {"publish", "execute"} => run'[j].kind # "Interrupt"
    BY <1>3, <1>4, <1>5 DEF TaskOf, IInv, Ordered
  <2> QED
    BY <1>2, <1>11, <2>1, <2>2 DEF IInv, Ordered
<1>14. Advance
  BY <1>1, <1>2 DEF Advance, SlotType
<1> QED
  BY <1>8, <1>10, <1>12, <1>13, <1>14 DEF IInv

LEMMA RunFinishesKeeps ==
  ASSUME IInv, NEW k \in Command, RunFinishes(k)
  PROVE  IInv' /\ Advance
<1> DEFINE b == slot.busy /\ run[k].kind = "Interrupt"
           g == slot.closing \/ (run[k].kind = "Execute" /\ ~run[k].ok)
<1>1. /\ run \in [Command -> Task] /\ run[k] \in Task /\ run[k].stage = "finish"
      /\ slot \in SlotType /\ executed \in [Ids \X Command -> Nat]
  BY TypeParts DEF IInv, RunFinishes
<1>2. /\ b \in BOOLEAN /\ g \in BOOLEAN /\ (slot.closing => g)
      /\ b <=> slot.busy /\ run[k].kind = "Interrupt"
  BY <1>1 DEF SlotType
<1>3. /\ slot.id # run[k].id /\ UNCHANGED slot
      \/ /\ slot.id = run[k].id
         /\ slot' = [slot EXCEPT !.busy = b, !.closing = g, !.seen[k] = "done"]
  BY DEF RunFinishes
<1> HIDE DEF b, g
<1>4. /\ SamePlayground /\ slot'.revision = slot.revision /\ (slot.closing => slot'.closing)
      /\ \A j \in Command : slot'.seen[j] = "new" => slot.seen[j] = "new"
      /\ slot.id # run[k].id \/ run[k].kind = "Interrupt" => slot'.busy = slot.busy
  <2>1. CASE slot.id # run[k].id /\ UNCHANGED slot
    BY <1>1, <2>1 DEF SamePlayground, SlotType
  <2>2. CASE slot.id = run[k].id /\ slot' = [slot EXCEPT !.busy = b, !.closing = g, !.seen[k] = "done"]
    <3> DEFINE seen == [slot.seen EXCEPT ![k] = "done"]
    <3>1. seen \in [Command -> {"new", "accepted", "done"}]
      BY <1>1 DEF SlotType
    <3>2. \A j \in Command : seen[j] = "new" => slot.seen[j] = "new"
      BY <1>1 DEF SlotType
    <3>3. slot' = [slot EXCEPT !.busy = b, !.closing = g, !.seen = seen]
      BY <1>1, <2>2 DEF SlotType
    <3> HIDE DEF seen
    <3>4. SamePlayground /\ slot'.revision = slot.revision /\ slot'.seen = seen
      BY <1>1, <1>2, <3>1, <3>3 DEF SamePlayground, SlotType
    <3>5. slot'.closing = g /\ slot'.busy = b
      BY <1>1, <3>3 DEF SlotType
    <3>6. slot.busy \in BOOLEAN /\ slot'.busy \in BOOLEAN
      BY <1>1, <1>2, <3>5 DEF SlotType
    <3> QED
      BY <1>2, <2>2, <3>2, <3>4, <3>5, <3>6
  <2> QED
    BY <1>3, <2>1, <2>2
<1>5. TaskOf(k) /\ run'[k].stage = "none" /\ run'[k].kind = "Modify"
  BY <1>1, Constants DEF RunFinishes, Ends, TaskOf
<1>6. UNCHANGED <<holder, namespace, opening, disposer, doc, opens, sessions, lost, executed>>
  BY DEF RunFinishes, jupyterVars
<1>7. /\ TypeInv' /\ Numbered' /\ SessionsAccountedFor' /\ OpenMatchesDocument'
      /\ Guarded' /\ Documents'
  BY <1>1, <1>4, <1>5, <1>6, GuardsApartFromCommands
<1>8. PlaygroundAtMostOnce'
  BY <1>6 DEF IInv, PlaygroundAtMostOnce
<1>9. \A j \in Command : Working(j)' => j # k /\ Working(j) /\ run'[j] = run[j]
  BY <1>4, <1>5 DEF TaskOf, Working, SamePlayground
<1>10. Sent'
  BY <1>4, <1>5, <1>6, <1>9 DEF IInv, Sent, SamePlayground, TaskOf
<1>11. Ordered'
  <2>1. \A j \in Command \ {k} : Working(j) /\ run[j].kind # "Interrupt" =>
          slot.id # run[k].id \/ run[k].kind = "Interrupt"
    BY <1>1 DEF IInv, Ordered, Working
  <2> QED
    BY <1>4, <1>5, <1>9, <2>1 DEF IInv, Ordered, TaskOf
<1>12. Advance
  BY <1>1, <1>4 DEF Advance, SlotType
<1> QED
  BY <1>7, <1>8, <1>10, <1>11, <1>12 DEF IInv

-----------------------------------------------------------------------------
(* All steps. *)

LEMMA InitEstablishes == PlaygroundInit => IInv
<1> SUFFICES ASSUME PlaygroundInit PROVE IInv
  OBVIOUS
<1>1. TypeInv
  BY Constants DEF PlaygroundInit, TypeInv, PlaygroundTypeOK, SlotType, OpenType, DisposeType, Disposers
<1>2. Numbered /\ SessionsAccountedFor /\ OpenMatchesDocument /\ Guarded /\ Documents
  BY Constants DEF PlaygroundInit, Numbered, SessionsAccountedFor, OpenMatchesDocument,
     Guarded, Documents, Disposers
<1>3. PlaygroundAtMostOnce /\ Sent /\ Ordered
  <2>1. \A k \in Command : run[k].stage = "none" /\ run[k].kind = "Modify" /\ <<0, k>> \in Ids \X Command
    BY Constants DEF PlaygroundInit
  <2>2. slot.id = 0 /\ \A x \in Ids \X Command : executed[x] = 0
    BY Constants DEF PlaygroundInit
  <2>3. \A i \in Ids, k \in Command : executed[<<i, k>>] = 0
    BY <2>2
  <2>4. PlaygroundAtMostOnce
    BY <2>2 DEF PlaygroundAtMostOnce
  <2>5. Sent
    BY <2>1, <2>2, <2>3, Constants DEF Sent, Working
  <2> QED
    BY <2>1, <2>4, <2>5 DEF Ordered, Working
<1> QED
  BY <1>1, <1>2, <1>3 DEF IInv

LEMMA NextKeeps ==
  ASSUME IInv, [PlaygroundNext]_playgroundVars
  PROVE  IInv' /\ Advance
<1>0. slot \in SlotType /\ Expiry \in Nat
  BY TypeParts, PlaygroundAssumption DEF IInv
<1>1. CASE Second
  <2>1. slot' = slot \/ (slot' = [slot EXCEPT !.quiet = slot.quiet + 1] /\ slot.quiet <= Expiry)
    BY <1>1 DEF Second
  <2>2. slot.quiet \in 0 .. Expiry + 1
    BY <1>0 DEF SlotType
  <2>3. \E q \in 0 .. Expiry + 1 : slot' \in {slot, [slot EXCEPT !.quiet = q]}
    BY <1>0, <2>1, <2>2
  <2>4. UNCHANGED <<holder, namespace, opening, disposer, doc, run, opens, sessions, lost, executed>>
    BY <1>1 DEF Second, jupyterVars
  <2> QED
    BY <2>3, <2>4, LeasesApart
<1>2. ASSUME NEW c \in Client, NEW p \in Path, Elsewhere(c, p) PROVE IInv' /\ Advance
  BY <1>0, <1>2, LeasesApart DEF Elsewhere, slotVars, jupyterVars
<1>3. ASSUME NEW c \in Client, NEW p \in Path, Look(c, p) PROVE IInv' /\ Advance
  BY <1>0, <1>3, LeasesApart DEF Look, jupyterVars
<1>4. CASE UNCHANGED playgroundVars
  BY <1>0, <1>4, LeasesApart DEF playgroundVars, playVars
<1>5. ASSUME NEW c \in Client, Opening(c) PROVE IInv' /\ Advance
  BY <1>5, TakeNamespaceKeeps, TakeSlotKeeps, ReadStepKeeps, StartKeeps, OpenFailsKeeps DEF Opening
<1>6. ASSUME NEW d \in Disposers, Disposing(d) PROVE IInv' /\ Advance
  BY <1>6, NothingToDisposeKeeps, MarkClosingKeeps, DeletedKeeps, DeleteFailsKeeps DEF Disposing
<1>7. CASE Reaping
  BY <1>6, <1>7, ReapKeeps, ReapAskedKeeps DEF Reaping, Disposers
<1>8. CASE Editing \/ EditBegins
  BY <1>6, <1>8, EditBeginsKeeps, EditLooksKeeps, EditWritesKeeps DEF Editing, Disposers
<1>9. ASSUME NEW k \in Command, Running(k) PROVE IInv' /\ Advance
  BY <1>9, RunRefusedKeeps, RunAcceptedKeeps, PublishKeeps, SendRequestKeeps, OutputKeeps,
     RunFailsKeeps, RunFinishesKeeps DEF Running
<1> QED
  BY <1>1, <1>2, <1>3, <1>4, <1>5, <1>6, <1>7, <1>8, <1>9, OpenAskedKeeps, CloseKeeps, RequestKeeps
     DEF PlaygroundNext, Disposers

-----------------------------------------------------------------------------
(* The theorems. *)

\* The inductive invariant holds of every behaviour.
THEOREM PlaygroundInvariance == PlaygroundSpec => []IInv
BY InitEstablishes, NextKeeps, PTL DEF PlaygroundSpec

\* The slot is true: no kernel is left behind by disposals that overlap, fail
\* or are abandoned; a playground never runs the code of a replaced document;
\* and a key is sent to its kernel at most once (playground.rs, open, dispose,
\* run).
THEOREM PlaygroundInvHolds == PlaygroundSpec => []PlaygroundInv
<1>1. IInv => PlaygroundInv
  BY DEF IInv, TypeInv, PlaygroundInv
<1> QED
  BY <1>1, PlaygroundInvariance, PTL

\* Commands publish in the order of their revisions, and what was marked closing
\* is never worked on again (playground.rs, publish).
THEOREM PlaygroundAdvancesHolds == PlaygroundSpec => PlaygroundAdvances
<1>1. IInv /\ [PlaygroundNext]_playgroundVars => [Advance]_playgroundVars
  BY NextKeeps
<1> QED
  BY <1>1, PlaygroundInvariance, PTL DEF PlaygroundSpec, PlaygroundAdvances, Advance
=============================================================================
