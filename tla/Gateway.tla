------------------------------- MODULE Gateway -------------------------------
(***************************************************************************)
(* Command dispatch of the native gateway (native/server.rs): admission    *)
(* under the authority mutex, the idempotency ledger, the lock of each     *)
(* notebook path, the steps of a command against the Jupyter server, and   *)
(* the settlement that updates room, ledger and uncertainty at once.       *)
(*                                                                         *)
(* A command is one ledger key (path, capability, idempotency key).  Each  *)
(* await of dispatch and run is a step of its own, so whatever another     *)
(* request does in between is explored.  Abstracted data:                  *)
(*   - the cells of a notebook are named by the write that stored them:    *)
(*     writes to Jupyter are numbered from 1, 0 is what was there before   *)
(*     (a write of equal cells, which keeps the revision, is left out);    *)
(*   - a cached result is only "there" or dropped by the 16 MB limit;      *)
(*   - a submission repeated with the same key is replayed or refused, and *)
(*     both are Refuse: no effect but the renewal of the driver's lease;   *)
(*   - the kernel of a path is "clean" or holds an execution whose end     *)
(*     was not seen.                                                       *)
(* Microscope, upload and completion commands are in other modules or not  *)
(* modelled; README.md says where.                                         *)
(***************************************************************************)
EXTENDS Collaboration

CONSTANTS
  Command,     \* ledger keys
  MaxLedger,   \* accepted commands per gateway lifetime (4096)
  MaxEmits,    \* bound of the model: emits of one execution before its last
  Kinds,       \* command kinds the instance lets clients submit
  Requests,    \* collaboration requests the instance lets clients make
  Existing     \* notebooks present when the gateway starts

AllKinds == {"Query", "Modify", "Execute", "Interrupt", "Restart", "Rename", "Setup"}

ASSUME GatewayAssumption ==
  /\ None \notin Command
  /\ MaxLedger \in Nat /\ MaxEmits \in Nat \ {0}
  /\ Kinds \subseteq AllKinds
  /\ Existing \subseteq Path

VARIABLES
  ledger,     \* "absent", "accepted" (no result kept) or "result"
  task,       \* what the dispatch of each command is doing
  artifact,   \* holder of artifact_lock, the namespace guard
  revisions,  \* Authority.revisions: latest committed cells and number
  shown,      \* cells of the snapshot in each room
  seen,       \* history: the snapshots each room ever published
  uncertain,  \* Authority.uncertain
  stored,     \* Jupyter: cells of the notebook file, None if there is none
  writes,     \* Jupyter: number of notebook writes so far
  kernel,     \* Jupyter: state of the notebook's kernel
  executed    \* execute_requests sent for each command

dispatchVars == <<ledger, task, artifact, uncertain>>
jupyterVars == <<stored, writes, kernel, executed>>
roomVars == <<revisions, shown, seen>>
gatewayVars == <<dispatchVars, roomVars, jupyterVars>>
allVars == <<vars, gatewayVars>>

NoCells == -1
Cells == Nat \cup {NoCells}
Stages == {"none", "queued", "kernel", "create", "read", "prepare", "save",
           "progress", "send", "run", "move", "session", "rekey", "reread",
           "final", "finish", "done"}
Task == [ stage : Stages, kind : AllKinds,
          path : Path \cup {None}, to : Path \cup {None},
          expected : Nat,              \* expected_revision, 0 for none
          basis : Cells,               \* cells the client saw at that revision
          raw : Cells,                 \* the notebook as read or written last
          saves : Nat,
          complete : BOOLEAN,          \* reply and idle were both received
          number : Nat,                \* revision of the result
          ok : BOOLEAN ]
Idle == [ stage |-> "none", kind |-> "Query", path |-> None, to |-> None, expected |-> 0,
          basis |-> NoCells, raw |-> NoCells, saves |-> 0,
          complete |-> FALSE, number |-> 0, ok |-> TRUE ]

GatewayInit ==
  /\ Init
  /\ ledger = [k \in Command |-> "absent"]
  /\ task = [k \in Command |-> Idle]
  /\ artifact = None
  /\ revisions = [p \in Path |-> [cells |-> NoCells, number |-> 0]]
  /\ shown = [p \in Path |-> NoCells]
  /\ seen = [p \in Path |-> {}]
  /\ uncertain = {}
  /\ stored = [p \in Path |-> IF p \in Existing THEN 0 ELSE NoCells]
  /\ writes = 0
  /\ kernel = [p \in Path |-> "clean"]
  /\ executed = [k \in Command |-> 0]

Writes(kind) == kind # "Query"
Namespace(kind) == kind \in {"Rename", "Setup"}
OutOfBand(kind) == kind = "Interrupt"

InFlight(k) == task[k].stage \notin {"none", "done"}
HoldsNothing(k, p) == FALSE
Holds(k, p) ==
  /\ InFlight(k) /\ task[k].stage # "queued"
  /\ task[k].path = p /\ ~OutOfBand(task[k].kind)

-----------------------------------------------------------------------------
(* Admission. *)

\* Mutant: an uncertain execution blocks nothing.
AdmissibleUncertain(k, kind, p, to) ==
  /\ ledger[k] = "absent"
  /\ ws.active[p] = 0 \/ OutOfBand(kind)
  /\ kind = "Rename" => CanRename(Refresh(ws), p, to)
  /\ Cardinality({j \in Command : ledger[j] # "absent"}) < MaxLedger

\* What `begin` asks under the authority mutex, besides the driver.
Admissible(k, kind, p, to) ==
  /\ ledger[k] = "absent"
  /\ ~(kind = "Execute" /\ p \in uncertain)
  /\ ws.active[p] = 0 \/ OutOfBand(kind)
  /\ kind = "Rename" => CanRename(Refresh(ws), p, to)
  /\ Cardinality({j \in Command : ledger[j] # "absent"}) < MaxLedger

Submit(k, c, p, kind, to, expected, basis) ==
  /\ ~InFlight(k)
  /\ Namespace(kind) => artifact = None
  /\ Writes(kind) => IsDriver(ws, p, c) /\ ws.active[p] < MaxActive
  /\ CanOpen(Refresh(ws), p)
  /\ Admissible(k, kind, p, to)
  /\ ledger' = [ledger EXCEPT ![k] = "accepted"]
  /\ artifact' = IF Namespace(kind) THEN k ELSE artifact
  /\ ws' = IF Writes(kind) THEN Accept(ws, p, c) ELSE Open(ws, p)
  /\ task' = [task EXCEPT ![k] =
       [Idle EXCEPT !.stage = "queued", !.kind = kind, !.path = p, !.to = to,
                    !.expected = expected, !.basis = basis]]
  /\ Informs({})
  /\ UNCHANGED <<uncertain, roomVars, jupyterVars>>

\* A refused or replayed submission: a write has been authenticated by then,
\* a read may have created its room before it met the ledger limit.
Refuse(c, p) ==
  /\ ws' = Member(ws, p, c) \/ ws' = Open(ws, p)
  /\ Informs({})

-----------------------------------------------------------------------------
(* The steps of `run`. *)

FirstStage(kind) ==
  CASE kind \in {"Interrupt", "Restart"} -> "kernel"
    [] kind = "Setup" -> "create"
    [] OTHER -> "read"

Stale(expected, number) == expected # 0 /\ number # 0 /\ expected # number

Goto(k, stage) == task' = [task EXCEPT ![k].stage = stage]
AbortUnsettled(k) == task' = [task EXCEPT ![k].stage = "failed", ![k].ok = FALSE]
Abort(k) == task' = [task EXCEPT ![k].stage = "finish", ![k].ok = FALSE]

\* Mutant: a namespace operation also waits for the namespace guard it holds.
StartGuarded(k) ==
  LET t == task[k] IN
  /\ t.stage = "queued"
  /\ Namespace(t.kind) => artifact = None
  /\ OutOfBand(t.kind) \/ \A j \in Command : ~Holds(j, t.path)
  /\ Goto(k, FirstStage(t.kind))
  /\ UNCHANGED <<vars, ledger, artifact, roomVars, uncertain, jupyterVars>>

\* The path lock is taken (an interrupt takes none) and the revision checked.
Start(k) ==
  LET t == task[k] IN
  /\ t.stage = "queued"
  /\ OutOfBand(t.kind) \/ \A j \in Command : ~Holds(j, t.path)
  /\ IF Stale(t.expected, revisions[t.path].number) THEN Abort(k)
     ELSE Goto(k, FirstStage(t.kind))
  /\ UNCHANGED <<vars, ledger, artifact, roomVars, uncertain, jupyterVars>>

\* A contents PUT that takes effect names its cells.
Write(p) ==
  /\ writes' = writes + 1
  /\ stored' = [stored EXCEPT ![p] = writes + 1]

\* What a failure of command k leaves in the kernel of its notebook.
Disturbed(k) ==
  IF task[k].kind = "Execute" /\ executed[k] > 0
  THEN [kernel EXCEPT ![task[k].path] = "unknown"] ELSE kernel

\* kernel_action: an interrupt leaves the kernel's variables as they are.
KernelAction(k) ==
  /\ task[k].stage = "kernel"
  /\ kernel' = IF task[k].kind = "Restart"
               THEN [kernel EXCEPT ![task[k].path] = "clean"] ELSE kernel
  /\ Goto(k, "read")
  /\ UNCHANGED <<vars, ledger, artifact, roomVars, uncertain, stored, writes, executed>>

\* setup: a missing notebook is created, an existing one is left alone.
Create(k) ==
  LET p == task[k].path IN
  /\ task[k].stage = "create"
  /\ IF stored[p] = NoCells THEN Write(p) ELSE UNCHANGED <<stored, writes>>
  /\ Goto(k, "read")
  /\ UNCHANGED <<vars, ledger, artifact, roomVars, uncertain, kernel, executed>>

\* A contents GET; after a rename it reads the new path.
AfterRead(kind) ==
  CASE kind = "Modify" -> "prepare"
    [] kind = "Execute" -> "save"
    [] kind = "Rename" -> "move"
    [] OTHER -> "final"
Read(k) ==
  LET t == task[k]
      p == IF t.stage = "reread" THEN t.to ELSE t.path
  IN
  /\ t.stage \in {"read", "reread"}
  /\ IF stored[p] = NoCells THEN Abort(k)
     ELSE task' = [task EXCEPT ![k].raw = stored[p],
            ![k].stage = IF t.stage = "reread" THEN "final" ELSE AfterRead(t.kind)]
  /\ UNCHANGED <<vars, ledger, artifact, roomVars, uncertain, jupyterVars>>

\* `committed`: new cells get a new number, and the room a new snapshot.
NumberFrozen(p, cells) == IF revisions[p].number = 0 THEN 1 ELSE revisions[p].number
Number(p, cells) ==
  IF revisions[p].cells # cells \/ revisions[p].number = 0
  THEN revisions[p].number + 1 ELSE revisions[p].number
Committed(p, cells) ==
  LET n == Number(p, cells) IN
  /\ revisions' = [revisions EXCEPT ![p] = [cells |-> cells, number |-> n]]
  /\ ws' = Publish(ws, p, n)
  /\ IF ws.snapshot[p] > n \/ ~CanOpen(ws, p) THEN UNCHANGED <<shown, seen>>
     ELSE /\ shown' = [shown EXCEPT ![p] = cells]
          /\ seen' = [seen EXCEPT ![p] = @ \cup {[number |-> n, cells |-> cells]}]
  /\ Informs({})

\* ModifyCells: commit what was read, then prepare the change against it,
\* which also refuses changes that do not fit the cells.
Prepare(k) ==
  LET t == task[k] IN
  /\ t.stage = "prepare"
  /\ Committed(t.path, t.raw)
  /\ \/ /\ CanOpen(ws, t.path)
        /\ t.expected \in {0, Number(t.path, t.raw)}
        /\ Goto(k, "save")
     \/ Abort(k)
  /\ UNCHANGED <<ledger, artifact, uncertain, jupyterVars>>

\* A contents PUT, of a modified notebook or of an execution's outputs.
Save(k) ==
  LET t == task[k] IN
  /\ t.stage = "save"
  /\ Write(t.path)
  /\ task' = [task EXCEPT ![k].raw = writes + 1, ![k].saves = @ + 1,
                ![k].stage = IF t.kind = "Execute" THEN "progress" ELSE "final"]
  /\ UNCHANGED <<vars, ledger, artifact, roomVars, uncertain, kernel, executed>>

\* The PUT took effect but its answer was lost.
SaveUnacknowledged(k) ==
  /\ task[k].stage = "save"
  /\ Write(task[k].path)
  /\ kernel' = Disturbed(k)
  /\ Abort(k)
  /\ UNCHANGED <<vars, ledger, artifact, roomVars, uncertain, executed>>

\* emit: what was saved is committed; cleared outputs come first, then the
\* code is sent, and a last emit follows the end of the execution.
Progress(k) ==
  LET t == task[k] IN
  /\ t.stage = "progress"
  /\ Committed(t.path, t.raw)
  /\ IF ~CanOpen(ws, t.path) THEN Abort(k)
     ELSE Goto(k, CASE t.saves = 1 -> "send" [] t.complete -> "final" [] OTHER -> "run")
  /\ UNCHANGED <<ledger, artifact, uncertain, jupyterVars>>

Send(k) ==
  /\ task[k].stage = "send"
  /\ executed' = [executed EXCEPT ![k] = @ + 1]
  /\ Goto(k, "run")
  /\ UNCHANGED <<vars, ledger, artifact, roomVars, uncertain, stored, writes, kernel>>

\* Outputs arrive and are emitted, until reply and idle have both been seen.
\* MaxEmits bounds the emits before the last one.
Output(k) ==
  /\ task[k].stage = "run"
  /\ task[k].saves < MaxEmits
  /\ Goto(k, "save")
  /\ UNCHANGED <<vars, ledger, artifact, roomVars, uncertain, jupyterVars>>
Complete(k) ==
  /\ task[k].stage = "run"
  /\ task' = [task EXCEPT ![k].stage = "save", ![k].complete = TRUE]
  /\ UNCHANGED <<vars, ledger, artifact, roomVars, uncertain, jupyterVars>>

\* Jupyter.rename: the contents PATCH; it refuses to overwrite a file.
Move(k) ==
  LET t == task[k] IN
  /\ t.stage = "move"
  /\ IF stored[t.to] # NoCells THEN Abort(k) /\ UNCHANGED stored
     ELSE /\ stored' = [stored EXCEPT ![t.to] = stored[t.path], ![t.path] = NoCells]
          /\ Goto(k, "session")
  /\ UNCHANGED <<vars, ledger, artifact, roomVars, uncertain, writes, kernel, executed>>

\* ... then the sessions PATCH, which takes the kernel along.
MoveSession(k) ==
  LET t == task[k] IN
  /\ t.stage = "session"
  /\ kernel' = [kernel EXCEPT ![t.to] = kernel[t.path], ![t.path] = "clean"]
  /\ Goto(k, "rekey")
  /\ UNCHANGED <<vars, ledger, artifact, roomVars, uncertain, stored, writes, executed>>

Rekey(k) ==
  LET t == task[k] IN
  /\ t.stage = "rekey"
  /\ revisions' = IF revisions[t.path].number = 0 THEN revisions
       ELSE [revisions EXCEPT ![t.to] = revisions[t.path],
                              ![t.path] = [cells |-> NoCells, number |-> 0]]
  /\ Goto(k, "reread")
  /\ UNCHANGED <<vars, ledger, artifact, shown, seen, uncertain, jupyterVars>>

\* The commit that ends every run; the answer may exceed the response limit.
Final(k) ==
  LET t == task[k]
      p == IF t.kind = "Rename" THEN t.to ELSE t.path
  IN
  /\ t.stage = "final"
  /\ Committed(p, t.raw)
  /\ \/ /\ CanOpen(ws, p)
        /\ task' = [task EXCEPT ![k].stage = "finish", ![k].number = Number(p, t.raw)]
     \/ Abort(k)
  /\ UNCHANGED <<ledger, artifact, uncertain, jupyterVars>>

\* A request to Jupyter fails or its answer is lost, the kernel does not
\* answer in time, or an output is refused; a failed execution is interrupted
\* but not undone.
Fail(k) ==
  LET t == task[k] IN
  /\ t.stage \in {"kernel", "create", "read", "reread", "save", "send", "run",
                 "move", "session", "rekey"}
  /\ kernel' = Disturbed(k)
  /\ Abort(k)
  /\ UNCHANGED <<vars, ledger, artifact, roomVars, uncertain, stored, writes, executed>>

-----------------------------------------------------------------------------
(* Settlement: the block of dispatch after `run`, under one mutex. *)

\* Mutants: only success settles; a rename settles the path it left.
SettledOnSuccess(t) ==
  IF ~t.ok THEN ws
  ELSE IF t.kind = "Rename"
       THEN Publish(Rename(Settle(ws, t.path), t.path, t.to), t.to, t.number)
  ELSE IF Writes(t.kind) THEN Settle(ws, t.path) ELSE ws
SettledAfterRename(t) ==
  LET moved == IF t.ok /\ t.kind = "Rename"
               THEN Publish(Rename(ws, t.path, t.to), t.to, t.number) ELSE ws
  IN IF Writes(t.kind) THEN Settle(moved, t.path) ELSE moved

\* The rooms after the settlement of t.
Settled(t) ==
  LET bumped == IF ~t.ok /\ t.kind = "Execute" /\ ws.snapshot[t.path] > 0
                THEN [ws EXCEPT !.heard[t.path] = {}] ELSE ws
      opened == IF ~t.ok /\ t.kind = "Execute" THEN Open(bumped, t.path) ELSE bumped
      eased == IF Writes(t.kind) THEN Settle(opened, t.path) ELSE opened
  IN IF t.ok /\ t.kind = "Rename"
     THEN Publish(Rename(eased, t.path, t.to), t.to, t.number)
     ELSE eased

\* Mutant: the overflow clears the ledger with the replay data.
RecordedForgetful(k, overflow) ==
  [j \in Command |-> IF j = k THEN "result"
                     ELSE IF overflow /\ ledger[j] = "result" THEN "absent"
                     ELSE ledger[j]]

\* The replay data of every command is dropped when the cache overflows.
Recorded(k, overflow) ==
  [j \in Command |-> IF j = k THEN "result"
                     ELSE IF overflow /\ ledger[j] = "result" THEN "accepted"
                     ELSE ledger[j]]

Finish(k, overflow) ==
  LET t == task[k] IN
  /\ t.stage = "finish"
  /\ ws' = Settled(t)
  /\ IF t.ok /\ t.kind = "Rename"
     THEN /\ shown' = [shown EXCEPT ![t.path] = NoCells,
               ![t.to] = IF ws.snapshot[t.path] > t.number THEN shown[t.path] ELSE t.raw]
          /\ seen' = [seen EXCEPT ![t.path] = {}, ![t.to] = @ \cup seen[t.path]]
     ELSE UNCHANGED <<shown, seen>>
  /\ uncertain' =
       IF t.kind = "Execute" /\ ~t.ok THEN uncertain \cup {t.path}
       ELSE IF t.kind = "Restart" /\ t.ok THEN uncertain \ {t.path}
       ELSE uncertain
  /\ ledger' = Recorded(k, overflow)
  /\ artifact' = IF artifact = k THEN None ELSE artifact
  /\ task' = [task EXCEPT ![k] = [Idle EXCEPT !.stage = "done", !.kind = t.kind]]
  /\ Informs({})
  /\ UNCHANGED <<revisions, jupyterVars>>

-----------------------------------------------------------------------------
CollaborationRequest ==
  \/ "tick" \in Requests /\ Tick
  \/ \E c \in Client, p \in Path :
       \/ "join" \in Requests /\ (JoinRequest(c, p) \/ JoinDenied(c, p))
       \/ "ask" \in Requests /\ (Ask(c, p) \/ Refuse(c, p))
       \/ "poll" \in Requests /\ Poll(c, p)
       \/ "leave" \in Requests /\ Leave(c, p)
       \/ "release" \in Requests /\ Release(c, p)
       \/ "claim" \in Requests /\ Claim(c, p)
       \/ "handoff" \in Requests /\ \E d \in Client : Handoff(c, p, d)
       \/ "view" \in Requests /\ \E q \in Path : PublishView(c, p, q)

\* A client states the revision of some snapshot it was shown, or none.
Unconditional == [number |-> 0, cells |-> NoCells]
SubmitAny(k) ==
  \E c \in Client, p \in Path, kind \in Kinds :
    \E to \in (IF kind = "Rename" THEN Path \ {p} ELSE {p}),
       s \in {Unconditional} \cup (IF kind = "Modify" THEN seen[p] ELSE {}) :
         Submit(k, c, p, kind, to, s.number, s.cells)

Work(k) ==
  \/ Start(k) \/ KernelAction(k) \/ Create(k) \/ Read(k) \/ Prepare(k)
  \/ Save(k) \/ SaveUnacknowledged(k) \/ Progress(k) \/ Send(k) \/ Output(k)
  \/ Complete(k) \/ Move(k) \/ MoveSession(k) \/ Rekey(k) \/ Final(k) \/ Fail(k)
  \/ \E overflow \in BOOLEAN : Finish(k, overflow)

GatewayNext ==
  \/ CollaborationRequest /\ UNCHANGED gatewayVars
  \/ \E k \in Command : SubmitAny(k) \/ Work(k)

GatewaySpec == GatewayInit /\ [][GatewayNext]_allVars

\* Tokio runs every spawned task, its mutexes are first come first served,
\* and what a task awaits of Jupyter or of a kernel is bounded by a timeout
\* (config.timeout for each request, the command's for an execution).
FairGatewaySpec == GatewaySpec /\ \A k \in Command : WF_allVars(Work(k))

-----------------------------------------------------------------------------
(* Properties. *)

\* A command of the kind was accepted, and may be settled by now.
Accepted(kind) == \E k \in Command : task[k].kind = kind

GatewayTypeOK ==
  /\ ledger \in [Command -> {"absent", "accepted", "result"}]
  /\ task \in [Command -> Task]
  /\ artifact \in Command \cup {None}
  /\ revisions \in [Path -> [cells : Cells, number : Nat]]
  /\ shown \in [Path -> Cells]
  /\ seen \in [Path -> SUBSET [number : Nat, cells : Cells]]
  /\ uncertain \subseteq Path
  /\ stored \in [Path -> Cells] /\ writes \in Nat
  /\ kernel \in [Path -> {"clean", "unknown"}]
  /\ executed \in [Command -> Nat]

\* The rooms follow the single-driver policy whatever commands do to them.
RefinesCollaboration == Spec

\* "never re-execute commands to catch up": one ledger key sends its code to
\* the kernel at most once, also after its replay data was dropped.
AtMostOnce == \A k \in Command : executed[k] <= 1

\* As long as no notebook is renamed: a change a client based on a revision it
\* was shown is only stored over exactly the cells it was shown, whatever was
\* committed meanwhile.  (A rename that fails half way restarts the numbering.)
NoLostUpdate ==
  [][ \A k \in Command :
        (~Accepted("Rename") /\ Save(k) /\ task[k].kind = "Modify" /\ task[k].expected # 0)
        => stored[task[k].path] = task[k].basis ]_allVars

\* As long as nobody renames or interrupts: the snapshots of a room follow the
\* order in which the notebook was written, so a late snapshot never brings an
\* earlier output back.
SnapshotsFollowWrites ==
  [][ ~Accepted("Interrupt")' /\ ~Accepted("Rename")' =>
        \A p \in Path : shown'[p] # NoCells => shown'[p] >= shown[p] ]_allVars

\* As long as no notebook is renamed: a room is held by exactly its accepted
\* unfinished writes; hand-over and the next command wait for them, and for
\* nothing else.
ActiveCountsWork ==
  ~Accepted("Rename") => \A p \in Path : ws.active[p] =
    Cardinality({k \in Command : InFlight(k) /\ task[k].path = p /\ Writes(task[k].kind)})

\* What is accepted, locked, numbered and counted hangs together.
DispatchInv == GatewayTypeOK /\ ActiveCountsWork

\* As long as no notebook is renamed: no code is sent to a kernel in which an
\* execution whose end was not seen may still be running, unless it was
\* restarted.
ExecutesOnKnownKernel ==
  [][ \A k \in Command : ~Accepted("Rename") /\ Send(k) => kernel[task[k].path] = "clean" ]_allVars

\* Every accepted command settles: nobody waits for a lock for ever.
AcceptedSettles ==
  \A k \in Command : InFlight(k) ~> ~InFlight(k)

-----------------------------------------------------------------------------
(* Statements of the code and its docs that do not hold of every run. *)

\* "clears and display replacements cannot resurrect earlier output"
\* (docs/collaboration.md): SnapshotsFollowWrites, interrupts and renames
\* included.
NoResurrection ==
  [][ \A p \in Path : shown'[p] # NoCells => shown'[p] >= shown[p] ]_allVars

\* "Execution failures conservatively quarantine further writes until explicit
\* restart" (docs/investigations/rust-runtime-migration.md): no change of a
\* notebook is accepted while an execution in it is uncertain.
FailureQuarantinesWrites ==
  [][ \A k \in Command :
        ledger[k] = "absent" /\ ledger'[k] = "accepted" /\ task'[k].kind = "Modify"
        => task'[k].path \notin uncertain ]_allVars

\* The same statement for executions, which the code does refuse: no code is
\* accepted for a kernel in which an execution failed and that was not
\* restarted since.  The kernel moves with a rename, its uncertainty does not.
QuarantinedUntilRestart ==
  [][ \A k \in Command :
        ledger[k] = "absent" /\ ledger'[k] = "accepted" /\ task'[k].kind = "Execute"
        => kernel[task'[k].path] = "clean" ]_allVars

\* "Another command is running; retry when idle" (server.rs): once nothing is
\* in flight, no room refuses commands, hand-over or the end of `serve`.
RefusesOnlyWhileRunning ==
  (\A k \in Command : ~InFlight(k)) => ~Busy(ws)
=============================================================================
