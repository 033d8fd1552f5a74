--------------------------- MODULE BrowserRuntime ---------------------------
(***************************************************************************)
(* The notebook runtime of a browser tab without a server: the transport   *)
(* that stands for the gateway (web/src/browser-transport.ts) over the     *)
(* Python worker (web/src/browser-kernel.ts) and the notebook in IndexedDB. *)
(*                                                                         *)
(* The page's code runs one callback at a time and interleaves at its      *)
(* awaits; the worker is a thread of its own.  A run is one acceptance of  *)
(* a command by `run`, numbered in order; the contents of a notebook are   *)
(* the numbers of the runs that changed it.  A command refused because     *)
(* another one is active, or answered from the cache, changes nothing and  *)
(* is no step.  Opening the notebook is the setup command of the page.     *)
(***************************************************************************)
EXTENDS Integers, FiniteSets, SequencesExt

CONSTANTS
  Command,      \* [key, kind]: what the page may send
  MaxCache,     \* the results kept (16)
  Isolated,     \* whether the worker shares an interrupt buffer
  MaxRuns,      \* bound: runs
  MaxRequests,  \* bound: messages to workers
  MaxStops, MaxReloads, MaxErrors   \* bounds: stops, reloads, worker errors

ASSUME RuntimeAssumption == MaxCache \in Nat \ {0}

VARIABLES
  opened,    \* the notebook is set up in this tab
  task,      \* the active run: [n, stage, wait]
  snapshot, stored,
  cache,     \* the keys of kept results, oldest first
  kernel,    \* [up, ready, pending, inbox, running, flag]: WorkerKernel and its worker
  mail,      \* messages of workers not yet handled by the page
  stopTimers,\* requests that an interrupt will stop
  runs,      \* history: the command of each run
  answers,   \* history: "none", "ok", "failed" or "lost" for each run
  ran,       \* history: the runs whose code was started
  evicted,   \* history: the keys whose result was dropped, one entry for each
  stops, hit,\* history: the runs a stop was asked for, the runs one ended
  count      \* [requests, stops, reloads, errors]
tabVars == <<opened, snapshot, stored, cache, runs, answers, evicted>>
histVars == <<ran, stops, hit>>
vars == <<tabVars, histVars, task, kernel, mail, stopTimers, count>>

NoTask == [n |-> 0, stage |-> "none", wait |-> 0]
Kind(n) == runs[n].kind
Changing == {"execute", "modify", "restart"}
Requests == {"execute", "complete"}

Closed == [up |-> FALSE, ready |-> "none", pending |-> {}, inbox |-> <<>>,
           running |-> {}, flag |-> FALSE]

Init ==
  /\ opened = FALSE /\ task = NoTask
  /\ snapshot = <<>> /\ stored = <<>> /\ cache = <<>>
  /\ kernel = Closed /\ mail = <<>> /\ stopTimers = {}
  /\ runs = <<>> /\ answers = <<>> /\ ran = {} /\ evicted = <<>>
  /\ stops = {} /\ hit = {}
  /\ count = [requests |-> 0, stops |-> 0, reloads |-> 0, errors |-> 0]

----------------------------------------------------------------------------
(* The answer of the active run.                                            *)

\* Results are kept under their key; past the limit the oldest is dropped.
KeepAll(key) == cache' = Append(cache, key) /\ UNCHANGED evicted
KeepNothing(key) == UNCHANGED <<cache, evicted>>
Keep(key) ==
  LET kept == Append(cache, key) IN
  IF Len(kept) <= MaxCache THEN cache' = kept /\ UNCHANGED evicted
  ELSE cache' = Tail(kept) /\ evicted' = Append(evicted, Head(kept))

Answer(result) ==
  /\ answers' = [answers EXCEPT ![task.n] = result]
  /\ task' = NoTask

\* A failed execution may have changed the heap, so its result is kept too.
KeepFailure(key) == Keep(key)
Fail ==
  /\ Answer("failed")
  /\ IF Kind(task.n) = "execute" THEN KeepFailure(runs[task.n].key)
     ELSE UNCHANGED <<cache, evicted>>
Go(stage, wait) ==
  /\ task' = [task EXCEPT !.stage = stage, !.wait = wait]
  /\ UNCHANGED <<answers, cache, evicted>>

----------------------------------------------------------------------------
(* WorkerKernel.                                                            *)

\* `send`: the request is pending with a timer before it is posted; without a
\* worker the post throws and the request stays pending.
Post(k, id, method) ==
  LET request == [id |-> id, method |-> method, n |-> task'.n] IN
  [k EXCEPT !.pending = @ \cup {request}, !.inbox = IF k.up THEN Append(@, request) ELSE @]
NextId == count.requests + 1
Counted == count.requests < MaxRequests /\ count' = [count EXCEPT !.requests = @ + 1]

\* `initialize`: one worker and one initialization, shared until it is closed.
Initialize(k) == Post([k EXCEPT !.up = TRUE, !.ready = "pending"], NextId, "initialize")

\* `close`: the worker is terminated and every pending request rejected.
Rejects(ids) == task.stage # "none" /\ task.wait \in ids
Close ==
  /\ kernel' = Closed
  /\ IF Rejects({p.id : p \in kernel.pending}) THEN Fail
     ELSE UNCHANGED <<task, answers, cache, evicted>>

----------------------------------------------------------------------------
(* The transport.                                                           *)

\* The setup command reads the stored notebook and writes it back.
Open ==
  /\ ~opened /\ opened' = TRUE /\ snapshot' = stored /\ cache' = <<"setup">>
  /\ UNCHANGED <<task, stored, kernel, mail, stopTimers, runs, answers, evicted,
                 histVars, count>>

\* A run begins: requests await the initialization of a worker, a restart
\* closes the worker first, and other commands are ready to be stored.
Start(command) ==
  /\ opened /\ task.stage = "none" /\ Len(runs) < MaxRuns
  /\ ~ \E i \in DOMAIN cache : cache[i] = command.key
  \* keys are not used again by a new page
  /\ ~ \E n \in DOMAIN runs : runs[n].key = command.key /\
         (answers[n] = "lost" \/ runs[n].kind # command.kind)
  /\ runs' = Append(runs, command)
  /\ LET n == Len(runs) + 1
         stage(s, id) == task' = [n |-> n, stage |-> s, wait |-> id]
     IN
     \/ /\ command.kind = "restart"
        /\ stage("restart", NextId) /\ kernel' = Initialize(Closed) /\ Counted
        /\ answers' = Append(answers, "none") /\ UNCHANGED <<cache, evicted>>
     \/ /\ command.kind \in Requests /\ kernel.ready = "none"
        /\ stage("init", NextId) /\ kernel' = Initialize(kernel) /\ Counted
        /\ answers' = Append(answers, "none") /\ UNCHANGED <<cache, evicted>>
     \/ /\ command.kind \in Requests /\ kernel.ready = "ok"
        /\ stage("mount", 0)
        /\ answers' = Append(answers, "none") /\ UNCHANGED <<cache, evicted, kernel, count>>
     \/ /\ command.kind \in Requests /\ kernel.ready = "failed"   \* rejected until a restart
        /\ task' = NoTask /\ answers' = Append(answers, "failed")
        /\ IF command.kind = "execute" THEN KeepFailure(command.key) ELSE UNCHANGED <<cache, evicted>>
        /\ UNCHANGED <<kernel, count>>
     \/ /\ command.kind \in {"modify", "query"}
        /\ stage("commit", 0)
        /\ answers' = Append(answers, "none") /\ UNCHANGED <<cache, evicted, kernel, count>>
  /\ UNCHANGED <<opened, snapshot, stored, mail, stopTimers, histVars>>

\* The files of the workspace were read: they are sent before the request,
\* unless the worker is gone by now.
Mounted ==
  /\ task.stage = "mount"
  /\ \/ /\ kernel.up /\ Go("workspace", NextId)
        /\ kernel' = Post(kernel, NextId, "workspace") /\ Counted
     \/ /\ ~kernel.up /\ Fail
        /\ kernel' = [kernel EXCEPT !.pending =
             @ \cup {[id |-> NextId, method |-> "workspace", n |-> task.n]}]
        /\ Counted
     \/ Fail /\ UNCHANGED <<kernel, count>>      \* they could not be read
  /\ UNCHANGED <<opened, snapshot, stored, runs, mail, stopTimers, histVars>>

\* The interrupt buffer is reset before a request.
ResetNot(k) == k
Reset(k) == [k EXCEPT !.flag = FALSE]

\* A request was answered: the run goes on with its next await.
Continue(k, method) ==
  CASE method = "initialize" /\ task.stage = "init" ->
         Go("mount", 0) /\ kernel' = [k EXCEPT !.ready = "ok"] /\ UNCHANGED count
    [] method = "initialize" /\ task.stage # "init" ->
         Go("commit", 0) /\ kernel' = [k EXCEPT !.ready = "ok"] /\ UNCHANGED count
    [] method = "workspace" ->
         Go("run", NextId) /\ kernel' = Post(Reset(k), NextId, Kind(task.n)) /\ Counted
    [] method = "execute" -> Go("commit", 0) /\ kernel' = k /\ UNCHANGED count
    [] method = "complete" ->
         /\ Answer("ok") /\ UNCHANGED <<cache, evicted, count>> /\ kernel' = k

\* onmessage and onerror.  Messages of requests no longer pending are ignored;
\* an event the reducer refuses, or an error of the worker, closes it.
Receive ==
  /\ mail # <<>> /\ mail' = Tail(mail)
  /\ LET m == Head(mail)
         request == {p \in kernel.pending : p.id = m.id}
         rest == [kernel EXCEPT !.pending = @ \ request]
     IN
     \/ m.what = "crash" /\ Close /\ UNCHANGED count
     \/ /\ m.what # "crash" /\ request = {}
        /\ UNCHANGED <<kernel, task, answers, cache, evicted, count>>
     \/ m.what = "bad" /\ request # {} /\ Close /\ UNCHANGED count
     \/ /\ m.what = "error" /\ request # {} /\ UNCHANGED count
        /\ kernel' = IF \E p \in request : p.method = "initialize"
                     THEN [rest EXCEPT !.ready = "failed"] ELSE rest
        /\ IF Rejects({m.id}) THEN Fail ELSE UNCHANGED <<task, answers, cache, evicted>>
     \/ m.what = "result" /\ \E p \in request : Continue(rest, p.method)
  /\ UNCHANGED <<opened, snapshot, stored, runs, stopTimers, histVars>>

UnchangedButClose == UNCHANGED <<opened, snapshot, stored, runs, mail, histVars, count>>

\* The timer of a pending request.
TimedExecute(p) == p.method = "execute"
Timed(p) == p \in kernel.pending
TimesOut ==
  /\ \E p \in kernel.pending : Timed(p)
  /\ Close /\ UNCHANGED stopTimers /\ UnchangedButClose

\* The deadline of the whole request, from its start to its answer.
Deadline ==
  /\ task.stage \in {"init", "mount", "workspace", "run"}
  /\ kernel # Closed
  /\ Close /\ UNCHANGED stopTimers /\ UnchangedButClose

\* `interrupt`: only a request the worker was already sent is interrupted.
Interrupt ==
  /\ opened /\ task.stage # "none" /\ Kind(task.n) = "execute"
  /\ count.stops < MaxStops /\ count' = [count EXCEPT !.stops = @ + 1]
  /\ stops' = stops \cup {task.n}
  /\ LET active == {p \in kernel.pending : p.method = "execute"} IN
       /\ stopTimers' = stopTimers \cup {p.id : p \in active}
       /\ kernel' = [kernel EXCEPT !.flag = @ \/ (active # {} /\ Isolated)]
  /\ UNCHANGED <<tabVars, task, mail, ran, hit>>

\* After 1.5 seconds, or at once without a buffer, the worker is stopped if
\* that request is still pending.
Still(id) == \E p \in kernel.pending : p.id = id
StopTimer ==
  /\ \E id \in stopTimers :
       /\ stopTimers' = stopTimers \ {id}
       /\ IF Still(id)
          THEN Close /\ hit' = hit \cup {p.n : p \in {q \in kernel.pending : q.method = "execute"}}
          ELSE UNCHANGED <<kernel, task, answers, cache, evicted, hit>>
  /\ UNCHANGED <<opened, snapshot, stored, runs, mail, ran, stops, count>>

----------------------------------------------------------------------------
(* The worker.                                                              *)

Tells(id, what) == mail' = Append(mail, [id |-> id, what |-> what])
UnchangedByWorker == UNCHANGED <<tabVars, task, stopTimers, stops>>

WorkerTakes ==
  /\ kernel.running = {} /\ kernel.inbox # <<>>
  /\ LET r == Head(kernel.inbox) IN
       /\ kernel' = [kernel EXCEPT !.inbox = Tail(@), !.running = {r}]
       /\ ran' = IF r.method = "execute" THEN ran \cup {r.n} ELSE ran
  /\ UnchangedByWorker /\ UNCHANGED <<mail, hit, count>>
WorkerEnds ==
  /\ \E r \in kernel.running, what \in {"result", "error", "bad"} :
       Tells(r.id, what) /\ (what = "bad" => r.method = "execute")
  /\ kernel' = [kernel EXCEPT !.running = {}]
  /\ UnchangedByWorker /\ UNCHANGED <<ran, hit, count>>
\* The code sees the interrupt buffer and ends with its error as an output.
WorkerInterrupted ==
  /\ kernel.flag
  /\ \E r \in kernel.running :
       r.method = "execute" /\ Tells(r.id, "result") /\ hit' = hit \cup {r.n}
  /\ kernel' = [kernel EXCEPT !.running = {}, !.flag = FALSE]
  /\ UnchangedByWorker /\ UNCHANGED <<ran, count>>
WorkerCrashes ==
  /\ kernel.up /\ count.errors < MaxErrors /\ count' = [count EXCEPT !.errors = @ + 1]
  /\ Tells(0, "crash")
  /\ UnchangedByWorker /\ UNCHANGED <<kernel, ran, hit>>

----------------------------------------------------------------------------
(* Storage.                                                                 *)

Proposal == IF Kind(task.n) \in Changing THEN Append(snapshot, task.n) ELSE snapshot

\* The transaction completes, later the run goes on with it, or it aborts.
CommitNothing ==
  /\ task.stage = "commit" /\ Go("stored", 0)
  /\ UNCHANGED <<opened, snapshot, stored, runs, kernel, mail, stopTimers, histVars, count>>
Commit ==
  /\ task.stage = "commit" /\ stored' = Proposal /\ Go("stored", 0)
  /\ UNCHANGED <<opened, snapshot, runs, kernel, mail, stopTimers, histVars, count>>
Acknowledge ==
  /\ task.stage = "stored" /\ snapshot' = Proposal
  /\ Answer("ok") /\ Keep(runs[task.n].key)
  /\ UNCHANGED <<opened, stored, runs, kernel, mail, stopTimers, histVars, count>>
CommitFailsKept ==
  /\ task.stage = "commit" /\ Fail /\ snapshot' = Proposal
  /\ UNCHANGED <<opened, stored, runs, kernel, mail, stopTimers, histVars, count>>
CommitFails ==
  /\ task.stage = "commit" /\ Fail
  /\ UNCHANGED <<opened, snapshot, stored, runs, kernel, mail, stopTimers, histVars, count>>

\* The page is reloaded: all but the stored notebook is lost, and no result
\* of the old page is asked for again.
Reload ==
  /\ count.reloads < MaxReloads /\ count' = [count EXCEPT !.reloads = @ + 1]
  /\ opened' = FALSE /\ task' = NoTask /\ snapshot' = <<>> /\ cache' = <<>>
  /\ kernel' = Closed /\ mail' = <<>> /\ stopTimers' = {}
  /\ answers' = [n \in DOMAIN answers |-> IF answers[n] = "none" THEN "lost" ELSE answers[n]]
  /\ evicted' = evicted \o cache
  /\ UNCHANGED <<stored, runs, histVars>>

Worker == WorkerTakes \/ WorkerEnds \/ WorkerInterrupted \/ WorkerCrashes
Storage == Commit \/ Acknowledge \/ CommitFails
Next ==
  \/ Open \/ (\E c \in Command : Start(c)) \/ Mounted \/ Receive
  \/ TimesOut \/ Deadline \/ Interrupt \/ StopTimer \/ Worker \/ Storage \/ Reload

Spec == Init /\ [][Next]_vars
\* Callbacks, transactions and timers of a page come; a worker may hang.
FairSpec == Spec /\ WF_vars(Mounted) /\ WF_vars(Receive) /\ WF_vars(TimesOut)
                 /\ WF_vars(Storage)

----------------------------------------------------------------------------
(* Properties.                                                              *)

RuntimeTypeOK ==
  /\ task.stage \in {"none", "init", "mount", "workspace", "run", "restart", "commit", "stored"}
  /\ kernel.ready \in {"none", "pending", "ok", "failed"}
  /\ kernel.up <=> kernel.ready # "none"
  /\ Len(cache) <= MaxCache /\ Len(answers) = Len(runs)
  /\ ran \cup hit \cup stops \subseteq DOMAIN runs

\* What was acknowledged is in the stored notebook, also after a reload, in
\* the order of the runs, and what was refused is in no later version of it
\* ("Commit durable notebook storage before acknowledging a command",
\* browser-transport.ts:331).
AcknowledgedIsStored ==
  \A n \in DOMAIN answers :
    answers[n] = "ok" /\ Kind(n) \in Changing => Contains(stored, n)

\* A refused change is neither stored nor shown by a later one.
RefusedLeavesNoTrace ==
  \A n \in DOMAIN answers : answers[n] = "failed" => ~Contains(stored \o snapshot, n)

\* The code of one command is started again only after its result, which is
\* kept for failures too, was dropped from the cache (browser-transport.ts:353-370).
StartedOnce ==
  \A key \in {c.key : c \in Command} :
    Cardinality({n \in ran : runs[n].key = key})
      <= 1 + Cardinality({i \in DOMAIN evicted : evicted[i] = key})

\* A stop ends only the execution it was asked for, although the worker, the
\* interrupt buffer and the timer outlive it (browser-kernel.ts:144-160).
StopsItsOwn == hit \subseteq stops

\* Every answer tells what was stored, run and stopped.
RuntimeInv ==
  RuntimeTypeOK /\ AcknowledgedIsStored /\ RefusedLeavesNoTrace /\ StartedOnce /\ StopsItsOwn

\* Every command is answered although the worker may hang: "never strand the
\* UI" (browser-kernel.ts:150).
NeverStranded == task.stage # "none" ~> task.stage = "none"

\* "Stop attempts cooperative interruption, then terminates the worker after
\* 1.5 seconds if the request has not settled" (docs/browser-runtime.md:177): the
\* execution that a stop was asked for has a stop timer.
StopReachesExecution ==
  task.stage \in {"init", "mount", "workspace", "run"} /\ task.n \in stops =>
    \E p \in kernel.pending : p.n = task.n /\ p.id \in stopTimers
=============================================================================
