--------------------------- MODULE CellExecution ---------------------------
(***************************************************************************)
(* One ExecuteCell command of the gateway against its kernel: `execute`    *)
(* and `emit` of notebook-gateway, over the reduction of OutputState.      *)
(*                                                                         *)
(* A kernel answers on two channels, the outputs and its status on iopub   *)
(* and the reply on shell, which the server merges into one socket in any  *)
(* order between the channels.  Another client of the same kernel has its  *)
(* messages on the same iopub channel.  Every change is saved to the       *)
(* notebook file and then published to the room; either may fail, and a    *)
(* save may take effect without an answer.                                 *)
(***************************************************************************)
EXTENDS OutputState

CONSTANTS
  Event,        \* the messages a cell may produce, without their position
  MaxEvents,    \* bound: messages the cell produces
  MaxLag,       \* bound: messages waiting on a channel
  MaxForeign,   \* bound: messages of other requests
  MaxFaults     \* bound: emits that fail

\* What the protocol says of a message: only displays have a display id.
ASSUME ExecutionAssumption ==
  /\ Event \subseteq [kind : STRING, name : STRING, id : STRING, wait : BOOLEAN,
                     ok : BOOLEAN, size : Nat, at : {0}]
  /\ \A e \in Event : e.kind \in {"stream", "error"} => e.id = NoId

VARIABLES
  kernel,    \* [state, foreign]: "ready", "running", "ended"
  produced,  \* the messages the kernel produced for this request
  iopub, shell,
  exec,      \* "ready", "running", "done", "failed"
  replied, idle,
  outputs,   \* OutputState of this execution
  accepted,  \* history: the messages that were applied
  raw,       \* [outputs, count]: the cell in memory
  file,      \* the cell in the notebook file
  room,      \* the outputs and the count the room shows
  interrupted,
  faults
vars == <<kernel, produced, iopub, shell, exec, replied, idle, outputs, accepted,
          raw, file, room, interrupted, faults>>
kernelVars == <<kernel, produced>>
progressVars == <<replied, idle>>

Ours == "ours"
Foreign == "foreign"
Stale == [outputs |-> <<[kind |-> "text", name |-> "text/plain", text |-> <<0>>, layers |-> 0]>>,
          count |-> "old"]
Blank == [outputs |-> <<>>, count |-> "none"]
Cells(stored) == [stored EXCEPT !.outputs = ReadBack(@)]

Init ==
  /\ kernel = [state |-> "ready", foreign |-> 0]
  /\ produced = <<>> /\ iopub = <<>> /\ shell = <<>>
  /\ exec = "ready" /\ replied = FALSE /\ idle = FALSE
  /\ outputs = Empty /\ accepted = <<>>
  /\ raw = Stale /\ file = Stale /\ room = Stale
  /\ interrupted = FALSE /\ faults = 0

----------------------------------------------------------------------------
(* The kernel.                                                              *)

Message(parent, kind) == [parent |-> parent, kind |-> kind, event |-> Empty]
Publishes(m) ==   \* nothing is delivered once the socket is dropped
  IF exec = "failed" THEN UNCHANGED iopub ELSE Len(iopub) < MaxLag /\ iopub' = Append(iopub, m)
UnchangedGateway ==
  UNCHANGED <<exec, replied, idle, outputs, accepted, raw, file, room, interrupted, faults>>

\* A cell that is run is announced with its count before its outputs.
KernelStarts ==
  /\ kernel.state = "sent"
  /\ kernel' = [kernel EXCEPT !.state = "running"]
  /\ Publishes(Message(Ours, "execute_input"))
  /\ UNCHANGED <<produced, shell>> /\ UnchangedGateway

KernelProduces(e) ==
  /\ kernel.state = "running" /\ Len(produced) < MaxEvents
  /\ LET event == [e EXCEPT !.at = Len(produced) + 1] IN
       /\ produced' = Append(produced, event)
       /\ Publishes([parent |-> Ours, kind |-> "event", event |-> event])
  /\ UNCHANGED <<kernel, shell>> /\ UnchangedGateway

\* The reply precedes the idle status; a request dropped after an interrupt or
\* an earlier error is answered without being announced.
KernelReplies ==
  /\ kernel.state \in {"sent", "running"}
  /\ kernel' = [kernel EXCEPT !.state = "replied"]
  /\ shell' = Append(shell, Message(Ours, "execute_reply"))
  /\ UNCHANGED <<produced, iopub>> /\ UnchangedGateway

KernelIdles ==
  /\ kernel.state = "replied"
  /\ kernel' = [kernel EXCEPT !.state = "ended"]
  /\ Publishes(Message(Ours, "idle"))
  /\ UNCHANGED <<produced, shell>> /\ UnchangedGateway

\* Requests of other clients run before or after this one.
OtherText ==
  [kind |-> "stream", name |-> "stdout", id |-> NoId, wait |-> FALSE, ok |-> TRUE,
   size |-> 1, at |-> 0]
KernelServesOthers(kind) ==
  /\ kernel.state \in {"sent", "ended"} /\ kernel.foreign < MaxForeign
  /\ kernel' = [kernel EXCEPT !.foreign = @ + 1]
  /\ Publishes([Message(Foreign, kind) EXCEPT !.event = OtherText])
  /\ UNCHANGED <<produced, shell>> /\ UnchangedGateway

----------------------------------------------------------------------------
(* The gateway.                                                             *)

\* After the code was sent, a failure asks for an interrupt.
FailsQuietly == exec' = "failed" /\ UNCHANGED interrupted
Fails == exec' = "failed" /\ interrupted' = (kernel.state # "ready")

\* `emit`: the PUT and then the publication, or one of its faults.  `to` is
\* what the caller does next when both succeed.
emit(cell, to) ==
  \/ file' = cell /\ room' = Cells(cell) /\ to /\ UNCHANGED faults
  \/ /\ faults < MaxFaults /\ faults' = faults + 1
     \* The PUT was refused, its answer or the publication failed, or the
     \* progress message was too large.
     /\ \/ UNCHANGED <<file, room>>
        \/ file' = cell /\ room' \in {room, Cells(cell)}
     /\ Fails

\* The outputs are cleared everywhere before the code is sent, if it can be.
Start ==
  /\ exec = "ready"
  /\ raw' = Blank
  /\ \/ /\ emit(Blank, exec' = "running" /\ UNCHANGED interrupted)
        /\ kernel' = IF exec' = "running" THEN [kernel EXCEPT !.state = "sent"] ELSE kernel
     \/ emit(Blank, Fails) /\ UNCHANGED kernel
  /\ UNCHANGED <<produced, iopub, shell, replied, idle, outputs, accepted>>

Running == exec' = exec /\ UNCHANGED interrupted
Finishes(r, i) == IF r /\ i THEN exec' = "done" /\ UNCHANGED interrupted ELSE Running

\* The loop ends once the reply and the idle status were both seen, in either
\* order, and emits a last time.
NotedOnReply(r, i) ==
  /\ replied' = r /\ idle' = i
  /\ IF r THEN emit(raw', Finishes(r, TRUE)) ELSE Running /\ UNCHANGED <<file, room, faults>>
NotedInOrder(r, i) ==
  LET counted == i /\ r IN
  /\ replied' = r /\ idle' = counted
  /\ IF counted THEN emit(raw', Finishes(r, i)) ELSE Running /\ UNCHANGED <<file, room, faults>>
Noted(r, i) ==
  /\ replied' = r /\ idle' = i
  /\ IF r /\ i THEN emit(raw', Finishes(r, i)) ELSE Running /\ UNCHANGED <<file, room, faults>>

\* An output is applied, stored in the cell and emitted; one that is refused
\* ends the execution with an interrupt.
OnEventSkips(e) ==
  /\ UNCHANGED progressVars
  /\ IF Accepts(outputs, e)
     THEN /\ outputs' = apply(outputs, e)
          /\ accepted' = Append(accepted, e)
          /\ raw' = [raw EXCEPT !.outputs = [i \in DOMAIN outputs'.outputs |->
                                               output_nb(outputs'.outputs[i])]]
          /\ emit(raw', Running)
     ELSE Running /\ UNCHANGED <<outputs, accepted, raw, file, room, faults>>
OnEvent(e) ==
  /\ UNCHANGED progressVars
  /\ IF Accepts(outputs, e)
     THEN /\ outputs' = apply(outputs, e)
          /\ accepted' = Append(accepted, e)
          /\ raw' = [raw EXCEPT !.outputs = [i \in DOMAIN outputs'.outputs |->
                                               output_nb(outputs'.outputs[i])]]
          /\ emit(raw', Running)
     ELSE Fails /\ UNCHANGED <<outputs, accepted, raw, file, room, faults>>

\* Messages with another parent are skipped, and so are unknown ones.
Handled(e) == Shows(e) \/ e.kind = "clear_output"
Ignored(m) == m.parent # Ours \/ (m.kind = "event" /\ ~Handled(m.event))
OnMessage(m) ==
  CASE Ignored(m) ->
         Running /\ UNCHANGED <<replied, idle, outputs, accepted, raw, file, room, faults>>
    [] ~Ignored(m) /\ m.kind = "execute_reply" ->
         /\ raw' = [raw EXCEPT !.count = "new"] /\ UNCHANGED <<outputs, accepted>>
         /\ Noted(TRUE, idle)
    [] ~Ignored(m) /\ m.kind = "idle" ->
         UNCHANGED <<outputs, accepted, raw>> /\ Noted(replied, TRUE)
    [] ~Ignored(m) /\ m.kind = "execute_input" ->
         /\ raw' = [raw EXCEPT !.count = "new"] /\ UNCHANGED <<replied, idle, outputs, accepted>>
         /\ emit(raw', Running)
    [] ~Ignored(m) /\ m.kind = "event" -> OnEvent(m.event)

ReceiveIopub ==
  /\ exec = "running" /\ iopub # <<>>
  /\ iopub' = Tail(iopub) /\ OnMessage(Head(iopub))
  /\ UNCHANGED <<kernel, produced, shell>>
ReceiveShell ==
  /\ exec = "running" /\ shell # <<>>
  /\ shell' = Tail(shell) /\ OnMessage(Head(shell))
  /\ UNCHANGED <<kernel, produced, iopub>>

\* The command times out or the socket is lost; the kernel is interrupted.
Abandon ==
  /\ exec = "running" /\ Fails
  /\ UNCHANGED <<kernel, produced, iopub, shell, replied, idle, outputs, accepted,
                 raw, file, room, faults>>

KernelSteps ==
  \/ KernelStarts \/ KernelReplies \/ KernelIdles
  \/ \E e \in Event : KernelProduces(e)
  \/ \E kind \in {"event", "idle"} : KernelServesOthers(kind)
Next == KernelSteps \/ Start \/ ReceiveIopub \/ ReceiveShell \/ Abandon

Spec == Init /\ [][Next]_vars
\* The server delivers what is on its channels and the kernel ends a cell it
\* was asked to interrupt, but a cell may run for ever and no timeout is fair.
FairSpec ==
  /\ Spec /\ WF_vars(ReceiveIopub) /\ WF_vars(ReceiveShell)
  /\ WF_vars(interrupted /\ KernelReplies) /\ WF_vars(KernelIdles)

----------------------------------------------------------------------------
(* Properties.                                                              *)

ExecTypeOK ==
  /\ kernel.state \in {"ready", "sent", "running", "replied", "ended"}
  /\ exec \in {"ready", "running", "done", "failed"}
  /\ {replied, idle, interrupted, outputs.clear_next} \subseteq BOOLEAN
  /\ Len(outputs.outputs) = Len(outputs.ids) /\ Fits(outputs.outputs)
  /\ Len(accepted) <= Len(produced)
  /\ file.count \in {"old", "none", "new"} /\ room.count \in {"old", "none", "new"}

\* The reduced outputs are those of the applied messages since the last clear
\* that took effect, each with the content of its latest update, text of one
\* stream in one piece: deferred clears, merged streams and updates by display
\* id together (reduce, runtime lib.rs:137-222).
OutputsFollowMessages ==
  /\ Shown(outputs.outputs) = Promised(accepted)
  /\ Joined(outputs.outputs)

\* The file holds the outputs of a first part of what the kernel produced,
\* never some later message without an earlier one, also after a refused
\* message, a failed save or a timeout (execute, server.rs:1102-1117).
FileIsPrefix ==
  exec = "ready" \/ file = Stale \/
  \E n \in 0..Len(produced) :
    /\ Shown(Cells(file).outputs) = Promised(SubSeq(produced, 1, n))

\* An execution that succeeds has saved and published every output the kernel
\* produced for it, and its count, whichever of the reply and the idle status
\* came first and whatever other requests put on the channel (server.rs:1077-1120).
DoneShowsAll ==
  exec = "done" =>
    /\ kernel.state = "ended"
    /\ Shown(Cells(file).outputs) = Promised(produced)
    /\ file.count = "new" /\ room = Cells(file)

\* What the room shows while and after a cell runs is what a reader of the
\* saved file gets: the outputs written and reduced again are the outputs of
\* the execution (output_nb and snapshot, jupyter.rs:374-417 and 698-721).
RoomShowsExecution ==
  exec \in {"running", "done"} => room.outputs = outputs.outputs

\* The reduced outputs, the file and the room follow the execution together.
OutputInv == ExecTypeOK /\ FileIsPrefix /\ DoneShowsAll /\ RoomShowsExecution

\* Once the kernel has ended, the execution ends without its timeout.
EndsWithKernel == kernel.state = "ended" ~> exec \in {"done", "failed"}

\* A failed execution, by a timeout, a refused message or a failed emit, does
\* not leave its cell running in the kernel (server.rs:1124-1127).
FailureFreesKernel == exec = "failed" ~> kernel.state \in {"ready", "ended"}

\* An execution ends with the kernel, and the kernel with the execution.
ExecutionEnds == EndsWithKernel /\ FailureFreesKernel
=============================================================================
