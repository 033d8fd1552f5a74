-------------------------- MODULE MCCellExecution --------------------------
(* Small instances of an execution and its outputs for TLC. *)
EXTENDS CellExecution

Plain(kind, name, id) ==
  [kind |-> kind, name |-> name, id |-> id, wait |-> FALSE, ok |-> TRUE, size |-> 1, at |-> 0]
Text(name) == Plain("stream", name, NoId)
Display(id) == Plain("display_data", "text/plain", id)
Update(id) == Plain("update_display_data", SVG, id)
ClearEvent(wait) == [Plain("clear_output", "", NoId) EXCEPT !.wait = wait]
Refused(e) == [e EXCEPT !.ok = FALSE]

\* What clears and updates do to displays and streams, one channel in order.
ReductionEvents ==
  {Text("stdout"), Text("stderr"), Display("d"), Display(NoId), Update("d"),
   ClearEvent(TRUE), ClearEvent(FALSE), Plain("comm_open", "", NoId),
   Refused(Text("stdout"))}
\* The kinds and sizes that the limits and the storage tell apart.
StorageEvents ==
  {[Text("stdout") EXCEPT !.size = 2], Plain("display_data", SVG, "d"),
   Plain("execute_result", "image/png", "d"), Plain("error", "", NoId),
   Plain("update_display_data", "text/plain", "d"), Refused(ClearEvent(TRUE))}
AllEvents == ReductionEvents \cup StorageEvents
=============================================================================
