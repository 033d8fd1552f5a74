---------------------------- MODULE OutputState ----------------------------
(***************************************************************************)
(* The reduction of kernel messages to the outputs of a cell               *)
(* (notebook-runtime, OutputState), and its reading of outputs stored in a *)
(* notebook file (notebook-gateway, snapshot and output_nb).               *)
(*                                                                         *)
(* An event is [kind, name, id, wait, ok, size, at]: `name` is the name of *)
(* a stream or the MIME type of a display, `id` its display id, `ok`       *)
(* whether its content is well formed, and its content is the number `at`  *)
(* repeated `size` times, so that a text is a sequence of numbers.         *)
(***************************************************************************)
EXTENDS Integers, SequencesExt

CONSTANTS
  MaxOutputs,   \* MAX_OUTPUTS
  MaxBytes      \* MAX_OUTPUT_BYTES, in units of content

ASSUME LimitsAssumption == MaxOutputs \in Nat \ {0} /\ MaxBytes \in Nat \ {0}

NoId == "none"
SVG == "image/svg+xml"

Empty == [outputs |-> <<>>, ids |-> <<>>, clear_next |-> FALSE]

Pushing == {"stream", "display_data", "execute_result", "error"}
Shows(e) == e.kind \in Pushing \cup {"update_display_data"}

Content(e) == [i \in 1..e.size |-> e.at]

\* `display`: an SVG is kept in base64, `layers` counts the encodings.
display(e) ==
  [kind |-> IF e.name = "text/plain" THEN "text" ELSE "rich", name |-> e.name,
   text |-> Content(e), layers |-> IF e.name = SVG THEN 1 ELSE 0]
Output(e) ==
  IF e.kind \in {"stream", "error"}
  THEN [kind |-> e.kind, name |-> e.name, text |-> Content(e), layers |-> 0]
  ELSE display(e)

Bytes(outputs) == Len(FlattenSeq([k \in DOMAIN outputs |-> outputs[k].text]))
Fits(outputs) == Len(outputs) <= MaxOutputs /\ Bytes(outputs) <= MaxBytes

\* A deferred clear takes effect with the next output.
Cleared(s) == IF s.clear_next THEN Empty ELSE s

\* A stream continues the last output when that is the same stream: that output
\* is popped with its display id, and the whole text pushed under the new one.
Continues(s, o) ==
  /\ o.kind = "stream" /\ s.outputs # <<>>
  /\ Last(s.outputs).kind = "stream" /\ Last(s.outputs).name = o.name
Push(s, o, id) ==
  IF Continues(s, o)
  THEN [outputs |-> Append(Front(s.outputs), [o EXCEPT !.text = Last(s.outputs).text \o @]),
        ids |-> Append(Front(s.ids), id), clear_next |-> FALSE]
  ELSE [outputs |-> Append(s.outputs, o), ids |-> Append(s.ids, id), clear_next |-> FALSE]

\* Every output displayed under the id is replaced.
UpdateDisplay(s, e) ==
  [s EXCEPT !.clear_next = FALSE,
     !.outputs = [i \in DOMAIN @ |->
       IF e.id # NoId /\ s.ids[i] = e.id THEN display(e) ELSE @[i]]]

Clear(s, wait) == [IF wait THEN s ELSE Empty EXCEPT !.clear_next = wait]

reduceKeepsClear(s, e) ==
  CASE e.kind = "clear_output" -> Clear(s, e.wait)
    [] e.kind \in Pushing -> [Push(Cleared(s), Output(e), e.id) EXCEPT !.clear_next = s.clear_next]
    [] e.kind = "update_display_data" -> UpdateDisplay(Cleared(s), e)
    [] OTHER -> s
reduce(s, e) ==
  CASE e.kind = "clear_output" -> Clear(s, e.wait)
    [] e.kind \in Pushing -> Push(Cleared(s), Output(e), e.id)
    [] e.kind = "update_display_data" -> UpdateDisplay(Cleared(s), e)
    [] OTHER -> s

\* `apply`: an event is applied as a whole or refused.
AcceptsLate(s, e) == (Shows(e) \/ e.kind = "clear_output" => e.ok) /\ Fits(s.outputs)
Accepts(s, e) ==
  /\ Shows(e) \/ e.kind = "clear_output" => e.ok
  /\ Fits(reduce(s, e).outputs)
apply(s, e) == IF Accepts(s, e) THEN reduce(s, e) ELSE s

\* `output_nb`: what a notebook file holds of an output, and `snapshot`, which
\* reduces the stored outputs again.
output_nbEncoded(o) == o
output_nb(o) == IF o.name = SVG THEN [o EXCEPT !.layers = @ - 1] ELSE o

Encoded(o) == IF o.name = SVG THEN [o EXCEPT !.layers = @ + 1] ELSE o
ReadBack(stored) ==
  LET read[k \in 0..Len(stored)] ==
        IF k = 0 THEN Empty ELSE Push(read[k - 1], Encoded(stored[k]), NoId)
  IN read[Len(stored)].outputs

----------------------------------------------------------------------------
(* What the outputs of a history of applied events should be, without the   *)
(* intermediate states.                                                     *)

\* The last clear that took effect: at once, or with an output after it.
LastClear(h) ==
  Max({0} \cup {i \in DOMAIN h : /\ h[i].kind = "clear_output"
                                 /\ ~h[i].wait \/ \E j \in i + 1 .. Len(h) : Shows(h[j])})

\* The event whose content is shown where event i was displayed.
Latest(h, i) ==
  Max({i} \cup {j \in i + 1 .. Len(h) : /\ h[j].kind = "update_display_data"
                                        /\ h[i].id # NoId /\ h[j].id = h[i].id})

\* What is shown of an event, one entry for each unit of content.
Units(e) == [u \in 1..e.size |-> [name |-> e.name, at |-> e.at]]
Piece(h, i) ==
  IF i > LastClear(h) /\ h[i].kind \in Pushing THEN Units(h[Latest(h, i)]) ELSE <<>>
Promised(h) == FlattenSeq([i \in DOMAIN h |-> Piece(h, i)])

UnitsOf(o) == [u \in DOMAIN o.text |-> [name |-> o.name, at |-> o.text[u]]]
Shown(outputs) == FlattenSeq([k \in DOMAIN outputs |-> UnitsOf(outputs[k])])

\* Text of one stream is one output while nothing else comes between.
Joined(outputs) ==
  \A i \in 1 .. Len(outputs) - 1 :
    ~ /\ outputs[i].kind = "stream" /\ outputs[i + 1].kind = "stream"
      /\ outputs[i].name = outputs[i + 1].name
=============================================================================
