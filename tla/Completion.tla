----------------------------- MODULE Completion -----------------------------
(***************************************************************************)
(* Completion in the notebook's editors: asking for it after a pause in    *)
(* typing, the answer of the kernel through the command queue and the      *)
(* gateway, and the acceptance of a suggestion (crates/notebook-egui and   *)
(* the complete command of crates/notebook-gateway/src/native/server.rs).  *)
(*                                                                         *)
(* A text is a sequence of characters, each with the number of bytes of    *)
(* its encoding.  The editor counts bytes; the kernel, the check of the    *)
(* gateway and the check of browser mode count characters.                 *)
(***************************************************************************)
EXTENDS Integers, SequencesExt

CONSTANTS
  Field,       \* the cells with an editor
  Bytes,       \* the characters: each is the number of its bytes
  Match,       \* the character that stands for the text of a suggestion
  MaxLength, MaxAsked   \* bounds: length of a text, completions asked for

\* A character has at least one byte.
ASSUME CompletionAssumption == Bytes \subseteq Nat \ {0}

VARIABLES
  editor,      \* the text of each cell's editor
  caret,       \* the character position of the caret
  due,         \* completion_due
  pending,     \* pending_completions: [id, cell]
  requests,    \* complete commands on their way: [id, code, cursor]
  suggestion,  \* completion_suggestions: at most one [start, end] of each cell
  asked,       \* number of commands
  meant,       \* history: what the answer in a popup is about: [cell, code, start, end]
  accepted     \* history: the suggestion accepted last: what was meant, and the text
completionVars == <<editor, caret, due, pending, requests, suggestion, asked, meant, accepted>>

NoAnswer == [cell |-> "none"]
CompletionInit ==
  /\ editor = [c \in Field |-> <<>>] /\ caret = [c \in Field |-> 0]
  /\ due = {} /\ pending = {} /\ requests = <<>>
  /\ suggestion = [c \in Field |-> {}] /\ asked = 0
  /\ meant = [c \in Field |-> NoAnswer] /\ accepted = NoAnswer

Width(ch) == IF ch = Match THEN 1 ELSE ch
Passed(n, ch) == n + Width(ch)
ByteOf(text, i) == FoldLeft(Passed, 0, SubSeq(text, 1, i))
CharAt(text, b) == CHOOSE i \in 0 .. Len(text) : ByteOf(text, i) = b
Boundaries(text) == {ByteOf(text, i) : i \in 0 .. Len(text)}

----------------------------------------------------------------------------
(* The editor.                                                              *)

TypeText(c, ch) ==
  /\ Len(editor[c]) < MaxLength
  /\ editor' = [editor EXCEPT ![c] = SubSeq(@, 1, caret[c]) \o <<ch>> \o SubSeq(@, caret[c] + 1, Len(@))]
  /\ caret' = [caret EXCEPT ![c] = @ + 1]
  /\ due' = due \cup {c}
  /\ UNCHANGED <<pending, requests, suggestion, asked, meant, accepted>>
MoveCaret(c) ==
  /\ caret' \in {[caret EXCEPT ![c] = i] : i \in 0 .. Len(editor[c])}
  /\ UNCHANGED <<editor, due, pending, requests, suggestion, asked, meant, accepted>>

\* A pause in typing: the text as it is now is sent, unless edit mode has ended.
Ask(c) ==
  /\ c \in due /\ due' = due \ {c}
  /\ \/ /\ asked < MaxAsked /\ asked' = asked + 1
        /\ pending' = pending \cup {[id |-> asked + 1, cell |-> c]}
        /\ requests' = Append(requests, [id |-> asked + 1, code |-> editor[c],
                                   cursor |-> ByteOf(editor[c], caret[c])])
     \/ UNCHANGED <<asked, pending, requests>>
  /\ UNCHANGED <<editor, caret, suggestion, meant, accepted>>

----------------------------------------------------------------------------
(* The kernel and the gateway.                                              *)

\* The kernel completes the word before the position, in characters; the
\* gateway refuses a range that is not within the text.
Ranges(m) ==
  LET last == IF m.cursor < Len(m.code) THEN m.cursor ELSE Len(m.code) IN
  {[start |-> i, end |-> last] : i \in 0 .. last}

\* The answer belongs to the cell it was asked for; there may be none.
ForLatest(id) == LET all == {p.cell : p \in pending} IN
  IF all = {} THEN {} ELSE {CHOOSE c \in all : TRUE}
For(id) == {p.cell : p \in {q \in pending : q.id = id}}
Suggest ==
  /\ requests # <<>> /\ requests' = Tail(requests)
  /\ LET m == Head(requests) IN
       \/ \E r \in Ranges(m), c \in For(m.id) :
            /\ pending' = {p \in pending : p.id # m.id}
            /\ suggestion' = [suggestion EXCEPT ![c] = {r}]
            /\ meant' = [meant EXCEPT ![c] =
                 [cell |-> CHOOSE d \in Field : \E p \in pending : p.id = m.id /\ p.cell = d,
                  code |-> m.code, start |-> r.start, end |-> r.end]]
       \/ UNCHANGED <<pending, suggestion, meant>>          \* an error
  /\ UNCHANGED <<editor, caret, due, asked, accepted>>

\* accept_completion: the range is cut to the text, its ends must lie between
\* characters; the popup is closed in any case.
Least(a, b) == IF a < b THEN a ELSE b
Size(text) == ByteOf(text, Len(text))
Replaced(text, from, to) == SubSeq(text, 1, from) \o <<Match>> \o SubSeq(text, to + 1, Len(text))
Accept(c) ==
  /\ \E r \in suggestion[c] :
       LET text == editor[c]
           start == Least(r.start, Size(text))
           end == IF Least(r.end, Size(text)) < start THEN start ELSE Least(r.end, Size(text))
       IN IF {start, end} \subseteq Boundaries(text)
          THEN LET from == CharAt(text, start)
                   new == Replaced(text, from, CharAt(text, end))
               IN /\ editor' = [editor EXCEPT ![c] = new]
                  /\ caret' = [caret EXCEPT ![c] = from + 1]
                  /\ accepted' = [cell |-> c, meant |-> meant[c], text |-> text, new |-> new]
          ELSE UNCHANGED <<editor, caret, accepted>>
  /\ suggestion' = [suggestion EXCEPT ![c] = {}]
  /\ UNCHANGED <<due, pending, requests, asked, meant>>
Close(c) ==
  /\ suggestion[c] # {} /\ suggestion' = [suggestion EXCEPT ![c] = {}]
  /\ UNCHANGED <<editor, caret, due, pending, requests, asked, meant, accepted>>

CompletionNext ==
  \/ \E c \in Field : MoveCaret(c) \/ Ask(c) \/ Accept(c) \/ Close(c) \/ \E ch \in Bytes : TypeText(c, ch)
  \/ Suggest
CompletionSpec == CompletionInit /\ [][CompletionNext]_completionVars

----------------------------------------------------------------------------
(* Properties.                                                              *)

\* "selected completion replaces kernel cursor range" (the test at
\* notebook-egui/src/lib.rs:4373), as long as the text is ASCII and is the text
\* the kernel was asked about: what it meant to replace in that cell is
\* replaced, and nothing else.
ReplacedAsMeant ==
  /\ accepted.meant.cell = accepted.cell
  /\ accepted.new = Replaced(accepted.meant.code, accepted.meant.start, accepted.meant.end)
ReplacesKernelRange ==
  accepted # NoAnswer /\ accepted.text = accepted.meant.code
  /\ Size(accepted.text) = Len(accepted.text) => ReplacedAsMeant

\* The same of every text, also one the user went on typing: the editor counts
\* bytes, and neither typing nor a new snapshot withdraws a suggestion.
AlwaysReplacesKernelRange == accepted # NoAnswer => ReplacedAsMeant
=============================================================================
