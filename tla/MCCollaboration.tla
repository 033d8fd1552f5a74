--------------------------- MODULE MCCollaboration ---------------------------
(* Small instances of the single-driver policy for TLC. *)
EXTENDS Collaboration, TLC

\* The instance is a union of smaller ones: three clients in one room, two
\* clients in two rooms, and two clients with commands, views and renames.
CONSTANTS Third, First   \* a client that meets the others in one room only

\* No command was committed and no notebook was renamed.
Unmoved == ws.redirects = 0 /\ \A p \in Path : ws.snapshot[p] = 0
Focus ==
  /\ Third \in ws.members => ws.rooms \subseteq {First} /\ Unmoved /\ ws.view = None /\ ~Busy(ws)
  /\ Cardinality(ws.rooms) > 1 \/ ~Unmoved => ws.view = None /\ ~ws.released
  /\ Cardinality(ws.rooms) > 1 => Unmoved /\ ~Busy(ws)
MCNext == Next /\ Focus'
MCSpec == Init /\ [][MCNext]_vars /\ WF_vars((\E c \in Pollers, p \in Path : Ask(c, p)) /\ Focus')
=============================================================================
