----------------------------- MODULE MCPlayground -----------------------------
(* Small instances of the playground for TLC. *)
EXTENDS Playground, TLC

CONSTANTS Claimer   \* a client that joins where no command runs

\* Commands are numbers, and interchangeable: the first is used first.  The
\* instance is the union of three: one client with one command of any kind and
\* two playgrounds, which it closes; one client with two commands of one
\* playground, of which none modifies and which only the reaper closes; and two
\* clients with one playground and changes of the document.
Used(k) == run[k].stage # "none" \/ \E i \in Ids : executed[<<i, k>>] > 0 \/ slot.seen[k] # "new"
Edited == doc > 0 \/ disposer["edit"].stage # "none"
Focus ==
  /\ \A k \in Command : Used(k) => \A j \in 1 .. (k - 1) : Used(j)
  /\ Claimer \in ws.members \/ Edited => \A k \in Command : ~Used(k)
  /\ opens > 1 => Claimer \notin ws.members /\ \A k \in Command \ {1} : ~Used(k)
  /\ (\E k \in Command \ {1} : Used(k)) =>
       /\ \A k \in Command : run[k].stage = "none" \/ run[k].kind # "Modify"
       /\ \A c \in Client : disposer[c].stage = "none"

MCNext == PlaygroundNext /\ Focus'
MCSpec == PlaygroundInit /\ [][MCNext]_playgroundVars
=============================================================================
