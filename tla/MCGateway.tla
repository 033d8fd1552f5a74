------------------------------ MODULE MCGateway ------------------------------
(* Small instances of command dispatch for TLC. *)
EXTENDS Gateway, TLC

\* Commands are interchangeable: their numbers are submitted in order.
Submitted == {k \in Command : ledger[k] # "absent"}
InOrder == \A k \in Submitted : \A j \in Command : j < k => j \in Submitted
Kinds_(ks) == \A k \in Submitted : task[k].kind \in ks

\* The instance is a union of three, of which the last two know the notebooks
\* there are: commands of all kinds on all paths; more changes of a notebook, one
\* after another; and one command while its driver falls silent.
CONSTANTS Pairs, Many   \* how many commands in the first and in the second
Still == \A c \in Client : ws.idle[c] = 0
AtHome == ws.rooms \subseteq Existing /\ \A k \in Submitted : task[k].kind # "Rename"

\* An output is stored before the execution is over.
Streams(k) == task[k].stage = "save" /\ task[k].saves = 1 /\ ~task[k].complete
Focus ==
  \/ /\ Cardinality(Submitted) <= Pairs /\ Still
     /\ Cardinality(Submitted) <= 1 \/ Kinds_({"Setup", "Rename"}) \/ Kinds_(AllKinds \ {"Setup"})
     /\ (\E k \in Submitted : Streams(k)) => Kinds_({"Query", "Modify", "Execute", "Interrupt"})
  \/ /\ Cardinality(Submitted) <= Many /\ Still /\ AtHome
     /\ Kinds_({"Query", "Modify"}) /\ Cardinality({k \in Command : InFlight(k)}) <= 1
  \/ Cardinality(Submitted) <= 1 /\ AtHome

MCNext == GatewayNext /\ InOrder' /\ Focus'
MCSpec == GatewayInit /\ [][MCNext]_allVars /\ \A k \in Command : WF_allVars(Work(k))
=============================================================================
