--------------------------- MODULE DriverAuthority ---------------------------
(***************************************************************************)
(* What the workspace promises about its driver, independently of rooms,   *)
(* leases and requests: there is at most one, it is connected, a connected *)
(* driver is only replaced while no accepted work is pending, and nobody   *)
(* drives only because the driver released control or nobody is there.     *)
(***************************************************************************)
CONSTANTS Client, None

VARIABLES
  present,   \* connected clients
  driver,
  released,  \* control was given up explicitly and nobody claimed it yet
  busy       \* some room holds accepted work

vars == <<present, driver, released, busy>>

Init == present = {} /\ driver = None /\ released = FALSE /\ busy = FALSE

\* Clients come and go and work starts and ends.  A driver that stays keeps
\* control; if it is gone somebody takes over, unless control was released,
\* which is forgotten once every client that saw the release has gone.
Turnover ==
  \E kept \in SUBSET present, new \in SUBSET Client :
    /\ present' = kept \cup new
    /\ released' = (released /\ kept # {})
    /\ \/ released' /\ driver' = driver
       \/ ~released' /\ driver \in kept /\ driver' = driver
       \/ ~released' /\ driver \notin kept /\ present' # {} /\ driver' \in present'
       \/ ~released' /\ present' = {} /\ driver' = None
    /\ busy' \in BOOLEAN

\* Control moves by decision (hand-over, claim) only while nothing is pending.
Transfer ==
  /\ ~busy /\ ~busy'
  /\ present' \in SUBSET Client
  /\ driver' \in present'
  /\ released' = FALSE

Release ==
  /\ ~busy /\ ~busy'
  /\ present' \in SUBSET Client
  /\ present' # {}
  /\ driver' = None
  /\ released' = TRUE

Next == Turnover \/ Transfer \/ Release

Spec == Init /\ [][Next]_vars

-----------------------------------------------------------------------------
\* Nobody drives exactly when control was released or nobody is connected;
\* a driver is connected.
Held ==
  /\ driver \in present \cup {None}
  /\ driver = None <=> released \/ present = {}
  /\ released => present # {}
=============================================================================
