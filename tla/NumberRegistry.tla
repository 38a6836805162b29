---------------------------- MODULE NumberRegistry ----------------------------
(***************************************************************************)
(* What the number manager promises: a register of numbers in which each   *)
(* change of a number's state is atomic and keeps to the meaning of the    *)
(* states (wh_number_manager.hrl:15-26).  No documents, no revisions, no   *)
(* requests that overlap.  NumberManager implements it.                    *)
(***************************************************************************)
CONSTANTS Numbers, Accounts, NoOne,
          Stock   \* numbers the system admins may have made available

VARIABLES state, owner, reserved

regVars == <<state, owner, reserved>>

RegistryInit ==
  /\ \E stock \in SUBSET Stock :
       state = [n \in Numbers |-> IF n \in stock THEN "available" ELSE "none"]
  /\ owner = [n \in Numbers |-> NoOne]
  /\ reserved = [n \in Numbers |-> NoOne]

Discover(n) ==
  /\ state[n] = "none"
  /\ state' = [state EXCEPT ![n] = "discovery"]
  /\ UNCHANGED <<owner, reserved>>

Reserve(n, a) ==
  /\ state[n] = "none"
  /\ state' = [state EXCEPT ![n] = "reserved"]
  /\ reserved' = [reserved EXCEPT ![n] = a]
  /\ UNCHANGED owner

\* A reserved number can be claimed by its account only, one in service or
\* released by nobody.
Assign(n, a) ==
  /\ \/ state[n] \in {"discovery", "available"}
     \/ state[n] = "reserved" /\ reserved[n] = a
  /\ state' = [state EXCEPT ![n] = "in_service"]
  /\ owner' = [owner EXCEPT ![n] = a]
  /\ UNCHANGED reserved

Release(n) ==
  /\ state[n] = "in_service"
  /\ state' = [state EXCEPT ![n] = "released"]
  /\ owner' = [owner EXCEPT ![n] = NoOne]
  /\ UNCHANGED reserved

Reclaim(n) ==
  /\ state[n] = "released"
  /\ state' = [state EXCEPT ![n] = "available"]
  /\ UNCHANGED <<owner, reserved>>

RegistryNext ==
  \E n \in Numbers :
    \/ Discover(n) \/ Release(n) \/ Reclaim(n)
    \/ \E a \in Accounts : Reserve(n, a) \/ Assign(n, a)

RegistrySpec == RegistryInit /\ [][RegistryNext]_regVars
=============================================================================
