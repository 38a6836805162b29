------------------------------ MODULE ParkingLot ------------------------------
(***************************************************************************)
(* What parking promises: numbered slots that the calls of an account      *)
(* change one at a time, each call once: it is stored in a slot, or takes  *)
(* the place of a call it replaces wherever that is stored.  No document,  *)
(* no revisions, no retries.  ParkedCalls implements it.                   *)
(***************************************************************************)
CONSTANT Calls

VARIABLES slots, stored     \* what is in each slot; the calls that had their turn

lotVars == <<slots, stored>>

LotInit == slots = [s \in {} |-> s] /\ stored = {}

Park(s, c) ==
  /\ slots' = [x \in DOMAIN slots \cup {s} |-> IF x = s THEN c ELSE slots[x]]
  /\ stored' = stored \cup {c}

Replace(old, c) ==
  /\ slots' = [x \in DOMAIN slots |-> IF slots[x] = old THEN c ELSE slots[x]]
  /\ stored' = stored \cup {c}

\* Any slot may be taken: one in use is taken from the call that is in it.
LotNext == \E c \in Calls \ stored :
  (\E s \in DOMAIN slots' : Park(s, c)) \/ (\E old \in Calls : Replace(old, c))

LotSpec == LotInit /\ [][LotNext]_lotVars
=============================================================================
