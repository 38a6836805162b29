------------------------- MODULE MCTrunkAccounting -------------------------
(* The limits the run of TrunkAccounting uses. *)
EXTENDS TrunkAccounting

Two == [two_way |-> 2, inbound |-> 0]
Lowered == {Two, [two_way |-> 1, inbound |-> 1]}
=============================================================================
