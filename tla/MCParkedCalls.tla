---------------------------- MODULE MCParkedCalls ----------------------------
(* Two switches, and the ways into the module, for the runs of ParkedCalls. *)
EXTENDS ParkedCalls

CONSTANTS c1, c2, c3

Three == {c1, c2, c3}
TwoSwitches == [c \in Three |-> IF c = c3 THEN "b" ELSE "a"]
AllActions == {"park", "retrieve", "auto", "attended"}
OnlyPark == {"park"}
=============================================================================
