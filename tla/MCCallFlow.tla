---------------------------- MODULE MCCallFlow ----------------------------
(* A menu with one child, a wrong key, and an empty node under the child.  *)
EXTENDS CallFlow

MCNodes == {"menu", "ring"}
MCKeys == {"_", "1"}
MCChild == [n \in MCNodes |->
    IF n = "menu" THEN [k \in MCKeys |-> IF k = "1" THEN "ring" ELSE Undefined]
                  ELSE [k \in MCKeys |-> IF k = "_" THEN "empty" ELSE Undefined]]
MCBranches == {"menu", "empty"}
=============================================================================
