------------------------------- MODULE FlowWalk -------------------------------
(***************************************************************************)
(* What the executor promises to the author of a call flow: a walk over    *)
(* the nodes.  The module of the node the call is at decides once; what it *)
(* decided, or tries, is applied to that node and to no other, and a       *)
(* module that fails is one that continues.  Nothing ends the walk but its *)
(* decisions, a missing call, or the transfer of the call to somebody      *)
(* else.  No processes, no mailbox, no timers.  CallFlow implements it.    *)
(***************************************************************************)
CONSTANTS Nodes, Keys, Wild, Child, Root, Branches, Undefined, Empty

VARIABLES
    ended,  \* "up", or the reason the walk ended for
    at,     \* the node the call is at
    hand    \* who is to move it: the node's module, or what it decided

walkVars == <<ended, at, hand>>

Hand(what, arg) == [what |-> what, arg |-> arg]
Start  == Hand("start", Undefined)      \* the module is not started yet
Module == Hand("module", Undefined)
Failed == Hand("failed", Undefined)
Over   == Hand("over", Undefined)

(* What a module decides ends it; it may also ask for a child and wait.     *)
Decisions ==
    {Hand("continue", key) : key \in Keys} \cup {Hand("branch", f) : f \in Branches}
        \cup {Hand("stop", Undefined), Hand("transfer", Undefined), Failed}
Attempts == {Hand("attempt", key) : key \in Keys}

WalkInit == ended = "up" /\ at = Root /\ hand = Start

Goto(node) == node \in Nodes /\ at' = node /\ hand' = Module /\ UNCHANGED ended
End(why)   == ended' = why /\ hand' = Over /\ UNCHANGED at
Pass(to)   == hand' = to /\ UNCHANGED <<ended, at>>

Decide == hand = Module /\ hand' \in Decisions \cup Attempts /\ UNCHANGED <<ended, at>>

(* It fails before it hears of the child.                                   *)
GiveUp == hand.what = "attempt" /\ Pass(Hand("given up", hand.arg))

Begin == hand = Start /\ Goto(at)

Continue ==
    /\ hand.what = "continue"
    /\ LET next == Child[at][hand.arg] IN
       \/ Goto(next)
       \/ next = Empty /\ End("normal")
       \/ next = Undefined /\ hand.arg # Wild /\ Pass(Hand("continue", Wild))
       \/ next = Undefined /\ hand.arg = Wild /\ End("normal")

Branch ==
    /\ hand.what = "branch"
    /\ Goto(hand.arg) \/ (hand.arg = Empty /\ End("badarg"))

Finish ==
    \/ hand.what = "stop" /\ End("normal")
    \/ hand.what = "transfer" /\ End("transfer")

Recover == hand = Failed /\ Pass(Hand("continue", Wild))

(* An attempt moves, or leaves the hand with the module that made it.      *)
Answer ==
    /\ hand.what \in {"attempt", "given up"}
    /\ LET next == Child[at][hand.arg] IN
       \/ Goto(next)
       \/ next \notin Nodes /\ hand.what = "attempt" /\ Pass(Module)
       \/ next \notin Nodes /\ hand.what = "given up" /\ Pass(Failed)

Leave == End("insane") \/ End("transfer")

WalkNext ==
    /\ ended = "up"
    /\ \/ Begin \/ Decide \/ GiveUp \/ Continue \/ Branch \/ Finish \/ Recover \/ Answer
       \/ Leave

WalkSpec == WalkInit /\ [][WalkNext]_walkVars
=============================================================================
