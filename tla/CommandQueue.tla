----------------------------- MODULE CommandQueue -----------------------------
(***************************************************************************)
(* What call control promises to the applications that publish dialplan    *)
(* commands (insert_at_options(), ecallmgr_call_control.erl:63-81): a      *)
(* queue that hands them to the switch one at a time, each at most once.   *)
(* What was pushed in front goes first, the youngest ahead; then what was  *)
(* appended, the oldest ahead; a flush drops whatever waits, and nothing   *)
(* else does.  A hangup does not, although the log then says "removing     *)
(* command ~s from control queue, not valid after hangup" (:566):          *)
(* post_hangup_commands chooses what is executed at once, and the handler  *)
(* (:333-347) leaves the queue as it was, the commands it chose included.  *)
(* No lists, no switch, no completions.  CallControl implements it.        *)
(***************************************************************************)
EXTENDS Naturals

CONSTANT MaxCmds        \* bound: commands published

VARIABLES
  open,                 \* whether the call is still controlled
  sent,                 \* commands published: their ids are 1..sent
  heads, tails,         \* those that wait, by where they were inserted
  handed                \* those handed to the switch

queueVars == <<open, sent, heads, tails, handed>>

QueueInit == open = TRUE /\ sent = 0 /\ heads = {} /\ tails = {} /\ handed = {}

\* Of the commands h in front and t behind, the one whose turn it is.
NextUp(c, h, t) ==
  \/ c \in h /\ \A d \in h : d <= c
  \/ h = {} /\ c \in t /\ \A d \in t : c <= d

Wait(h, t) == heads' = h /\ tails' = t /\ handed' = handed

Hand(h, t) == \E c \in h \cup t :
  /\ NextUp(c, h, t)
  /\ heads' = h \ {c} /\ tails' = t \ {c} /\ handed' = handed \cup {c}

\* A request is inserted as a whole, refused, or carried out without waiting.
Insertion(new) ==
  {<<heads, tails>>, <<heads \cup new, tails>>, <<heads, tails \cup new>>, <<{}, new>>}

Publish(n) ==
  /\ open /\ sent' = sent + n
  /\ \E q \in Insertion((sent + 1)..(sent + n)) : Wait(q[1], q[2]) \/ Hand(q[1], q[2])
  /\ UNCHANGED open

Proceed == open /\ Hand(heads, tails) /\ UNCHANGED <<open, sent>>

Close == open /\ open' = FALSE /\ UNCHANGED <<sent, heads, tails, handed>>

QueueNext == Proceed \/ Close \/ \E n \in 1..(MaxCmds - sent) : Publish(n)

QueueSpec == QueueInit /\ [][QueueNext]_queueVars
=============================================================================
