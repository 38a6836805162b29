---------------------------- MODULE WorkerLending ----------------------------
(***************************************************************************)
(* What the pool promises to those who make AMQP requests: it lends them   *)
(* workers.  A request is made once and gets one worker at most; a worker  *)
(* serves one request at a time, the one it was lent to, and is lent again *)
(* only after it came back from there.  Nothing is said of processes: one  *)
(* that gives a request up and makes another may have a worker for each.   *)
(* A worker that leaves is not lent any more: of those that wait the pool  *)
(* may dismiss any, a lent one leaves by its own failure or with the pool. *)
(* No mailboxes, no counts, no broker.  AmqpPool implements it.            *)
(***************************************************************************)
CONSTANTS Requests, Workers

VARIABLES
  silent,     \* requests that are not made
  waiting,    \* those that are, and have no worker yet
  hired,      \* the workers there have been
  idle,       \* those to be lent
  lent,       \* <<w, c>>: w was lent to c
  back        \* those that are done, and not idle yet

lendingVars == <<silent, waiting, hired, idle, lent, back>>

LendingInit ==
  /\ silent = Requests /\ waiting = {}
  /\ hired \subseteq Workers /\ idle = hired /\ lent = {} /\ back = {}

Make(c) ==
  /\ c \in silent /\ silent' = silent \ {c} /\ waiting' = waiting \cup {c}
  /\ UNCHANGED <<hired, idle, lent, back>>

\* To a worker that waits, or is hired for it.
Lend(w, c) ==
  /\ c \in waiting /\ waiting' = waiting \ {c}
  /\ w \in idle \/ w \notin hired
  /\ hired' = hired \cup {w} /\ idle' = idle \ {w} /\ lent' = lent \cup {<<w, c>>}
  /\ UNCHANGED <<silent, back>>

\* With an answer or without; it may also be lost on the way.
Return(w, c) ==
  /\ <<w, c>> \in lent /\ lent' = lent \ {<<w, c>>}
  /\ back' \in {back, back \cup {w}}
  /\ UNCHANGED <<silent, waiting, hired, idle>>

Readmit(w) ==
  /\ w \in back /\ back' = back \ {w} /\ idle' = idle \cup {w}
  /\ UNCHANGED <<silent, waiting, hired, lent>>

Hire(w) ==
  /\ w \notin hired /\ hired' = hired \cup {w} /\ idle' = idle \cup {w}
  /\ UNCHANGED <<silent, waiting, lent, back>>

Dismiss ==
  /\ idle' \subseteq idle
  /\ UNCHANGED <<silent, waiting, hired, lent, back>>

Fail(w) ==
  /\ idle' = idle \ {w} /\ back' = back \ {w} /\ lent' = {p \in lent : p[1] # w}
  /\ UNCHANGED <<silent, waiting, hired>>

\* The pool fails, with the requests that wait; another begins anew.
Restart ==
  /\ idle' \cap hired = {} /\ hired' = hired \cup idle'
  /\ waiting' = {} /\ lent' = {} /\ back' = {}
  /\ UNCHANGED silent

LendingNext ==
  \/ \E c \in Requests : Make(c)
  \/ \E w \in Workers : Readmit(w) \/ Hire(w) \/ Fail(w)
  \/ \E w \in Workers, c \in Requests : Lend(w, c) \/ Return(w, c)
  \/ Dismiss \/ Restart

LendingSpec == LendingInit /\ [][LendingNext]_lendingVars

\* What follows: a request has one worker at most and a worker one request, one that
\* is lent is neither to be lent nor on its way back, and a request that has a
\* worker, or waits for one, was made.
OneEach ==
  /\ \A p, q \in lent : p[1] = q[1] \/ p[2] = q[2] => p = q
  /\ \A p \in lent : /\ p[1] \in hired /\ p[1] \notin idle \cup back
                      /\ p[2] \notin silent \cup waiting
  /\ idle \cup back \subseteq hired /\ idle \cap back = {} /\ silent \cap waiting = {}
=============================================================================
