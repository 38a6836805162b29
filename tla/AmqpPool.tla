------------------------------- MODULE AmqpPool -------------------------------
(***************************************************************************)
(* The pool of AMQP requesters of ecallmgr (ecallmgr_amqp_pool.erl, its    *)
(* worker ecallmgr_amqp_pool_worker.erl, and their supervisor).            *)
(*                                                                         *)
(* A caller asks the pool with a gen_server:call; the pool hands the       *)
(* request to a free worker, or starts one; the worker publishes it with   *)
(* its own queue as the return address, replies to the caller itself and   *)
(* casts worker_free to the pool.  Callers time out and end, workers       *)
(* crash, and the pool stops the workers it has too many of: pool, workers *)
(* and callers learn of each other's end from messages alone.              *)
(*                                                                         *)
(* A pid of a worker is the number of its start, a request the number of   *)
(* its making.  The processes of ecallmgr_fs_route, ecallmgr_fs_auth and   *)
(* ecallmgr_authz make one request and end, but a call control asks for    *)
(* media (ecallmgr_media_registry) as often as its commands need it,       *)
(* catches the timeout, lives on and asks again while a worker is still    *)
(* busy with the request it gave up.  Messages between two processes keep  *)
(* their order.                                                            *)
(***************************************************************************)
EXTENDS Integers, Sequences, FiniteSets, SequencesExt

CONSTANTS
  Callers,         \* the processes that make requests
  Lasting,         \* those of them that need never end
  NoOne,           \* from = undefined
  OWC,             \* orig_worker_count (10 in the code)
  Reluctance,      \* the pool gives up one in Reluctance spare workers (10 in the code)
  PublishRaises,   \* whether the publish function of a request may raise
  MaxRequests,     \* bound: requests ever made
  MaxWorkers,      \* bound: workers ever started
  MaxCrashes       \* bound: workers that die of themselves

ASSUME PoolAssumption ==
  /\ NoOne \notin 1..MaxRequests /\ NoOne \notin Callers /\ Lasting \subseteq Callers
  /\ OWC \in Nat \ {0} /\ Reluctance \in Nat \ {0}
  /\ MaxRequests \in Nat /\ MaxWorkers \in Nat /\ MaxCrashes \in Nat /\ OWC <= MaxWorkers
  /\ PublishRaises \in BOOLEAN

Pids == 1..MaxWorkers
Requests == 1..MaxRequests

\* A sequence without the element x: SequencesExt's Remove, as a recursive
\* function.
Without(s, x) ==
  LET kept[i \in 0..Len(s)] ==
        IF i = 0 THEN <<>>
        ELSE IF s[i] = x THEN kept[i - 1] ELSE Append(kept[i - 1], s[i])
  IN  kept[Len(s)]

VARIABLES
  \* ecallmgr_amqp_pool
  workers,        \* queue of the pids of free workers
  worker_count, requests_per,
  measured,       \* elapsed_micro_per > 0
  mailbox,        \* of the pool
  linked,         \* the workers this pool process has started
  \* the workers
  started,        \* pids used so far
  alive,          \* children of ecallmgr_amqp_pool_worker_sup
  from,           \* the request a worker is busy with; NoOne when its status is free
  monitors,       \* the requests whose caller it monitors
  inbox,          \* messages to the worker
  responders,     \* active_responders, each by the request it carries the answer of
  deaf,           \* workers that have deleted their queue and were not stopped
  \* the callers, and the requests on the broker
  \* by request: who made it, how that call stands, whose answer it was given
  caller, cstate, got,
  asked,          \* <<w, c>>: the request of c, published by w and not answered
  crashes,        \* crashes so far
  dropped         \* history: workers whose publish function raised

poolVars   == <<workers, worker_count, requests_per, measured, mailbox, linked>>
workerVars == <<started, alive, from, monitors, inbox, responders, deaf>>
callerVars == <<caller, cstate, got>>
restVars   == <<asked, crashes, dropped>>
vars == <<poolVars, workerVars, callerVars, restVars>>

PoolMessages ==
  [kind : {"request"}, who : Requests] \cup [kind : {"exit"}, who : Pids]
    \cup [kind : {"worker_free"}, who : Pids, timed : BOOLEAN]
WorkerMessages ==
  [kind : {"employed", "response", "down"}, who : Requests] \cup [kind : {"stop"}]

Init ==
  /\ workers = [i \in 1..OWC |-> i]
  /\ worker_count = OWC /\ requests_per = 0 /\ measured = FALSE
  /\ mailbox = <<>> /\ linked = 1..OWC /\ started = OWC /\ alive = 1..OWC
  /\ from = [w \in Pids |-> NoOne] /\ monitors = [w \in Pids |-> {}]
  /\ inbox = [w \in Pids |-> <<>>] /\ responders = [w \in Pids |-> {}] /\ deaf = {}
  /\ caller = [c \in Requests |-> NoOne]
  /\ cstate = [c \in Requests |-> "new"] /\ got = [c \in Requests |-> NoOne]
  /\ asked = {} /\ crashes = 0 /\ dropped = {}

-----------------------------------------------------------------------------
(* The callers.                                                            *)

RequestsOf(p) == {c \in Requests : caller[c] = p}

\* A process that has not ended and waits for no answer asks.
Ask(c) ==
  /\ cstate[c] = "new" /\ \A d \in Requests : cstate[d] = "new" => c <= d
  /\ \E p \in Callers :
       /\ \A d \in RequestsOf(p) : cstate[d] \notin {"waiting", "gone"}
       /\ caller' = [caller EXCEPT ![c] = p]
  /\ cstate' = [cstate EXCEPT ![c] = "waiting"]
  /\ mailbox' = Append(mailbox, [kind |-> "request", who |-> c])
  /\ UNCHANGED <<workers, worker_count, requests_per, measured, linked,
                 workerVars, got, restVars>>

\* The timeout of gen_server:call.  The caller may catch it and live on
\* (ecallmgr_authz and ecallmgr_media_registry do).
TimesOut(c) ==
  /\ cstate[c] = "waiting"
  /\ cstate' = [cstate EXCEPT ![c] = "timedout"]
  /\ UNCHANGED <<poolVars, workerVars, caller, got, restVars>>

\* The caller ends, and the workers that monitor it for request c are told: the
\* 'DOWN' of each of its requests is a signal of its own.
Ends(c) ==
  /\ cstate[c] \in {"answered", "timedout"}
  /\ \A d \in RequestsOf(caller[c]) : cstate[d] # "waiting"
  /\ cstate' = [cstate EXCEPT ![c] = "gone"]
  /\ inbox' = [w \in Pids |-> IF c \in monitors[w]
                              THEN Append(inbox[w], [kind |-> "down", who |-> c])
                              ELSE inbox[w]]
  /\ monitors' = [w \in Pids |-> monitors[w] \ {c}]
  /\ UNCHANGED <<poolVars, started, alive, from, responders, deaf, caller, got, restVars>>

-----------------------------------------------------------------------------
(* The workers.                                                            *)

First(w) == Head(inbox[w])
Has(w, kind) == w \in alive /\ inbox[w] # <<>> /\ First(w).kind = kind
Received(w) == [inbox EXCEPT ![w] = Tail(@)]

\* What a worker sends to its parent is lost when that pool process has crashed.
ToPool(w, message) == IF w \in linked THEN Append(mailbox, message) ELSE mailbox

\* Mutant: the requestor is not monitored.
Unmonitored_Employed(w) ==
  /\ Has(w, "employed") /\ from[w] = NoOne
  /\ inbox' = Received(w)
  /\ from' = [from EXCEPT ![w] = First(w).who]
  /\ asked' = asked \cup {<<w, First(w).who>>}
  /\ UNCHANGED <<poolVars, started, alive, monitors, responders, deaf, callerVars,
                 crashes, dropped>>

\* {employed, ...}, status=free.  The monitor of a caller that has already
\* ended is a 'DOWN' at once.  When the publish function raises, the worker
\* stays free and tells nobody.
Employed(w) ==
  /\ Has(w, "employed") /\ from[w] = NoOne
  /\ LET c == First(w).who
         gone == cstate[c] = "gone" IN
     /\ inbox' = [inbox EXCEPT ![w] = IF gone
                                      THEN Append(Tail(@), [kind |-> "down", who |-> c])
                                      ELSE Tail(@)]
     /\ monitors' = [monitors EXCEPT ![w] = IF gone THEN @ ELSE @ \cup {c}]
     /\ \/ /\ from' = [from EXCEPT ![w] = c]
           /\ asked' = asked \cup {<<w, c>>}
           /\ UNCHANGED dropped
        \/ /\ PublishRaises
           /\ dropped' = dropped \cup {w}
           /\ UNCHANGED <<from, asked>>
  /\ UNCHANGED <<poolVars, started, alive, responders, deaf, callerVars, crashes>>

\* Mutant: the worker is free again only if somebody waits for the answer.
Heedless_Respond(w) ==
  /\ Has(w, "response") /\ from[w] # NoOne
  /\ LET c == from[w] IN
     IF cstate[c] = "waiting"
     THEN /\ cstate' = [cstate EXCEPT ![c] = "answered"]
          /\ got' = [got EXCEPT ![c] = First(w).who]
          /\ UNCHANGED caller
          /\ inbox' = [inbox EXCEPT ![w] = Without(Tail(@), [kind |-> "down", who |-> c])]
          /\ monitors' = [monitors EXCEPT ![w] = @ \ {c}]
          /\ from' = [from EXCEPT ![w] = NoOne]
          /\ mailbox' = ToPool(w, [kind |-> "worker_free", who |-> w, timed |-> TRUE])
     ELSE /\ inbox' = Received(w)
          /\ UNCHANGED <<callerVars, monitors, from, mailbox>>
  /\ UNCHANGED <<workers, worker_count, requests_per, measured, linked,
                 started, alive, responders, deaf, restVars>>

\* {response_recv, _}: whoever the worker is busy for is given the answer;
\* the monitor goes with its 'DOWN', if that has come.
Respond(w) ==
  /\ Has(w, "response") /\ from[w] # NoOne
  /\ LET c == from[w] IN
     /\ IF cstate[c] = "waiting"
        THEN /\ cstate' = [cstate EXCEPT ![c] = "answered"]
             /\ got' = [got EXCEPT ![c] = First(w).who]
             /\ UNCHANGED caller
        ELSE UNCHANGED callerVars
     /\ inbox' = [inbox EXCEPT ![w] = Without(Tail(@), [kind |-> "down", who |-> c])]
     /\ monitors' = [monitors EXCEPT ![w] = @ \ {c}]
  /\ from' = [from EXCEPT ![w] = NoOne]
  /\ mailbox' = ToPool(w, [kind |-> "worker_free", who |-> w, timed |-> TRUE])
  /\ UNCHANGED <<workers, worker_count, requests_per, measured, linked,
                 started, alive, responders, deaf, restVars>>

\* Mutant: the worker does not report that it has given up.
Silent_GiveUp(w) ==
  /\ Has(w, "down") /\ from[w] = First(w).who
  /\ from' = [from EXCEPT ![w] = NoOne]
  /\ inbox' = Received(w)
  /\ UNCHANGED <<poolVars, started, alive, monitors, responders, deaf, callerVars, restVars>>

\* {'DOWN', Ref, ..} of the caller the worker is busy for.
GiveUp(w) ==
  /\ Has(w, "down") /\ from[w] = First(w).who
  /\ from' = [from EXCEPT ![w] = NoOne]
  /\ inbox' = Received(w)
  /\ mailbox' = ToPool(w, [kind |-> "worker_free", who |-> w, timed |-> FALSE])
  /\ UNCHANGED <<workers, worker_count, requests_per, measured, linked,
                 started, alive, monitors, responders, deaf, callerVars, restVars>>

\* Mutant: a worker reports itself free when any caller it monitors ends.
Reporting_Unhandled(w) ==
  /\ \/ Has(w, "response") /\ from[w] = NoOne
     \/ Has(w, "down") /\ from[w] # First(w).who
  /\ inbox' = Received(w)
  /\ mailbox' = IF First(w).kind = "down"
                THEN ToPool(w, [kind |-> "worker_free", who |-> w, timed |-> FALSE])
                ELSE mailbox
  /\ UNCHANGED <<workers, worker_count, requests_per, measured, linked,
                 started, alive, from, monitors, responders, deaf, callerVars, restVars>>

\* A response while free, and the 'DOWN' of another reference: logged.
Unhandled(w) ==
  /\ \/ Has(w, "response") /\ from[w] = NoOne
     \/ Has(w, "down") /\ from[w] # First(w).who
  /\ inbox' = Received(w)
  /\ UNCHANGED <<poolVars, started, alive, from, monitors, responders, deaf,
                 callerVars, restVars>>

\* A worker is gone, with its messages, and its links send 'EXIT'.
Dies(w) ==
  /\ alive' = alive \ {w} /\ deaf' = deaf \ {w}
  /\ from' = [from EXCEPT ![w] = NoOne]
  /\ monitors' = [monitors EXCEPT ![w] = {}]
  /\ inbox' = [inbox EXCEPT ![w] = <<>>]
  /\ responders' = [responders EXCEPT ![w] = {}]
  /\ mailbox' = ToPool(w, [kind |-> "exit", who |-> w])
  /\ UNCHANGED <<workers, worker_count, requests_per, measured, linked, started, callerVars>>

\* gen_listener's stop: with a responder active the worker deletes its queue
\* and sends itself the message stop, which is no cast, so nothing handles it.
Stop(w) ==
  /\ Has(w, "stop")
  /\ \/ responders[w] = {} /\ Dies(w)
     \/ /\ responders[w] # {}
        /\ deaf' = deaf \cup {w}
        /\ inbox' = Received(w)
        /\ UNCHANGED <<poolVars, started, alive, from, monitors, responders, callerVars>>
  /\ UNCHANGED restVars

\* A worker fails, as when AMQP is lost while it declares its queue.
Crash(w) ==
  /\ w \in alive /\ crashes < MaxCrashes
  /\ crashes' = crashes + 1
  /\ Dies(w)
  /\ UNCHANGED <<asked, dropped>>

\* An application answers to the queue of the worker.  gen_listener starts a
\* responder, whose handler casts response_recv; the responder's 'EXIT' comes later.
Answer(w, c) ==
  /\ <<w, c>> \in asked /\ w \in alive \ deaf
  /\ asked' = asked \ {<<w, c>>}
  /\ inbox' = [inbox EXCEPT ![w] = Append(@, [kind |-> "response", who |-> c])]
  /\ responders' = [responders EXCEPT ![w] = @ \cup {c}]
  /\ UNCHANGED <<poolVars, started, alive, from, monitors, deaf, callerVars, crashes, dropped>>

ResponderEnds(w, c) ==
  /\ c \in responders[w]
  /\ responders' = [responders EXCEPT ![w] = @ \ {c}]
  /\ UNCHANGED <<poolVars, started, alive, from, monitors, inbox, deaf, callerVars, restVars>>

-----------------------------------------------------------------------------
(* The pool.                                                               *)

Gets(kind) == mailbox # <<>> /\ Head(mailbox).kind = kind
Cast(box, w, message) == [box EXCEPT ![w] = Append(@, message)]

\* supervisor:count_children: the supervisor may not have seen the end of a
\* worker whose 'EXIT' the pool has.
Counts(children) ==
  LET dying == {w \in Pids : [kind |-> "exit", who |-> w] \in ToSet(mailbox)} IN
  Cardinality(children)..(Cardinality(children) + Cardinality(dying))

StartWorker ==
  /\ started < MaxWorkers
  /\ started' = started + 1
  /\ alive' = alive \cup {started'}
  /\ linked' = linked \cup {started'}

\* {request, ..} with a free worker.  start_req first calls the worker for the
\* name of its queue.
HandOver ==
  /\ Gets("request") /\ workers # <<>> /\ Head(workers) \in alive
  /\ inbox' = Cast(inbox, Head(workers), [kind |-> "employed", who |-> Head(mailbox).who])
  /\ workers' = Tail(workers)
  /\ requests_per' = requests_per + 1
  /\ mailbox' = Tail(mailbox)
  /\ UNCHANGED <<worker_count, measured, linked, started, alive, from, monitors,
                 responders, deaf, callerVars, restVars>>

\* Mutant: the new worker is not counted.
Uncounted_HireFor ==
  /\ Gets("request") /\ workers = <<>>
  /\ StartWorker
  /\ inbox' = Cast(inbox, started', [kind |-> "employed", who |-> Head(mailbox).who])
  /\ requests_per' = requests_per + 1
  /\ mailbox' = Tail(mailbox)
  /\ UNCHANGED <<workers, worker_count, measured, from, monitors, responders, deaf,
                 callerVars, restVars>>

\* {request, ..} without one.
HireFor ==
  /\ Gets("request") /\ workers = <<>>
  /\ StartWorker
  /\ inbox' = Cast(inbox, started', [kind |-> "employed", who |-> Head(mailbox).who])
  /\ worker_count' = worker_count + 1
  /\ requests_per' = requests_per + 1
  /\ mailbox' = Tail(mailbox)
  /\ UNCHANGED <<workers, measured, from, monitors, responders, deaf, callerVars, restVars>>

\* {request, ..} when the next worker is dead: the call for its queue ends the
\* pool, and with it the calls of all its callers.  Its supervisor starts another,
\* whose init/1 stops every worker there is and starts its own.
PoolCrash ==
  /\ Gets("request") /\ workers # <<>> /\ Head(workers) \notin alive
  /\ started + OWC <= MaxWorkers
  /\ inbox' = [w \in Pids |-> IF w \in alive THEN Append(inbox[w], [kind |-> "stop"])
                                              ELSE inbox[w]]
  /\ started' = started + OWC
  /\ linked' = (started + 1)..started'
  /\ alive' = alive \cup linked'
  /\ workers' = [i \in 1..OWC |-> started + i]
  /\ worker_count' = OWC /\ requests_per' = 0 /\ measured' = FALSE /\ mailbox' = <<>>
  /\ cstate' = [c \in Requests |-> IF cstate[c] = "waiting" THEN "timedout" ELSE cstate[c]]
  /\ UNCHANGED <<from, monitors, responders, deaf, caller, got, restVars>>

WorkerFree ==
  /\ Gets("worker_free")
  /\ workers' = Append(workers, Head(mailbox).who)
  /\ measured' = (measured \/ Head(mailbox).timed)
  /\ mailbox' = Tail(mailbox)
  /\ UNCHANGED <<worker_count, requests_per, linked, workerVars, callerVars, restVars>>

\* Mutant: the dead worker is not taken out of the queue.
Kept_WorkerExit ==
  /\ Gets("exit")
  /\ worker_count' \in Counts(alive)
  /\ mailbox' = Tail(mailbox)
  /\ UNCHANGED <<workers, requests_per, measured, linked, workerVars, callerVars, restVars>>

\* {'EXIT', W, _}: when the count was short before this worker ended, another
\* is started.
WorkerExit ==
  /\ Gets("exit")
  /\ LET rest == Without(workers, Head(mailbox).who) IN
     \/ /\ worker_count < OWC
        /\ StartWorker
        /\ workers' = Append(rest, started')
     \/ /\ worker_count >= OWC
        /\ workers' = rest
        /\ UNCHANGED <<linked, started, alive>>
  /\ worker_count' \in Counts(alive')
  /\ mailbox' = Tail(mailbox)
  /\ UNCHANGED <<requests_per, measured, from, monitors, inbox, responders, deaf,
                 callerVars, restVars>>

Round(n) == (2 * n + Reluctance) \div (2 * Reluctance)   \* round(n / Reluctance)

\* reduce_workers: stops the workers in front, down to OWC free ones.
ReduceWorkers(reduce) ==
  LET spare == IF Len(workers) > OWC THEN Len(workers) - OWC ELSE 0
      n == IF reduce < spare THEN reduce ELSE spare
      stopped == {workers[i] : i \in 1..n} IN
  /\ inbox' = [w \in Pids |-> IF w \in stopped \cap alive
                              THEN Append(inbox[w], [kind |-> "stop"])
                              ELSE inbox[w]]
  /\ workers' = SubSeq(workers, n + 1, Len(workers))
  /\ worker_count' \in Counts(alive)

\* Mutant: the requests are counted on when nobody was given up.
Unreset_ReduceLaborForce ==
  /\ LET reduce == Round(worker_count - requests_per) IN
     IF reduce > 0 /\ worker_count > OWC
     THEN ReduceWorkers(reduce) /\ requests_per' = 0
     ELSE UNCHANGED <<inbox, workers, worker_count, requests_per>>
  /\ measured' = FALSE
  /\ UNCHANGED <<mailbox, linked, started, alive, from, monitors, responders, deaf,
                 callerVars, restVars>>

\* reduce_labor_force, every second: with requests and answers in the last one
\* the number to give up depends on the times measured, else on the requests.
ReduceLaborForce ==
  /\ LET timely == requests_per > 0 /\ measured
         suggested == IF timely THEN 0..Round(worker_count)
                                ELSE {Round(worker_count - requests_per)} IN
     \E reduce \in suggested :
       IF reduce > 0 /\ worker_count > OWC
       THEN ReduceWorkers(reduce)
       ELSE UNCHANGED <<inbox, workers, worker_count>>
  /\ requests_per' = 0 /\ measured' = FALSE
  /\ UNCHANGED <<mailbox, linked, started, alive, from, monitors, responders, deaf,
                 callerVars, restVars>>

-----------------------------------------------------------------------------
PoolStep == HandOver \/ HireFor \/ PoolCrash \/ WorkerFree \/ WorkerExit
WorkerStep(w) == Employed(w) \/ Respond(w) \/ GiveUp(w) \/ Unhandled(w) \/ Stop(w)

Next ==
  \/ \E c \in Requests : Ask(c) \/ TimesOut(c) \/ Ends(c)
  \/ \E w \in Pids : WorkerStep(w) \/ Crash(w)
  \/ \E w \in Pids, c \in Requests : Answer(w, c) \/ ResponderEnds(w, c)
  \/ PoolStep \/ ReduceLaborForce

Spec == Init /\ [][Next]_vars

(* The processes are scheduled, gen_server:call has its timeout, a caller that *)
(* is not of the lasting ones ends after its calls (authorize_loop has a       *)
(* timeout), who ends does so for all its requests, responders end, and the    *)
(* pool's timer is started anew each time.  No answer need ever come, and no   *)
(* request be made.  But for the timer every process takes finitely many of    *)
(* these steps, so it is enough that some process moves while one can.         *)
Ending(c) ==
  \/ caller[c] \notin Lasting
  \/ \E d \in RequestsOf(caller[c]) : cstate[d] = "gone"

Scheduled ==
  \/ PoolStep
  \/ \E w \in Pids : WorkerStep(w)
  \/ \E c \in Requests : TimesOut(c) \/ (Ending(c) /\ Ends(c))
  \/ \E w \in Pids, c \in Requests : ResponderEnds(w, c)

FairSpec == Spec /\ WF_vars(Scheduled) /\ WF_vars(ReduceLaborForce)

-----------------------------------------------------------------------------
\* The type invariant: every variable keeps its type, the queue and the
\* monitors among the workers started.
TypeOK ==
  /\ workers \in Seq(Pids) /\ worker_count \in Nat /\ requests_per \in Nat
  /\ measured \in BOOLEAN /\ mailbox \in Seq(PoolMessages) /\ linked \subseteq 1..started
  /\ started \in 0..MaxWorkers /\ alive \subseteq 1..started /\ deaf \subseteq alive
  /\ from \in [Pids -> Requests \cup {NoOne}] /\ monitors \in [Pids -> SUBSET Requests]
  /\ inbox \in [Pids -> Seq(WorkerMessages)] /\ responders \in [Pids -> SUBSET Requests]
  /\ caller \in [Requests -> Callers \cup {NoOne}]
  /\ cstate \in [Requests -> {"new", "waiting", "answered", "timedout", "gone"}]
  /\ got \in [Requests -> Requests \cup {NoOne}]
  /\ asked \subseteq Pids \X Requests /\ crashes \in 0..MaxCrashes /\ dropped \subseteq Pids

Count(s, set) == Cardinality({i \in DOMAIN s : s[i] \in set})
One(holds) == IF holds THEN 1 ELSE 0

\* Where a worker may be: free in the queue, on its way back, employed or told
\* to stop, busy, deaf, or dropped.
Freed(w) == [kind : {"worker_free"}, who : {w}, timed : BOOLEAN]
Jobs == [kind : {"employed"}, who : Requests] \cup [kind : {"stop"}]
Places(w) ==
  Count(workers, {w}) + Count(mailbox, Freed(w)) + Count(inbox[w], Jobs)
    + One(from[w] # NoOne) + One(w \in deaf) + One(w \in dropped)

\* Custody: a live worker of this pool is in one place, however crashes,
\* timeouts and reductions interleave: free in the queue, on its way back,
\* employed, busy, or told to stop (and deaf, if it did not).  So no worker is
\* employed twice or handed a second request, which would end it (the clause for
\* {employed, ..} takes a free one, worker.erl:115), and none is mislaid but by
\* a publish that raises.  The workers of an earlier pool are told to stop.
Custody ==
  \A w \in alive :
    IF w \in linked THEN Places(w) = 1
    ELSE w \in deaf \/ [kind |-> "stop"] \in ToSet(inbox[w])

\* What the lending is seen by: the requests and the pool's own workers, by what
\* the mailboxes and a worker's status say of them.
Own == linked \cap alive
ServedBy(w) ==
  {c \in Requests : from[w] = c \/ [kind |-> "employed", who |-> c] \in ToSet(inbox[w])}
Silent == {c \in Requests : cstate[c] = "new"}
Waiting == {c \in Requests : [kind |-> "request", who |-> c] \in ToSet(mailbox)}
Idle == Own \cap ToSet(workers)
Lent == {p \in Own \X Requests : p[2] \in ServedBy(p[1])}
Returning == {w \in Own : \E m \in ToSet(mailbox) : m.kind = "worker_free" /\ m.who = w}

Lending == INSTANCE WorkerLending WITH
  Workers <- Pids, silent <- Silent, waiting <- Waiting,
  hired <- 1..started, idle <- Idle, lent <- Lent, back <- Returning

\* The pool lends its workers as it promises: one request to a worker, one worker
\* to a request, and none is given to the next before it came back from the one
\* before, although the pool only hears of that by messages that cross.
ImplementsLending == Lending!LendingSpec

\* A dead worker is in the queue, or on its way into it, only until its 'EXIT',
\* which is behind them in the mailbox, is taken: the pool never fails on a
\* worker whose end it has been told of.
DeadOnesLeave ==
  \A w \in linked \ alive :
    LET exit == [kind |-> "exit", who |-> w]
        Back(i) == mailbox[i].kind = "worker_free" /\ mailbox[i].who = w IN
    /\ w \in ToSet(workers) => exit \in ToSet(mailbox)
    /\ \A i \in DOMAIN mailbox :
         Back(i) => \E j \in DOMAIN mailbox : j > i /\ mailbox[j] = exit

\* worker_count is a cached number, set from three places and from a supervisor
\* that knows other workers too.  It is never below the live workers of the
\* pool: else the test worker_count > orig_worker_count would keep spare workers.
CountCovers == Cardinality(linked \cap alive) <= worker_count

\* A busy worker will be told of the end of its caller: it monitors a caller that
\* has not ended, and has the 'DOWN' of one that has, also of a caller that ended
\* before the worker had its request, or that has asked again since
\* (worker.erl:115-124, 150-153).
EndIsHeard ==
  \A w \in Pids : from[w] # NoOne =>
    IF cstate[from[w]] = "gone"
    THEN [kind |-> "down", who |-> from[w]] \in ToSet(inbox[w])
    ELSE from[w] \in monitors[w]

\* A worker gets free of a request again: whoever made it, once an answer or the
\* end of the caller has reached the worker, also when the caller has long timed
\* out, asked again and got its answer from another worker; and, when the caller
\* is one that ends, though no answer ever come.  (For a caller that lives on, and
\* a request nobody answers, the worker is busy until the caller ends.)
Settled(w) ==
  \/ Ending(from[w])
  \/ \E m \in ToSet(inbox[w]) : m.kind = "response"
WorkersReturn ==
  \A c \in Requests :
    (\E w \in Pids : from[w] = c /\ Settled(w)) ~> (\A w \in Pids : from[w] # c)

\* When requests cease, the workers hired for a peak are let go.
PeakIsShed == <>[](Len(workers) <= OWC)

\* A caller is given the answer to its own request: the log of 'DOWN' says
\* "requestor (~w) down, giving up on task" (worker.erl:151), that of a late
\* response "WTF, I'm free, yet receiving a response?" (worker.erl:134).
AnswersOwn == \A c \in Requests : got[c] \in {NoOne, c}

=============================================================================
