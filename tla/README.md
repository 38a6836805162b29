# Models of the 2600hz platform

TLA+ specifications of the concurrent parts of this repository, the TLC
configurations that check them on small instances, and proofs of their main
invariants for TLAPS. `PROJECT.json` lists the components, the runs, the lines
each definition translates, the hazards and the findings.

Run a configuration with `tlc -config X.cfg M.tla` and a proof module with
`tlapm M.tla`.

## 1. The system

A FreeSWITCH node carries calls. **ecallmgr** turns its events and fetches into
AMQP messages ("whistle" messages) and the commands it gets by AMQP into commands
of the switch. The **whapps** (call flows, trunk accounting, routing, REST, ...)
sit on the other side of the AMQP broker and keep their documents in CouchDB.
See `src/README.md` and `src/doc/big_picture.txt`. Everything is Erlang: each
component is a process with a mailbox, and hears of the others' failures by
messages.

| Component | State | Operations | Interacts with | Hard behaviour | What makes it correct |
|---|---|---|---|---|---|
| Call control listener (`ecallmgr_call_control`) | queue of commands, current application, legs, controller, timers | insert, flush, execute, complete, force advance, follow transfers, end | switch (commands, events), call flow (requests, by AMQP) | completions without an id, events in any order, loss of the switch, timers that fire late | each command once, in order, one at a time; the queue moves on, but behind a command nobody hears of again; no timer ends it before the call, and it ends after it |
| Call commands (`ecallmgr_call_command`) | none | execute an application on the switch | call control, switch | exceptions, applications that never complete | an execution is heard of again, by a completion under a name that ends it or by an exception |
| Call event publisher (`ecallmgr_call_events`) | node state, retry counters | publish, reconnect, give up | switch, AMQP | loss of the node, `handlecall` that times out | ends with its call and only then |
| AMQP manager and host (`amqp_mgr`, `amqp_host`) | connection, host process, channel and consumer per listener | connect, reconnect, declare, consume, bind | broker, every listener | connection, channel, host and listener fail apart | one connection, a host while there is one, no listener forgotten |
| Listener behaviour (`gen_listener`) | queue, bindings, `is_consuming`, responders | wire up, rewire, handle messages, stop | AMQP host, callback module | notices and retry timers cross | always consumes, or is going to try |
| AMQP request pool (`ecallmgr_amqp_pool*`) | queue of free workers, counts; a worker's caller and monitor | request, answer, give up, hire, reduce, restart | callers, broker, supervisor | late answers, dead callers and workers, stale counts | no worker lost or used twice; each answer to its request; a peak is shed |
| Cache (`wh_cache`) | entries with expiry | store, fetch, peek, flush | many | expired entries before the flush | no stale entry is served |
| CouchDB access (`couch_mgr`) | connection, change handlers | open, save, ensure_saved | CouchDB | conflicts | an update is not lost |
| Number manager (`wh_number_manager`) | number documents, account definitions, their copies | find, reconcile, assign, set public fields, release, free all | CouchDB, carriers, crossbar | two requests at once, carrier calls of minutes between reading and saving, one save of several failing | a number changes hands atomically and is never taken from its account; the account lists it |
| Call flow executor (`cf_exe`) | flow, running module, call id, sanity timer | continue, branch, attempt, stop, transfer, follow a transfer, sanity check | modules, call control, switch | modules that die in the middle of a request, timers that were cancelled too late, a call that changes its id | the flow is in one hand, is steered from the node it is at, and ends with its call, which it hangs up |
| Parked calls (`cf_park`) | one document of slots per account | park, retrieve, replace the id after an attended transfer | modules of other calls, CouchDB, switch | reads and saves of several calls between each other, retries after conflicts, status answers that come late | no change of a slot is lost or made twice; every module ends |
| Trunk accounting (`j5_acctmgr`, `j5_call_monitor`) | trunks available and in use, prepay, monitors, ledger | authorize, win, end, settle, edit, restart | ecallmgr (authz), CouchDB | retries, monitors that die, limits that change under calls, a manager that comes back empty | trunks in use and available add up; a limit is kept; each call charged once |
| Conference, stepswitch, trunkstore, media manager, registrar, ... | little of their own | request handlers | | waits for answers | |
| Crossbar | documents | REST handlers | CouchDB | | |

`PROJECT.json` gives every component its files, its status and why it is or is
not modelled. Vendored libraries (`amqp_client`, `couchbeam`, `webmachine`, ...)
are outside; where the code depends on one it is an *external* action.

## 2. The modules

### CallControl, CallCommand, CommandQueue, MCCallControl

`CallControl` is one listener, the switch it commands and the messages between
them. Its variables carry the names of the fields of `#state{}`; each clause of
`handle_cast` and `handle_info` that changes the state is one action, with the
advance of the queue it ends in. An event delivered by AMQP is handled by a process of
its own that casts to the listener, so events on their way are sets, taken in
any order. Timers are split into firing and handling, since
`erlang:cancel_timer` does not reach an expiration already in the mailbox. The
switch executes commands concurrently, may lose channels and its connection, and
its completions may get lost. What the listener publishes (legs, call ids,
transfers) it publishes from processes it spawns, in no order; nothing in it depends
on them, and they are not followed. The sanity check stops the listener on any answer
but "true": of a switch that is away, of a call that is gone, and, where
`SlowSwitch` is set, of a call that is up on a switch that answers late.

| State | Code |
|---|---|
| `proc` | the process, and why it stopped |
| `command_q`, `current_app`, `is_node_up`, `callid`, `controller_q`, `other_legs`, `last_removed_leg`, `keep_alive_ref` | the fields of `#state{}` |
| `ka_running`, `expired` | a running keep-alive timer; expirations in the mailbox |
| `completes`, `advances`, `destroys` | casts and messages on their way |
| `fs_up`, `live`, `running` | the switch: connected, its channels, the commands it executes |
| `sent`, `started`, `outage`, `was_call`, `transferred` | history, read by properties only |

`CallCommand` holds what an application comes to for the process that asked for
it: completions cast at once, completions the switch will send, an exception. The
arguments of the switch command are left out. Some applications have an outcome no
completion of which has a name that ends them (`MayStall`): a `store` whose file is
missing, a `call_pickup`, a `fetch`, a `hold`, a `hangup`; the queue then waits
behind them. `MCCallControl` has the sets of applications the runs use: one that always
completes (`noop`), one that also sets variables and raises (`play`), and two that
may stall, one of which may run after the hangup (`store`) and one of which may raise
before it completes (`call_pickup`).

`CommandQueue` is what the listener promises to whoever publishes commands: they
wait in front or behind, by where they were inserted; the one whose turn it is (the
youngest in front, else the oldest behind) is handed to the switch; a request that
flushes drops what waits, and nothing else does (the log at
`ecallmgr_call_control.erl:566` has a hangup remove commands; the code removes none,
see section 6). `CallControl` implements it with
`open` for a listener that runs, `heads` and `tails` the ids in `command_q`, and
`handed` those in `started` (`ImplementsQueue`).

### AmqpConnection

The manager, the hosts it starts (one per connection), the dictionary entry of
one listener in each, the listener itself and the broker. `Links` numbers
connections and hosts. Notices (`'DOWN'`) are late and taken in any order;
messages to the listener are a FIFO mailbox; a one-second timer fires after the
messages of the process spawned at the same time have arrived. `declare`,
`consume` and `bind` are separate steps of the listener, since the connection
may fail between two of them. A host serves every listener of the node, and a request
of any of them can take it down (a call on a dead channel, a queue the broker refuses
as exclusive): `HostCrashes` is the crash by another listener, at any time, and a
request of this one in the host's mailbox is then not answered (`Unheard`); a
binding asked for so is forgotten.

### AmqpPool, WorkerLending

The pool with its FIFO mailbox, its workers with theirs, the supervisor's set of
children, and the processes that call it. A process makes one request at a time
but as many as it likes: it catches the timeout of `gen_server:call`, lives on and may ask
again while a worker is still busy with the request it gave up, as call control does through
`ecallmgr_media_registry`. `Lasting` are the processes that need never end. A pid of a
worker is the number of its start, a request (`Requests`) the number of its making, and
`caller` the process that made it; `linked`
are the workers this pool process started, so that after a crash of the pool
those of the one before are told apart. `from` is the request a worker is busy with (its
status is free when it is `NoOne`), `deaf` the workers that have deleted their
queue and were not stopped, `dropped` (history) those whose publish function
raised. The times the pool measures are cut down to whether there was one, and
the number of workers to give up that depends on them is any it could compute.

`WorkerLending` is the pool as those who ask it see it: it lends each request one
worker, and a worker is lent again only after it came back. It speaks of requests and
not of processes: one that gave a request up and asks again may have a worker for
each. `AmqpPool` implements it
with the workers that are alive and were started by this pool, by what is said of
them: a request waits while it is in the mailbox, a worker is lent to the
request it is busy with or has an `employed` message of, it is on its way back
while its `worker_free` is in the mailbox, and it is idle in the queue
(`ImplementsLending`).

### NumberManager, NumberRegistry

`NumberManager` is the requests crossbar makes, each a process of its own, over
CouchDB documents with revisions. A request reads a document, decides, perhaps
asks the carrier, and saves what it read; a save with an old revision is refused,
and what follows a refusal (start over, drop it, save all the same) is the
clause of each call. Every call to the database or a carrier is one step, so that
any other request runs in between; any of them may fail and a request may die
(`Fault`). A number starts available, when the administrators made it so (`Stock`), or
without a document, to be discovered or reserved by a request. The copy of an
account's definition has a revision of its own, and the loop that saves it
(`couch_mgr:ensure_saved`: save, on a conflict fetch the revision and save again)
is the steps `FetchRev` and `Aggregate`, with a step back to the first on every
conflict.

| State | Code |
|---|---|
| `docs` | number documents: revision, `pvt_number_state`, `pvt_assigned_to`, `pvt_reserved_for`, `pvt_module_name` |
| `defs`, `accounts` | revision and `pvt_wnm_numbers` of the definition in an account's database, and of its copy |
| `ordered` | numbers bought from their carrier |
| `pc`, `local` | where a request is, and the variables of its function |
| `faults`, `unsaved`, `disturbed` | history |

`NumberRegistry` is what all this promises: a register of numbers in which a
number is discovered, reserved, assigned, released and reclaimed in one step,
and only as the meaning of its state allows. `NumberManager` implements it with
`state`, `owner` and `reserved` read off the documents
(`ImplementsRegistry`).

### TrunkAccounting, MCTrunkAccounting

One account's manager, the monitors of its calls, the administrator who edits the
limits, and the ledger of one call. `two_way`, `inbound` and `trunks_in_use` are
the fields of `#state{}`; `up` whether the manager runs (a restart loads the
limits and knows no monitors); `mon` the monitors, dead ones while their `'DOWN'`
is in the manager's mailbox; `confs` and `cdrs` the messages on their way, as sets.
`AuthzTwoWay`, `AuthzInbound` and `AuthzPrepay` are the clauses an authorization
goes through in one of the `Orders` the code tries them in. `base`, `clamped`,
`lost` and `charged` are history: the limits the count began with and the two
behaviours of the code after which the count is off.

### CallFlow, FlowWalk, MCCallFlow

One executor with its FIFO mailbox, the module processes it has started, its
timers and bindings, and the call it serves. Each clause of `handle_cast`,
`handle_call` and `handle_info` that changes the state is an action. A module decides
anything, or nothing, at any time; it may fail or time out, also in
the middle of an attempt, with the attempt left in the mailbox. Messages that
arrive by AMQP (`updates`, `asked`) are sets. `strays` are timers that run besides
the one the state knows, `missed` (history) an update of the call id that was
published before the executor was bound to the id it replaces. The flow is a
constant, a graph `Child` of nodes and keys.

`FlowWalk` is what the author of a flow is promised: a walk over the nodes, on
which the module of a node decides once, what it decides or tries is applied to that
node, and a module that fails is one that continues. `CallFlow` implements it
with `Handed`: the flow is in the hand of its module, of a module that asked for a
child and waits, or of the message in the mailbox that is to move it
(`ImplementsWalk`).

### ParkedCalls, ParkingLot, MCParkedCalls

The modules of the calls of one account, each between a read of the document
`parked_calls` and its save. `doc` is the document with its revision; `pc`,
`dialled` and `local` are where each module is, how its call reached it, and its
variables: the copy of the document it opened, the slot number it took, and the
switch of its own call. A save of an old revision is refused (`SaveOr`), and the
module opens the document again (`OpenAgain`) with the number it had. A call runs
its module once and keeps its id. `ParkingLot` is what the slots promise: they
change one call at a time, each call has one turn, and a turn stores the call in a
slot or puts it in the place of one it replaces. `ParkedCalls` implements it with
the slots of the document and the calls that saved.

### Proof modules

`CallControlProofs` (types and the queue), `CallControlExecutionProofs`
(executions and legs), `AmqpConnectionProofs`, `AmqpPoolProofs`, `NumberManagerProofs`, `TrunkAccountingProofs`, `CallFlowProofs`,
`ParkedCallsProofs`.

## 3. What is checked

| Run | Bounds | Shows |
|---|---|---|
| `cc_queue` | 3 commands, lists of 2, one call, outages | `ExactlyOnce`, `TailOrder`, `WorkConserving` and the refinement `ImplementsQueue` for every mixture of insertions, completions, exceptions, hangups and losses of the switch |
| `cc_drains` | 3 commands, `noop` and `call_pickup`, a connected switch that may answer late | `OneAtATime`, and, under fairness, `QueueDrains` and `LingersThenStops` |
| `cc_legs` | 2 channels, 1 command, outages and late answers | `StopOnlyWhenGone` across commands, bridges, unbridges and transfers, also those of an earlier call id |
| `amqp_recovers` | 2 failures of connections or channels, crashes of hosts by other listeners | `OneConnection`, `KeepsTrying`, `BindingsFollow`, and, under fairness, `MgrRecovers` |
| `pool_custody` | 2 processes, one of which need never end, 2 requests of any of them, original size 1, 1 crash, 4 workers | `Custody`, `DeadOnesLeave`, `CountCovers`, `EndIsHeard`, the refinement `ImplementsLending`, and, under fairness, `WorkersReturn` and `PeakIsShed` |
| `numbers_registry` | 1 number, available or without a document, 2 accounts, 3 requests, 2 at once, 2 faults | `DiscoveryNotPurchased`, `ListsAgree`, the refinement `ImplementsRegistry`, and, under fairness, `Finishes`, for any three requests of crossbar, at most two running at once, in any interleaving of their database and carrier calls |
| `trunks` | 2 calls, 2 monitors at a time, limits of 2 two-way trunks edited to 1 and 1 inbound | `TypeOK`, `TrunksAddUp`, `EntriesAnswered`, `NeverOvercharged`, `NeverAboveTwoWay`, and, under fairness, `EndedCallsLeave`, with authorizations that are repeated and managers and monitors that end at any time |
| `callflow` | 2 nodes, 2 keys, 2 modules, 2 transfers, 1 status request of a module, 1 stray timer, 1 message by AMQP | `OneDecider`, `DecidedHere`, `NoOrphans`, `FollowsItsCall`, `HangsUpItsCall`, `CheckIsComing`, the refinement `ImplementsWalk`, and, under fairness, `GoneCallEnds` |
| `parks` | 3 calls, 2 switches, automatic numbers from 2, dialled numbers 0 and 2 | the refinement `ImplementsLot`, and, under fairness, `ModulesEnd`, for calls that park, retrieve, do either or complete an attended transfer |
| `cc_keepalive`, `pool_answers`, `parks_automatic` | as small as the case allows | each a disagreement between the code and what it says, see section 6 |

Every property of a passing run has a mutant: a definition changed as a plausible
mistake in the code would change it, with which TLC finds the property violated.
They stand in the modules, before the definition they replace.

**Bounds.** Three commands are two that queue up and a third that arrives while
the first is done with, also as a list of two and a single one; the queue treats
its middle elements alike. One call is enough for the queue (commands carry
their call, and only a transfer changes it); transfers need two, the call and the
one it is transferred to. Two failures of AMQP are one whose recovery the
other interrupts. In the pool two requests are one whose answer is left
behind and one that gets it, of two processes or of one that asks again, or a peak above the original size of one; `Reluctance = 2`
keeps the ratio of the code, where a tenth is given up of more than ten
(`2 * (OWC + 1) >= Reluctance` is what `PeakIsShed` needs: 22 and 10 in the
code). `MaxWorkers = 4` is never the reason that a worker is not started. Numbers
do not touch but in an account's list, where a request for another number is one
more request of the account; three requests, of which two run at once (`MaxRunning`),
are two that conflict and a third that works with what they left behind, or that takes
the place of the first to end while the other still runs; two faults leave both of those
that overlap half done. What three do that run all at once is left to the theorems, which
hold for every bound. Two
calls and limits of 2 and 1 are a limit that is reached, lowered below the calls
in progress, and kept; two pids are a second monitor of one call, or one of each, and a
pid is used again, so that monitors follow each other without end; `MaxEdits = 1` still gives a
change that arrives after calls were taken on either limit. A flow of two nodes has a key
that leads on, one that does not, and an empty node; decisions that branch back make
it go on for ever. Two transfers are one that comes before the first is
followed. `MaxMail` bounds only what arrives by AMQP, never what a module or
the executor sends: with 1, a message by AMQP finds the mailbox empty, while those
of the modules and of the executor queue up behind it and before the next. One that
comes behind others is handled when they are done with, like one that
comes later; what the order of an update behind another could
change is left to the theorems, which hold for every `MaxMail`.
Three calls are one that saves, one whose save
conflicts, and one that conflicts with the second attempt. `First = 2` stands for
100; a dialled 2 is the number given automatically, a dialled 0 one so small
that none can be given.
`CHECK_DEADLOCK FALSE` is set everywhere because the modelled processes end or
come to rest: the call is over, the callers are done, the failures are used up.

**Fairness.** `CallControl!FairSpec`: the listener handles what is in its mailbox, timers
fire, a connected switch finishes what it runs and comes back after an outage.
Nothing is assumed of the applications, of hangups or of transfers, and a sanity check
need fail only when the switch is away or the call is gone.
`AmqpConnection!FairSpec`: manager, hosts and listener handle their messages,
timers fire, a broker that is down comes up again; no failure is forced.
`AmqpPool!FairSpec`: processes are scheduled, `gen_server:call` has its timeout,
callers that are not `Lasting` end after their call (`authorize_loop` has a timeout of its own),
workers are told of the end of a caller that ended, responders end and the pool's timer runs.
No answer need ever come, and a `Lasting` caller need never end: `WorkersReturn` then says
that a worker gets free once the answer has reached it.
`NumberManager!FairSpec`: some request that was started takes its next step; calls to the
database return. That `ensure_saved` ends is not assumed: a save that is refused was
overtaken by another. `TrunkAccounting!FairSpec`: monitors handle their CDR and their
`check_ledger` timer, the manager handles `'DOWN'`; that a call ends, or that
its CDR arrives, is not assumed. `CallFlow!FairSpec`: the executor handles its mailbox and the
sanity timer fires; no module need decide and no answer come.
`ParkedCalls!FairSpec`: a module that was started is run; that it fails is not
assumed, and each call saves once, so a module conflicts as often as there are
other calls at most.

**Limits of single properties.** `OneAtATime` and the liveness of the queue are
stated for applications whose completions can be told apart by name
(`NamesTellApart`): `exec_complete` is matched by application name only, so an
immediate command's completion can start the next queued one early.
`MgrRecovers` admits two ends in which the manager has a live connection and no
host that serves: a host that crashed on a live connection, which nothing
replaces, and one that got a message before the timeout of 0 its start relies
on. `BindingsFollow` admits a host that crashed: the listener then has the notice coming on
which it gives the queue up. `StopOnlyWhenGone` is about the keep-alive timer, and excepts
a call that took another id by a transfer, as the end of the channel it had before starts
the timer; the sanity check does stop the listener of a call that is up, when the switch
is away or answers late. `QueueDrains` excepts what waits behind a command nobody hears of
again, which the code leaves waiting, and a call that took another id.
`Custody` admits a worker whose publish function raised, and one that was told to
stop with a responder active: the code loses both.
`ListsAgree` excepts accounts whose own requests overlapped or failed: the code
logs a conflict on the definition and goes on. `DiscoveryNotPurchased` excepts a
request that fails between the purchase and the save. `TrunksAddUp` and
`NeverAboveTwoWay` except what follows an attempt on a negative count (`clamped`),
`TrunksAddUp` also what follows a second authorization of a call that
holds a trunk (`lost`); both end with the next recount. `NeverAboveTwoWay` counts the calls the
present manager knows: those a manager that ended had authorized come on top.
`NeverOvercharged` is an upper bound: when the transaction of a monitor that charges nothing
is written first, the call is charged too little. `EndedCallsLeave` is about the monitors
a CDR reaches. `FollowsItsCall` and
`HangsUpItsCall` except what follows an update nobody heard (`missed`).
`CallFlow` has an answer of the switch only about a call it knows; a call
the switch has lost but still answers for is not modelled. No text of the
repository contradicts these behaviours, so they are exceptions and hazards, not
findings.

## 4. What is proved

For every value of the constants, from the `ASSUME`s of the modules alone:

* **Types.** `CallControlProofs!TypeCorrect`, and `TypesHold` in the other proof
  modules. `TypeOK` is inductive, but in `AmqpConnectionProofs`: there it contains the
  bound on the connections made, and so needs `last <= failures + live connections`
  from the invariant below. Only the types of
  `TrunkAccounting`, which say what the entries of `trunks_in_use` are, are also in a
  run: of the others a theorem states all there is to say.
* **The queue.** `CallControlProofs!HandsOutOnce`, `KeepsTailOrder`,
  `ConservesWork`. `ExactlyOnce` and `TailOrder` are not inductive on their own:
  nothing in them says that the next command published is new. The invariant
  looks at the concatenation `started \o command_q` as one sequence, whose ids
  are at most `sent`, without repetition, and ascending among tail commands; each
  action appends to it, cuts its end off (a flush) or moves the border, and an
  insertion at the head lands on the border. `QueueIsAsPromised` is the refinement
  of `CommandQueue`: it adds that `command_q` is head commands, the youngest first,
  followed by tail commands, the oldest first, so that the head of the list is
  the command whose turn it is, and each step of the listener, with the insertion
  and the advance it ends in, is one step of the queue or none.
* **Executions and the end of the listener.** `CallControlExecutionProofs!RunsOneAtATime` and
  `StaysWithItsCall`. The invariant of the first: of a queued command there is at
  most one thing on its way, its execution, its completion or the forced advance of its
  exception; while there is one an application is current, so nothing else is
  taken; and no completion of another origin has a name a queued application
  completes under. That of the second, which is about the keep-alive timer alone: a
  destroyed channel was one the call had, so until the call takes another id that
  timer, old expirations of it included, runs only after the call.
* **Connections.** `AmqpConnectionProofs!AtMostOneConnection`: the inductive
  invariant ties the live connection to `conn_ref` and the number of connections
  made to the failures there were, so that a reconnection never finds one alive. `TriesAgain`: every step that leaves the
  listener without a queue starts a timer or leaves one running. `QueuesAreBound`:
  while a queue is consumed from, the channel is one of the newest connection, and either
  (`Tended`) its host runs and is the one the manager knows of, so that a binding asked
  for is not refused, and the queue has its bindings, or a process that asks for them, or
  the message that starts one; or (`Lapsed`) the host has crashed, whoever's request it
  was, and its notice is in the listener's mailbox. A request that finds the host
  gone is possible in the second case only, and nothing but that notice ends it.
* **The pool.** `AmqpPoolProofs!LiveAreInCustody`,
  `DeadAreRemoved`, `WorkersAreCounted`. `Custody` says that the occurrences of a
  live worker in the queue and in the mailboxes, and its own states, sum to one;
  each step takes one from a place and puts it in another, and the lemmas count
  occurrences in an appended, a shortened and a filtered sequence. It needs the
  invariant `Known`: the queue and the mailbox speak only of workers this pool
  started, an `'EXIT'` only of a dead one, and a worker that is not alive has no
  state and no messages; so a worker just started is nowhere else. That a dead
  worker leaves rests on the order of its messages: nothing of it comes after its
  `'EXIT'`. `PoolLendsItsWorkers` is the refinement of `WorkerLending`: custody
  makes the request of a worker unique (busy, or with one job in its mailbox, and
  then not in the queue), so that what ends its work ends one loan; and a request is in
  the mailbox once (`AsksOnce`), so that the one the pool takes is not left behind in the
  mailbox. `OneWorkerToARequest` is proved of `WorkerLending` alone and carried over: a
  request never has two workers, nor a worker two requests, although the process that
  made it may have asked again. `BusyHearOfTheEnd` is a
  safety part of `WorkersReturn`: a busy worker monitors a caller that has not ended and
  has the `'DOWN'` of one that has, also when the end came before the employment or after
  another request; no other message it takes is that one.
* **Numbers.** `NumberManagerProofs!TypesHold`, `PurchasedIsRecorded`,
  `ListsStayInAgreement` and `DocumentsAreARegister`, the refinement. The argument is that of optimistic
  concurrency: a request holds a copy, the copy's revision is at most the
  document's, and when they are equal the copy *is* the document up to the
  changes the request is going to save. So a save that is not refused takes the
  document from the state the request looked at to the one it decided on, and
  that is one step of the register; a refused one is a stutter. Only the
  request that is about to save can leave a purchase unrecorded, and its save
  fails only if another one moved the document out of the state `discovery`.
  For the lists: of an account that is not `disturbed` at most one request runs,
  and its place says how far the list and its copy are behind the documents
  (`Listing`), also while the save of the copy is refused and tried again; a save of another
  account's request takes no number from it.
* **Trunks.** `TrunkAccountingProofs!TypesHold`, `AllAreAnswered`,
  `TrunksAreCounted`, `LimitIsKept`, `ChargedOnce`. Entries point to watched monitors of their own
  call, so two entries never share a monitor, and the `'DOWN'` of one changes the
  cardinality of the trunks held by one; the recount after an edit counts those alive,
  whose dead neighbours leave the table with it. A CDR on its way is about a call
  that has ended, and what was charged is bounded by the two transactions in the ledger.
* **Call flows.** `CallFlowProofs!OneHandMovesIt`,
  `DecisionsAreFresh`, `LeavesNoModule`, `IdIsFollowed`, `CallIsHungUp`.
  `OneDecider` is not inductive: a module that failed in an attempt has two
  messages in the mailbox, and whether its `'EXIT'` moves the flow depends on
  how the attempt before it ends. The invariant `InHand` therefore says whose hand the
  flow is in (the start's, the running module's, a decision's, or that of a
  failed module with its attempt before its `'EXIT'`) and where in the mailbox
  the one message stands. `News` does the same for the id of the call:
  settled, published, in the mailbox, or between the two halves of the change of
  bindings. `FlowIsAWalk` is the refinement of `FlowWalk`: `InHand` makes the
  message that moves the flow unique, so that it says whose hand the flow is in, and
  every other message leaves it there. `ChecksGoOn` is the safety part of
  `GoneCallEnds`: whatever stray checks and late answers come, the executor's timer
  runs or a check is in its mailbox.
* **Parked calls.** `ParkedCallsProofs!TypesHold` and `SlotsAreALot`, the
  refinement. A copy's revision is at most the document's, and at the steps at
  which a module has a copy, one of the present revision *is* the document. So a
  save that is not refused changes what is there and not what was read; it gives
  the call, which had no turn yet, its turn, and every other step is a stutter.

TLAPS does not reach liveness under fairness (`QueueDrains`, `LingersThenStops`,
`MgrRecovers`, `WorkersReturn`, `PeakIsShed`, `Finishes`, `EndedCallsLeave`,
`GoneCallEnds`, `ModulesEnd`), which are checked by TLC only. Its
induction theorems, which take an operator as a parameter, are out of reach too;
the one induction needed, over `Without`, the filter of the pool's queue, goes by
the least counterexample instead.

## 5. Plan

Done: CallControl with CallCommand and CommandQueue, AmqpConnection, AmqpPool with
WorkerLending, NumberManager with NumberRegistry, TrunkAccounting, CallFlow with
FlowWalk, ParkedCalls with ParkingLot; every safety property the runs check is
proved. To prove next: abstract specifications of TrunkAccounting (trunks that
calls take and give back) and of AmqpConnection (a listener that is served or
about to be), with the refinements. To model, in this order:

1. **CallFlow with CallControl**: `CallFlow` has of call control what it hears from
   it (call ids, status), `CallControl` of a flow the commands it may get. Their
   product says that a flow that stops hangs up what the listener still
   controls; it needs a smaller abstraction of either to stay within reach of TLC.
2. **CallEvents**: the publisher's node checks and its life beside the call
   control listener.
3. **Conference handoff**: the discoveries of the callers of one conference, the
   supervisors of their nodes and the services these start. No caller is to be added
   twice and no conference split, with services that end under requests; then
   the participants of a service, which a bridge from another switch stores under one
   id and names by another.
4. **Cache** expiry, and the listener's `add_binding` after a reconnection.

## 6. Findings

* `cc_keepalive`: the keep-alive flushes the mailbox when it need not and does
  not when it must, so that an old expiration stops the listener.
* `pool_answers`: the late answer to a request that was given up goes to the
  next caller of the same worker.
* `parks_automatic`: two calls parked at once without a number are stored in the
  same slot, since the attempt after a conflict keeps the number.

`PROJECT.json` quotes the lines of the code, and the comments or logs they
disagree with.

Met while modelling, and without a run: most are of a kind no text of the
repository decides, and the rest are in the way of a property, which excepts them
(paths under `src/ecallmgr/src/` unless given):

* `ecallmgr_call_control.erl:754`: the hangup that ends a caller's attended
  transfer yields the atom `trasferer`, for which no clause is written.
* `ecallmgr_call_control.erl:263`: a transferer event that overtakes the bridge
  it follows finds no legs and is dropped.
* `ecallmgr_call_control.erl:291`: commands queued before a transfer keep the
  old Call-ID, are refused by `exec_cmd`, and are completed by nothing.
* `ecallmgr_call_control.erl:333`: a `CHANNEL_DESTROY` of the call id before a
  transfer starts the keep-alive of a call that is up.
* `ecallmgr_call_control.erl:335`: post-hangup commands are executed but stay in
  the queue, and a late completion runs them again.
* `ecallmgr_call_control.erl:367`: completions are matched by application name.
* `ecallmgr_call_control.erl:440-447`: a sanity check while the switch is away, or when
  its answer takes longer than `freeswitch:api` waits, stops the listener of a call that
  is up. The log then says that it executes post-hangup events; none is executed.
* `ecallmgr_call_control.erl:566`: at a hangup the log says of commands that they are removed
  from the queue. The code computes which commands to execute at once and keeps
  the queue as it was. `ImplementsQueue` checks what the code does: no command is dropped
  but by a flush.
* `ecallmgr_call_control.erl:641`, `:655`: the legs of a bridge or an unbridge are not
  published, since the event they are taken from has no Call-ID of the other leg.
* `ecallmgr_amqp_pool_worker.erl:121`: a publish that raises leaves the worker
  in nobody's queue.
* `ecallmgr_amqp_pool.erl:197`: `AvgMicro` is 0 when there were more requests than
  microseconds were measured.
* `src/lib/whistle_amqp-1.0.0/src/amqp_mgr.erl:226`: a host that crashes on a live connection is
  never replaced.
* `src/lib/whistle-1.0.0/src/gen_listener.erl:229`, `:474`: a worker told to stop
  while a responder runs deletes its queue and stays; `basic_consume` is outside
  the catch.
* `src/lib/whistle_amqp-1.0.0/src/amqp_host.erl:194` with `gen_listener.erl:380`:
  two chains of retries may be under way at once, and the second leaves a
  listener with a queue nobody consumes from while `is_consuming` is true.
* `src/whistle_apps/apps/jonny5/src/j5_acctmgr.erl:442`: the end of an inbound call
  sets the inbound trunks available from the two-way trunks available, where the
  log says that one is added.
* `src/whistle_apps/apps/callflow/src/module/cf_park.erl:94`: a slot whose call has
  hung up is not freed, although the log says "clean up", and neither is one that was
  retrieved; the numbers grow.
* `src/whistle_apps/apps/callflow/src/module/cf_park.erl:176`: when the greatest
  slot in use is below 99 no number can be given automatically and the module ends
  with an error.
* `src/whistle_apps/apps/callflow/src/module/cf_park.erl:92`: the late answer about
  the own call is taken for the one about the parked call, so a caller may be
  redirected for a call that is gone, or away from one on the same switch.
* `src/lib/whistle_amqp-1.0.0/src/amqp_host.erl:296`: a queue the broker refuses as
  exclusive to another connection is an exit in the host, uncaught. A conference started
  on two nodes at a time so costs the second its host, and the request its
  discovery is to send again (`conf_discovery.erl:244-247`) is refused.
* `src/whistle_apps/apps/conference/src/conf_service.erl:251`: a service ends with
  the `add_caller` requests in its mailbox; nobody returns them.
* `src/whistle_apps/apps/callflow/src/cf_exe.erl:406`: the name of a node's module
  is built outside the `try`, so a node without one ends the executor, and with
  it the call (in `CallFlow`, an `Empty` node).

## 7. Not modelled

Formatting and parsing of messages, XML and SDP; the content of JSON documents;
logging; statistics. The supervisors, but for the set of children the pool asks
for. The other listeners of a host, but for the crash one of their requests may be (the
entries of two listeners do not touch), what a listener binds after its start, the
publications of call control, operator commands, connection errors other than a refusal. An AMQP outage while
the pool hires (a worker that does not start ends the pool). The REST
interface, media streams, the stateless responders and the vendored libraries;
the reasons are with the components in `PROJECT.json`.
