---------------------------- MODULE AmqpConnection ----------------------------
(***************************************************************************)
(* How a process stays connected to the AMQP broker (amqp_mgr.erl,         *)
(* amqp_host.erl, amqp_util.erl, and the connection part of                *)
(* gen_listener.erl).                                                      *)
(*                                                                         *)
(* The manager owns the connection and one host process; the host keeps a  *)
(* channel per listener in its dictionary of consumers; a listener has a   *)
(* queue, its bindings and timers that make it try again.  All three learn *)
(* of a failure on their own, late, and in any order.  Links numbers the   *)
(* connections the manager makes; the n-th host belongs to the n-th        *)
(* connection.  One listener is followed, with a queue of no fixed name;   *)
(* of the others, that their requests may take the host down.              *)
(***************************************************************************)
EXTENDS Integers, Sequences

CONSTANTS
  ChannelsFail,  \* whether the broker may close a channel of a live connection
  MaxFailures    \* bound: failures of the connection, its channels or the broker

ASSUME FailuresAssumption ==
  MaxFailures \in Nat /\ ChannelsFail \in BOOLEAN

Links == 1..(MaxFailures + 1)

VARIABLES
  \* amqp_mgr
  handler,      \* handler_pid: 0 is undefined
  conn_ref,     \* 0 is undefined
  reconnects,   \* {reconnect, Timeout} messages and timers
  last,         \* history: the connections made so far
  \* the hosts
  host,         \* none, starting, up, stuck, or how it ended
  consumers,    \* its entry for the listener
  \* the broker
  broker_up, conn,
  failures,     \* failures so far
  source,       \* the link whose channel consumes from the listener's queue, or 0
  \* gen_listener
  alive, queue, bound, is_consuming,
  fresh,        \* the queue start_amqp has declared and not yet consumed from
  mailbox,
  checks, waits,  \* its timers: is_consuming and amqp_host_down
  binders         \* the processes it spawned to add the bindings

mgrVars      == <<handler, conn_ref, reconnects, last>>
linkVars     == <<host, consumers, conn>>
queueVars    == <<queue, bound, source>>
brokerVars   == <<broker_up, failures>>
timerVars    == <<checks, waits, binders>>
listenerVars == <<alive, queueVars, is_consuming, fresh, mailbox, timerVars>>
vars == <<mgrVars, linkVars, brokerVars, listenerVars>>

\* What the host knows of the listener: the state of its channel, and whether
\* it has a consumer tag on it.
NoEntry == [chan |-> "dead", tag |-> "absent"]
Entries == [chan : {"alive", "dead"}, tag : {"none", "tagged"}] \cup {NoEntry}
NewChannel == [chan |-> "alive", tag |-> "none"]

Gone == {"normal", "crashed"}
HostStates == {"none", "starting", "stuck", "up"} \cup Gone
QueueStates == {"none", "exists", "gone"}

\* amqp_host_down, amqp_lost_channel, basic.consume_ok, is_consuming, add_binding
Messages == {"down", "lost", "ok", "check", "add"}

Init ==
  /\ handler = 1 /\ conn_ref = 1 /\ reconnects = 0 /\ last = 1
  /\ host = [n \in Links |-> IF n = 1 THEN "up" ELSE "none"]
  /\ conn = [n \in Links |-> IF n = 1 THEN "alive" ELSE "none"]
  /\ consumers = [n \in Links |-> IF n = 1 THEN [chan |-> "alive", tag |-> "tagged"]
                                           ELSE NoEntry]
  /\ broker_up = TRUE /\ failures = 0
  \* gen_listener:init has run: consuming, with its timer and bindings on the way
  /\ alive = TRUE /\ queue = "exists" /\ source = 1 /\ bound = FALSE
  /\ is_consuming = FALSE /\ fresh = "none"
  /\ mailbox = <<"ok">> /\ checks = 1 /\ waits = 0 /\ binders = 1

-----------------------------------------------------------------------------
(* The broker (external).                                                  *)

Died(entry) ==
  IF entry = NoEntry THEN NoEntry ELSE [chan |-> "dead", tag |-> entry.tag]

\* The channels in S die; the broker deletes a queue with its last consumer.
ChannelsDie(S) ==
  /\ consumers' = [n \in Links |-> IF n \in S THEN Died(consumers[n]) ELSE consumers[n]]
  /\ IF source \in S
     THEN queue' = "gone" /\ bound' = FALSE /\ source' = 0
     ELSE UNCHANGED queueVars

Failure == failures < MaxFailures /\ failures' = failures + 1

Disconnect(n) ==
  /\ Failure
  /\ conn[n] = "alive" /\ conn' = [conn EXCEPT ![n] = "dead"]
  /\ ChannelsDie({n})
  /\ UNCHANGED <<mgrVars, host, broker_up, alive, is_consuming, fresh, mailbox, timerVars>>

Lost(q) == IF q = "exists" THEN "gone" ELSE q

\* The broker goes down with its connections and its queues, which are not durable.
BrokerDown ==
  /\ Failure
  /\ broker_up /\ broker_up' = FALSE
  /\ conn' = [n \in Links |-> IF conn[n] = "alive" THEN "dead" ELSE conn[n]]
  /\ consumers' = [n \in Links |-> Died(consumers[n])]
  /\ queue' = Lost(queue) /\ fresh' = Lost(fresh) /\ bound' = FALSE /\ source' = 0
  /\ UNCHANGED <<mgrVars, host, alive, is_consuming, mailbox, timerVars>>

BrokerUp ==
  /\ ~broker_up /\ broker_up' = TRUE
  /\ UNCHANGED <<mgrVars, linkVars, failures, listenerVars>>

ChannelFails(n) ==
  /\ ChannelsFail /\ Failure
  /\ consumers[n].chan = "alive" \/ source = n
  /\ ChannelsDie({n})
  /\ UNCHANGED <<mgrVars, host, conn, broker_up, alive, is_consuming, fresh, mailbox, timerVars>>

-----------------------------------------------------------------------------
(* amqp_mgr.                                                               *)

\* handle_info({'DOWN', ConnRef, ..}): stop_amqp_host drops the monitor of the
\* host; the process it spawns to stop it is not the host's boss.
MgrConnDown ==
  /\ conn_ref # 0 /\ conn[conn_ref] = "dead"
  /\ conn_ref' = 0 /\ handler' = 0 /\ reconnects' = reconnects + 1
  /\ UNCHANGED <<last, linkVars, brokerVars, listenerVars>>

\* handle_info({'DOWN', Ref, ..}) of the host: conn_ref stays as it is.
MgrHostDown ==
  /\ handler # 0 /\ host[handler] \in Gone
  /\ handler' = 0
  /\ reconnects' = IF host[handler] = "normal" THEN reconnects ELSE reconnects + 1
  /\ UNCHANGED <<conn_ref, last, linkVars, brokerVars, listenerVars>>

\* start_amqp_host: a new connection, and a host for it.
Connect ==
  /\ broker_up
  /\ last' = last + 1 /\ conn_ref' = last + 1 /\ handler' = last + 1
  /\ conn' = [conn EXCEPT ![last + 1] = "alive"]
  /\ host' = [host EXCEPT ![last + 1] = "starting"]

\* Mutant: {reconnect, Timeout} connects whether or not there is a connection.
Again_MgrReconnect ==
  /\ reconnects > 0 /\ reconnects' = reconnects - 1
  /\ Connect
  /\ UNCHANGED <<consumers, brokerVars, listenerVars>>

\* Mutant: an attempt the broker refuses is the last one.
Once_MgrReconnect ==
  /\ reconnects > 0 /\ reconnects' = reconnects - 1
  /\ \/ conn_ref = 0 /\ Connect
     \/ (conn_ref # 0 \/ ~broker_up) /\ UNCHANGED <<handler, conn_ref, last, conn, host>>
  /\ UNCHANGED <<consumers, brokerVars, listenerVars>>

\* handle_info({reconnect, Timeout}): with a connection the message is one of
\* those nobody handles; while the broker refuses, the timer is started again.
MgrReconnect ==
  /\ reconnects > 0 /\ reconnects' = reconnects - 1
  /\ \/ conn_ref = 0 /\ Connect
     \/ conn_ref # 0 /\ UNCHANGED <<handler, conn_ref, last, conn, host>>
  /\ UNCHANGED <<consumers, brokerVars, listenerVars>>

\* handle_call(is_available).
Available == handler # 0 /\ host[handler] \notin Gone

-----------------------------------------------------------------------------
(* amqp_host.                                                              *)

\* handle_info(timeout): the publish channel is opened, or the host gives up.
HostInit(n) ==
  /\ host[n] = "starting"
  /\ host' = [host EXCEPT ![n] = IF conn[n] = "alive" THEN "up" ELSE "crashed"]
  /\ UNCHANGED <<mgrVars, consumers, conn, brokerVars, listenerVars>>

\* terminate/2 tells the consumers; box is the mailbox of the listener till then.
HostEnds(n, how, box) ==
  /\ host' = [host EXCEPT ![n] = how]
  /\ consumers' = [consumers EXCEPT ![n] = NoEntry]
  /\ mailbox' = IF consumers[n] # NoEntry THEN Append(box, "down") ELSE box

\* handle_info({'DOWN', Ref, ..}) of the connection.
HostConnDown(n) ==
  /\ host[n] = "up" /\ conn[n] = "dead"
  /\ HostEnds(n, "normal", mailbox)
  /\ UNCHANGED <<mgrVars, conn, brokerVars, alive, queueVars, is_consuming, fresh, timerVars>>

\* clean_consumers/5: the channel of a listener died.  A new one is opened for
\* it, which consumes from nothing; without a connection the listener is told.
HostChannelDown(n) ==
  /\ host[n] = "up" /\ consumers[n] # NoEntry /\ consumers[n].chan = "dead"
  /\ \/ /\ conn[n] = "alive"
        /\ consumers' = [consumers EXCEPT ![n] = NewChannel]
        /\ UNCHANGED mailbox
     \/ /\ conn[n] = "dead"
        /\ consumers' = [consumers EXCEPT ![n] = NoEntry]
        /\ mailbox' = Append(mailbox, "lost")
  /\ UNCHANGED <<mgrVars, host, conn, brokerVars, alive, queueVars, is_consuming, fresh,
                 timerVars>>

\* clean_consumers/5: the listener died.
HostConsumerDown(n) ==
  /\ ~alive /\ host[n] = "up" /\ consumers[n] # NoEntry
  /\ consumers' = [consumers EXCEPT ![n] = NoEntry]
  /\ IF source = n THEN queue' = "gone" /\ bound' = FALSE /\ source' = 0
                   ELSE UNCHANGED queueVars
  /\ UNCHANGED <<mgrVars, host, conn, brokerVars, alive, is_consuming, fresh, mailbox, timerVars>>

\* A request of another listener ends the host they share: it calls a channel
\* whose end the host has not been told of, or the broker refuses it a queue that
\* is exclusive to another connection.  The connection and its channels live on.
HostCrashes(n) ==
  /\ host[n] = "up"
  /\ HostEnds(n, "crashed", mailbox)
  /\ UNCHANGED <<mgrVars, conn, brokerVars, alive, queueVars, is_consuming, fresh, timerVars>>

-----------------------------------------------------------------------------
(* A request of the listener, through the manager to the host; box is its   *)
(* mailbox without the message it is handling.                             *)

\* The manager or start_channel answers with an error.
Refused(box) ==
  /\ Available =>
       host[handler] = "up" /\ conn[handler] = "dead" /\ consumers[handler] = NoEntry
  /\ mailbox' = box /\ UNCHANGED <<host, consumers>>

\* The call times out.  A host that has a message before its timeout of 0 never
\* initialises; one with a dead connection may end first; one that uses a dead
\* channel, for this request or for one of another listener before it, crashes.
Unheard(box) ==
  /\ Available
  /\ \/ /\ host[handler] \in {"starting", "stuck"}
        /\ host' = [host EXCEPT ![handler] = "stuck"]
        /\ mailbox' = box /\ UNCHANGED consumers
     \/ /\ host[handler] = "up" /\ conn[handler] = "dead"
        /\ mailbox' = box /\ UNCHANGED <<host, consumers>>
     \/ host[handler] = "up" /\ HostEnds(handler, "crashed", box)

\* The channel the request is served on, a new one if need be.
Channel ==
  IF consumers[handler] = NoEntry THEN NewChannel ELSE consumers[handler]

Served ==
  /\ Available /\ host[handler] = "up" /\ conn[handler] = "alive"
  /\ Channel.chan = "alive"
  /\ UNCHANGED host

Stored(entry) == consumers' = [consumers EXCEPT ![handler] = entry]

-----------------------------------------------------------------------------
(* gen_listener.                                                           *)

Idle == alive /\ fresh = "none"
Handles(msg) == Idle /\ mailbox # <<>> /\ Head(mailbox) = msg
Rest == Tail(mailbox)

\* erlang:send_after(?TIMEOUT_RETRY_CONN, ..) delivers.  What was sent to the
\* listener when the timer was started has long arrived.
CheckTimer ==
  /\ checks > 0 /\ binders = 0 /\ checks' = checks - 1
  /\ mailbox' = Append(mailbox, "check")
  /\ UNCHANGED <<mgrVars, linkVars, brokerVars, alive, queueVars, is_consuming, fresh, waits,
                 binders>>

WaitTimer ==
  /\ waits > 0 /\ binders = 0 /\ waits' = waits - 1
  /\ mailbox' = Append(mailbox, "down")
  /\ UNCHANGED <<mgrVars, linkVars, brokerVars, alive, queueVars, is_consuming, fresh, checks,
                 binders>>

\* The process init or handle_info spawned calls add_binding.
Binder ==
  /\ binders > 0 /\ binders' = binders - 1
  /\ mailbox' = Append(mailbox, "add")
  /\ UNCHANGED <<mgrVars, linkVars, brokerVars, alive, queueVars, is_consuming, fresh, checks,
                 waits>>

\* Mutant: a listener whose manager is not available waits for nothing.
Forgets_NoQueue ==
  /\ queue' = "none" /\ source' = 0 /\ bound' = FALSE /\ is_consuming' = FALSE
  /\ waits' = waits

\* The listener is without a queue, and waits a second.
NoQueue ==
  /\ queue' = "none" /\ source' = 0 /\ bound' = FALSE /\ is_consuming' = FALSE
  /\ waits' = waits + 1

\* handle_info({amqp_host_down, _}): is_available, which forgets a dead handler
\* and the notice that it went down, and then start_amqp up to its queue.
HostDownMsg ==
  /\ Handles("down")
  /\ \/ /\ ~Available /\ NoQueue /\ handler' = 0
        /\ mailbox' = Rest /\ UNCHANGED <<host, consumers, fresh>>
     \/ /\ Available /\ (Refused(Rest) \/ Unheard(Rest)) /\ NoQueue
        /\ UNCHANGED <<handler, fresh>>
     \/ /\ Served /\ Stored(Channel)
        /\ fresh' = "exists" /\ mailbox' = Rest
        /\ UNCHANGED <<handler, queueVars, is_consuming, waits>>
  /\ UNCHANGED <<conn_ref, reconnects, last, conn, brokerVars, alive, checks, binders>>

\* basic.consume of the fresh queue.  A host that has a consumer tag for the
\* listener answers ok and consumes from nothing more; a queue that is gone is
\* an exception, which closes the channel.
Subscribed ==
  \/ /\ Served /\ Channel.tag = "none" /\ fresh = "exists"
     /\ Stored([chan |-> "alive", tag |-> "tagged"])
     /\ source' = handler /\ mailbox' = Append(mailbox, "ok")
  \/ /\ Served /\ Channel.tag = "none" /\ fresh = "gone"
     /\ Stored(Died(consumers[handler]))
     /\ source' = 0 /\ UNCHANGED mailbox
  \/ /\ Available /\ host[handler] = "up" /\ consumers[handler].tag = "tagged"
     /\ source' = 0 /\ UNCHANGED <<host, consumers, mailbox>>
  \/ Refused(mailbox) /\ source' = 0

\* Mutant: the bindings are not added to the new queue.
Unbound_Consume ==
  /\ alive /\ fresh # "none" /\ fresh' = "none"
  /\ \/ /\ Subscribed
        /\ queue' = fresh /\ bound' = FALSE /\ is_consuming' = FALSE
        /\ checks' = checks + 1 /\ UNCHANGED <<alive, binders>>
     \/ /\ Unheard(mailbox) /\ alive' = FALSE
        /\ UNCHANGED <<queueVars, is_consuming, checks, binders>>
  /\ UNCHANGED <<mgrVars, conn, brokerVars, waits>>

\* The rest of start_amqp and of the handler: whatever basic_consume returns,
\* the queue is the listener's; a timeout ends the listener.
Consume ==
  /\ alive /\ fresh # "none" /\ fresh' = "none"
  /\ \/ /\ Subscribed
        /\ queue' = fresh /\ bound' = FALSE /\ is_consuming' = FALSE
        /\ checks' = checks + 1 /\ binders' = binders + 1 /\ UNCHANGED alive
     \/ /\ Unheard(mailbox) /\ alive' = FALSE
        /\ UNCHANGED <<queueVars, is_consuming, checks, binders>>
  /\ UNCHANGED <<mgrVars, conn, brokerVars, waits>>

\* handle_cast({add_binding, ..}): a failure of any kind is printed and
\* forgotten; a queue that is not there closes the channel.
AddBinding ==
  /\ Handles("add")
  /\ \/ /\ Served /\ queue = "exists" /\ mailbox' = Rest
        /\ Stored(Channel) /\ bound' = TRUE /\ UNCHANGED <<queue, source>>
     \/ /\ Served /\ queue # "exists" /\ mailbox' = Rest
        /\ Stored(Died(Channel))
        /\ UNCHANGED queueVars
     \/ (Refused(Rest) \/ Unheard(Rest)) /\ UNCHANGED queueVars
  /\ UNCHANGED <<mgrVars, conn, brokerVars, alive, is_consuming, fresh, timerVars>>

\* handle_info(is_consuming)
CheckMsg ==
  /\ Handles("check") /\ mailbox' = Rest
  /\ waits' = IF is_consuming THEN waits ELSE waits + 1
  /\ UNCHANGED <<mgrVars, linkVars, brokerVars, alive, queueVars, is_consuming, fresh, checks,
                 binders>>

\* handle_info({amqp_lost_channel, no_connection})
LostMsg ==
  /\ Handles("lost") /\ mailbox' = Rest /\ NoQueue
  /\ UNCHANGED <<mgrVars, linkVars, brokerVars, alive, fresh, checks, binders>>

\* handle_info(#'basic.consume_ok'{})
ConsumeOk ==
  /\ Handles("ok") /\ mailbox' = Rest
  /\ is_consuming' = TRUE
  /\ UNCHANGED <<mgrVars, linkVars, brokerVars, alive, queueVars, fresh, timerVars>>

Broker == BrokerDown \/ BrokerUp \/ \E n \in Links : Disconnect(n) \/ ChannelFails(n)
Manager == MgrConnDown \/ MgrHostDown \/ MgrReconnect
Host(n) ==
  HostInit(n) \/ HostConnDown(n) \/ HostChannelDown(n) \/ HostConsumerDown(n) \/ HostCrashes(n)
Timers == CheckTimer \/ WaitTimer \/ Binder
Listener ==
  HostDownMsg \/ Consume \/ AddBinding \/ CheckMsg \/ LostMsg \/ ConsumeOk

Next == Broker \/ Manager \/ (\E n \in Links : Host(n)) \/ Timers \/ Listener

Spec == Init /\ [][Next]_vars

\* Processes and timers run; a broker that went down is started again.
FairSpec ==
  /\ Spec
  /\ WF_vars(MgrConnDown) /\ WF_vars(MgrHostDown) /\ WF_vars(MgrReconnect)
  /\ WF_vars(BrokerUp)
  /\ \A n \in Links : WF_vars(HostInit(n)) /\ WF_vars(HostConnDown(n))
  /\ \A n \in Links : WF_vars(HostChannelDown(n)) /\ WF_vars(HostConsumerDown(n))
  /\ WF_vars(CheckTimer) /\ WF_vars(WaitTimer) /\ WF_vars(Binder) /\ WF_vars(Listener)

-----------------------------------------------------------------------------
(* Properties.                                                             *)

TypeOK ==
  /\ handler \in 0..(MaxFailures + 1) /\ conn_ref \in 0..(MaxFailures + 1)
  /\ reconnects \in Nat /\ last \in Links
  /\ host \in [Links -> HostStates]
  /\ consumers \in [Links -> Entries]
  /\ broker_up \in BOOLEAN /\ conn \in [Links -> {"none", "alive", "dead"}]
  /\ failures \in 0..MaxFailures /\ source \in 0..(MaxFailures + 1)
  /\ alive \in BOOLEAN /\ queue \in QueueStates /\ bound \in BOOLEAN
  /\ is_consuming \in BOOLEAN /\ fresh \in QueueStates
  /\ mailbox \in Seq(Messages)
  /\ checks \in Nat /\ waits \in Nat /\ binders \in Nat

\* The manager never holds two live connections to the broker at once, however
\* the notices of its connection and of its host and the retry timers
\* interleave (amqp_mgr.erl handle_info).
OneConnection ==
  \A n \in Links : conn[n] = "alive" => n = conn_ref

\* A listener that knows it is not consuming has something on its way that
\* makes it look again (gen_listener.erl: its timers and its messages).
KeepsTrying ==
  alive /\ ~is_consuming =>
    \/ checks + waits > 0 \/ fresh # "none"
    \/ \E i \in DOMAIN mailbox : mailbox[i] # "add"

\* A queue that is consumed from has its bindings, or they are on their way; or
\* the host they would be asked of has crashed, and the listener, which forgets a
\* binding that is refused (gen_listener.erl:267), has the notice coming on which
\* it gives the queue up.  None is refused on a host that runs, and no queue
\* replaces another without its bindings (handle_info amqp_host_down).
Coming(msg) == \E i \in DOMAIN mailbox : mailbox[i] = msg

BindingsFollow == source # 0 =>
  \/ host[source] = "up" /\ (bound \/ binders > 0 \/ Coming("add"))
  \/ host[source] = "crashed" /\ Coming("down")

\* The state the manager is meant to be in.
Connected ==
  /\ conn_ref # 0 /\ conn[conn_ref] = "alive"
  /\ handler = conn_ref /\ host[handler] = "up"

\* A host that crashed is not replaced while the connection lives, and one that
\* lost its timeout never initialises.
Orphaned == conn_ref # 0 /\ conn[conn_ref] = "alive" /\ handler = 0 /\ reconnects = 0
Stuck == conn_ref # 0 /\ host[conn_ref] = "stuck"

\* A manager that loses its connection to the broker gets one back when the
\* failures stop, or ends in one of the two states above (amqp_mgr.erl).
MgrRecovers == <>[](Connected \/ Orphaned \/ Stuck)
=============================================================================
