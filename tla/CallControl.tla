----------------------------- MODULE CallControl -----------------------------
(***************************************************************************)
(* The call control listener (ecallmgr_call_control.erl): one process per  *)
(* call that queues the dialplan commands the applications publish, feeds  *)
(* them to the media switch one at a time, follows the legs and transfers  *)
(* of the call, survives the loss of the switch and lingers for a moment   *)
(* after the channel is gone.                                              *)
(*                                                                         *)
(* Every AMQP delivery is handled by a process of its own that casts to    *)
(* the listener, so what is on its way is kept in sets and taken in any    *)
(* order.  One action is one run of handle_cast or handle_info, or one     *)
(* step of the switch.                                                     *)
(***************************************************************************)
EXTENDS Naturals, Sequences, FiniteSets, SequencesExt, CallCommand

CONSTANTS
  CallIds,       \* call ids of channels on the switch
  InitCall,      \* the call the listener is started for
  Controllers,   \* AMQP queues of the applications that control calls
  QueueApps,     \* applications published with Insert-At head, tail or flush
  NowApps,       \* applications published with Insert-At now
  NodeCanFail,   \* whether the connection to the switch may be lost
  SlowSwitch,    \* whether an api call to a switch that is there may time out
  MaxCmds,       \* bound: commands published to the listener
  MaxGroup,      \* bound: commands in one request for the queue
  MaxNow         \* bound: commands in one immediate request

ASSUME CallAssumption == InitCall \in CallIds /\ "undefined" \notin CallIds
ASSUME AppAssumption  == "undefined" \notin QueueApps \cup NowApps
ASSUME BoundAssumption == /\ MaxCmds \in Nat 
                          /\ NodeCanFail \in BOOLEAN /\ SlowSwitch \in BOOLEAN
                          /\ MaxGroup \in Nat \ {0} /\ MaxNow \in Nat \ {0}

VARIABLES
  \* the listener's #state{}
  proc,             \* "up", or why it stopped
  callid, controller_q, command_q, current_app, is_node_up,
  keep_alive_ref,   \* 0 is undefined, n the n-th keep-alive timer
  other_legs, last_removed_leg,
  \* its timers and mailbox
  ka_running,       \* the timer keep_alive_ref has not fired yet
  expired,          \* timers whose keep_alive_expired is in the mailbox
  completes,        \* event_execute_complete casts on their way
  advances,         \* force_queue_advance messages on their way
  destroys,         \* CHANNEL_DESTROY events on their way
  \* the media switch
  fs_up, live, running,
  \* history
  sent,             \* commands published so far
  started,          \* commands taken from the queue and executed, in order
  outage,           \* the switch was lost and no queued command started since
  was_call,         \* call ids the listener has had
  transferred       \* the controller that was told of a control transfer

queueVars == <<command_q, current_app, started, outage>>
kaVars    == <<keep_alive_ref, ka_running, expired>>
legVars   == <<callid, controller_q, other_legs, last_removed_leg, was_call,
               transferred>>
mailVars  == <<completes, advances>>
vars == <<proc, is_node_up, queueVars, kaVars, legVars, mailVars, destroys,
          fs_up, live, running, sent>>

Insertions == {"head", "tail"}
QueueCommands == [id : 1..MaxCmds, app : QueueApps, call : CallIds, pos : Insertions]
NowCommands   == [id : 1..MaxCmds, app : NowApps, call : CallIds, pos : {"now"}]

\* A command under execution, or its completion: which command, on whose
\* behalf it was executed, for which call and under which name it completes.
Names  == SwitchNames \cup QueueApps \cup NowApps
Origin == {"queue", "now", "hangup"}
Tokens == [id : 1..MaxCmds, by : Origin, call : CallIds, name : Names]
Advances == [id : 1..MaxCmds, by : Origin, call : CallIds]

-----------------------------------------------------------------------------
(* init/1: an empty queue, no application, a switch that is up.            *)

Init ==
  /\ proc = "up" /\ callid = InitCall /\ controller_q \in Controllers
  /\ command_q = <<>> /\ current_app = "undefined" /\ is_node_up = TRUE
  /\ keep_alive_ref = 0 /\ ka_running = FALSE /\ expired = {}
  /\ other_legs = {} /\ last_removed_leg = "undefined"
  /\ completes = {} /\ advances = {} /\ destroys = {}
  /\ fs_up = TRUE /\ live = CallIds /\ running = {}
  /\ sent = 0 /\ started = <<>> /\ outage = FALSE
  /\ was_call = {InitCall}
  /\ transferred = "none"

-----------------------------------------------------------------------------
(* execute_control_request/2.  An execution is a record of the command, on *)
(* whose behalf it runs and what came of it; an exception sends the        *)
(* listener a force_queue_advance for the call.                            *)

Reachable == fs_up /\ callid \in live

execute_control_request(c) == exec_cmd(callid, c, Reachable)

Execution(c, by, o) == [cmd |-> c, by |-> by, out |-> o]

TokensOf(e, names) ==
  {[id |-> e.cmd.id, by |-> e.by, call |-> callid, name |-> n] : n \in names}

Raises(e) ==
  {[id |-> e.cmd.id, by |-> e.by, call |-> callid] : x \in {y \in {1} : e.out.raise}}

\* Perform the executions es, having consumed the messages doneC and doneA.
Execute(es, doneC, doneA) ==
  /\ running'   = running \cup UNION {TokensOf(e, e.out.fs) : e \in es}
  /\ completes' = (completes \ doneC) \cup UNION {TokensOf(e, e.out.cast) : e \in es}
  /\ advances'  = (advances \ doneA) \cup UNION {Raises(e) : e \in es}

\* Mutant: the next command is looked at and not taken out.
Peek_ExecuteNext(q, es, doneC, doneA) ==
  /\ is_node_up /\ q # <<>>
  /\ \E o \in execute_control_request(Head(q)) :
       Execute(es \cup {Execution(Head(q), "queue", o)}, doneC, doneA)
  /\ command_q' = q /\ current_app' = Head(q).app
  /\ started' = Append(started, Head(q)) /\ outage' = FALSE

\* Take the next command of q, if the switch is up and there is one.
ExecuteNext(q, es, doneC, doneA) ==
  \/ /\ is_node_up /\ q # <<>>
     /\ \E o \in execute_control_request(Head(q)) :
          Execute(es \cup {Execution(Head(q), "queue", o)}, doneC, doneA)
     /\ command_q' = Tail(q) /\ current_app' = Head(q).app
     /\ started' = Append(started, Head(q)) /\ outage' = FALSE
  \/ /\ ~is_node_up \/ q = <<>>
     /\ Execute(es, doneC, doneA)
     /\ command_q' = q /\ current_app' = "undefined"
     /\ UNCHANGED <<started, outage>>

-----------------------------------------------------------------------------
(* Dialplan commands.                                                      *)

\* Mutant: the timer is cancelled and not started again.
Cancel_get_keep_alive_ref ==
  /\ ka_running' = FALSE /\ UNCHANGED <<keep_alive_ref, expired>>

\* Mutant: a keep-alive is started for a channel that is still there.
Always_get_keep_alive_ref ==
  /\ keep_alive_ref' = keep_alive_ref + 1 /\ ka_running' = TRUE /\ UNCHANGED expired

\* get_keep_alive_ref/1: the mailbox is searched for an expiration only when
\* the timer could still be cancelled.
Oldest(S) == CHOOSE x \in S : \A y \in S : x <= y

get_keep_alive_ref ==
  \/ keep_alive_ref = 0 /\ UNCHANGED kaVars
  \/ /\ keep_alive_ref # 0
     /\ keep_alive_ref' = keep_alive_ref + 1 /\ ka_running' = TRUE
     /\ expired' = IF ka_running /\ expired # {} THEN expired \ {Oldest(expired)}
                   ELSE expired

\* Mutant: foldl where the source has foldr.
Foldl_insert_command_into_queue(q, position, cmds) ==
  IF position = "head" THEN Reverse(cmds) \o q ELSE q \o cmds

\* The command list of a request arrives last command first: foldr with
\* queue:in appends it in reverse, foldr with queue:in_r prepends it as it is.
insert_command_into_queue(q, position, cmds) ==
  IF position = "head" THEN cmds \o q ELSE q \o Reverse(cmds)

\* Mutant: commands are validated one by one as they are inserted.
Piecemeal_insert_command(insert_at, cmds, valid) ==
  LET inserted == IF valid THEN cmds ELSE Tail(cmds) IN
  IF insert_at = "now" THEN command_q
  ELSE IF insert_at = "flush" THEN insert_command_into_queue(<<>>, "tail", inserted)
  ELSE insert_command_into_queue(command_q, insert_at, inserted)

\* The new queue.  A request that does not validate raises, and the old queue
\* is kept; an immediate one never touches the queue.
insert_command(insert_at, cmds, valid) ==
  IF insert_at = "now" \/ ~valid THEN command_q
  ELSE IF insert_at = "flush" THEN insert_command_into_queue(<<>>, "tail", cmds)
  ELSE insert_command_into_queue(command_q, insert_at, cmds)

\* How many commands of an immediate request run: none while the switch is
\* lost (an execution error is published), a single one whether it validates
\* or not, and of a list those before the first that does not validate.
NowCount(insert_at, cmds, valid) ==
  IF insert_at # "now" \/ ~is_node_up THEN {0}
  ELSE IF Len(cmds) = 1 THEN {1}
  ELSE IF valid THEN {Len(cmds)} ELSE 0..(Len(cmds) - 1)

\* Commands of an immediate list run without the request's default headers.
NowOutcomes(cmds, i) ==
  execute_control_request(cmds[i]) \cup IF Len(cmds) > 1 THEN {Raised} ELSE {}

NowExecutions(cmds, n) ==
  { {Execution(cmds[i], "now", f[i]) : i \in 1..n} :
      f \in {g \in [1..n -> UNION {NowOutcomes(cmds, i) : i \in 1..n}] :
               \A i \in 1..n : g[i] \in NowOutcomes(cmds, i)} }

\* A request: commands with fresh ids, sent in reverse.  The sender knows the
\* call by an id the listener has, or has had.
Request(insert_at, n, apps, call) ==
  [i \in 1..n |-> [id |-> sent + n + 1 - i, app |-> apps[i], call |-> call,
                   pos |-> IF insert_at = "flush" THEN "tail" ELSE insert_at]]

\* handle_cast({dialplan, JObj})
Dialplan(insert_at, cmds, valid) ==
  /\ proc = "up"
  /\ \E n \in NowCount(insert_at, cmds, valid) : \E es \in NowExecutions(cmds, n) :
       LET q == insert_command(insert_at, cmds, valid) IN
       \/ current_app = "undefined" /\ ExecuteNext(q, es, {}, {})
       \/ /\ current_app # "undefined"
          /\ Execute(es, {}, {}) /\ command_q' = q
          /\ UNCHANGED <<current_app, started, outage>>
  /\ get_keep_alive_ref
  /\ sent' = sent + Len(cmds)
  /\ UNCHANGED <<proc, is_node_up, legVars, destroys, fs_up, live>>

\* handle_call_command/2: whatever an application publishes.
CallCommandReceived ==
  \E insert_at \in Insertions \cup {"flush", "now"} :
  \E n \in 1..(IF insert_at = "now" THEN MaxNow ELSE MaxGroup) :
    /\ sent + n <= MaxCmds
    /\ \E apps \in [1..n -> IF insert_at = "now" THEN NowApps ELSE QueueApps],
          call \in was_call, valid \in BOOLEAN :
         Dialplan(insert_at, Request(insert_at, n, apps, call), valid)

\* Mutant: the current command is cleared and the next one is not started.
Idle_EventExecuteComplete(t) ==
  /\ proc = "up" /\ t \in completes /\ t.call = callid
  /\ t.name \in convert_whistle_app_name(current_app)
  /\ current_app' = "undefined" /\ completes' = completes \ {t}
  /\ UNCHANGED <<command_q, started, outage, running, advances, proc, is_node_up,
                 kaVars, legVars, destroys, fs_up, live, sent>>

\* Mutant: any completion for the call counts, whatever its application.
AnyName_EventExecuteComplete(t) ==
  /\ proc = "up" /\ t \in completes /\ t.call = callid
  /\ ExecuteNext(command_q, {}, {t}, {})
  /\ UNCHANGED <<proc, is_node_up, kaVars, legVars, destroys, fs_up, live, sent>>

\* handle_cast({event_execute_complete, CallId, EvtName}): a completion for
\* another call or another application is dropped.
EventExecuteComplete(t) ==
  /\ proc = "up" /\ t \in completes
  /\ \/ /\ t.call = callid /\ t.name \in convert_whistle_app_name(current_app)
        /\ ExecuteNext(command_q, {}, {t}, {})
     \/ /\ t.call # callid \/ t.name \notin convert_whistle_app_name(current_app)
        /\ completes' = completes \ {t}
        /\ UNCHANGED <<queueVars, running, advances>>
  /\ UNCHANGED <<proc, is_node_up, kaVars, legVars, destroys, fs_up, live, sent>>

\* Mutant: an unconditional advance that leaves the queue alone.
Idle_ForceQueueAdvance(a) ==
  /\ proc = "up" /\ a \in advances /\ a.call = callid
  /\ current_app' = "undefined" /\ advances' = advances \ {a}
  /\ UNCHANGED <<command_q, started, outage, running, completes, proc, is_node_up,
                 kaVars, legVars, destroys, fs_up, live, sent>>

\* handle_info({force_queue_advance, CallId})
ForceQueueAdvance(a) ==
  /\ proc = "up" /\ a \in advances
  /\ \/ a.call = callid /\ ExecuteNext(command_q, {}, {}, {a})
     \/ /\ a.call # callid
        /\ advances' = advances \ {a}
        /\ UNCHANGED <<queueVars, running, completes>>
  /\ UNCHANGED <<proc, is_node_up, kaVars, legVars, destroys, fs_up, live, sent>>

-----------------------------------------------------------------------------
(* The end of the call.                                                    *)

post_hangup_commands == {i \in DOMAIN command_q : command_q[i].app \in POST_HANGUP_COMMANDS}

\* handle_cast({channel_destroyed, _}): the event's call id is not looked at,
\* and the queue and the current application stay as they are.
ChannelDestroyed(c) ==
  /\ proc = "up" /\ c \in destroys
  /\ destroys' = destroys \ {c}
  /\ \E f \in [post_hangup_commands -> UNION {execute_control_request(command_q[i]) :
                                               i \in post_hangup_commands}] :
       /\ \A i \in post_hangup_commands : f[i] \in execute_control_request(command_q[i])
       /\ Execute({Execution(command_q[i], "hangup", f[i]) : i \in post_hangup_commands}, {}, {})
  /\ \/ keep_alive_ref # 0 /\ UNCHANGED kaVars
     \/ /\ keep_alive_ref = 0
        /\ keep_alive_ref' = 1 /\ ka_running' = TRUE /\ UNCHANGED expired
  /\ UNCHANGED <<proc, is_node_up, queueVars, legVars, fs_up, live, sent>>

\* The keep-alive timer fires.
KeepAliveFires ==
  /\ proc = "up" /\ ka_running
  /\ ka_running' = FALSE /\ expired' = expired \cup {keep_alive_ref}
  /\ UNCHANGED <<proc, is_node_up, queueVars, keep_alive_ref, legVars, mailVars,
                 destroys, fs_up, live, running, sent>>

Stop(why) ==
  /\ proc' = why
  /\ UNCHANGED <<is_node_up, queueVars, kaVars, mailVars, destroys, fs_up, live, running, sent>>

\* handle_info(keep_alive_expired)
KeepAliveExpired ==
  /\ proc = "up" /\ expired # {}
  /\ Stop("expired") /\ UNCHANGED legVars

\* handle_info({sanity_check}), once no keep-alive is running: any answer but
\* "true" ends the listener, that of a switch that is away and, when it is slow,
\* the timeout of freeswitch:api included.  The periodic timer runs as long as
\* keep_alive_ref is undefined, so it needs no variable.
SanityCheckFails ==
  /\ proc = "up" /\ keep_alive_ref = 0 /\ (~Reachable \/ SlowSwitch)
  /\ Stop("insane") /\ UNCHANGED legVars

-----------------------------------------------------------------------------
(* Legs and transfers.                                                     *)

\* A call event of the switch as far as the listener reads it: the other leg,
\* the disposition, whether the transfer history has an item for the event's
\* second, and whether there is a hangup cause.
Dispositions == {"BLIND_TRANSFER", "ATTENDED_TRANSFER", "ANSWER", "other"}
CallEvents ==
       [name : {"CHANNEL_BRIDGE", "CHANNEL_CREATE", "CHANNEL_DESTROY"}, leg : CallIds,
        disposition : {"other"}, history : {FALSE}, cause : {FALSE}]
  \cup [name : {"CHANNEL_UNBRIDGE"}, leg : CallIds, disposition : Dispositions,
        history : BOOLEAN, cause : BOOLEAN]
  \cup [name : {"CHANNEL_HANGUP"}, leg : CallIds, disposition : Dispositions,
        history : {FALSE}, cause : BOOLEAN]

\* do_get_transfer_state/2; "trasferer" is what the source returns.
get_transfer_state(e) ==
  CASE e.name = "CHANNEL_UNBRIDGE" ->
         (CASE e.history -> "transferer"
            [] ~e.history /\ e.disposition = "BLIND_TRANSFER" -> "transferer"
            [] ~e.history /\ e.disposition = "ATTENDED_TRANSFER" -> "transferee"
            [] ~e.history /\ e.disposition = "ANSWER" /\ ~e.cause -> "transferer"
            [] OTHER -> "undefined")
    [] e.name = "CHANNEL_HANGUP" ->
         (CASE e.disposition = "BLIND_TRANSFER" -> "transferer"
            [] e.disposition = "ATTENDED_TRANSFER" -> "transferee"
            [] e.disposition = "ANSWER" /\ ~e.cause -> "trasferer"
            [] OTHER -> "undefined")
    [] OTHER -> "undefined"

\* The call and its channels are unaffected by what happens to the legs.
LegStep == UNCHANGED <<is_node_up, queueVars, kaVars, mailVars, destroys,
                       fs_up, live, running, sent>>

\* handle_cast({controller_queue, ControllerQ})
ControllerQueue(q) ==
  /\ proc = "up" /\ controller_q' = q
  /\ LegStep /\ UNCHANGED <<proc, callid, other_legs, last_removed_leg, was_call, transferred>>

\* handle_cast({add_leg, JObj}): keep a leg that is not known yet.  What processes
\* of their own publish of it later is not followed.
AddLeg(leg) ==
  /\ leg \notin other_legs
  /\ other_legs' = other_legs \cup {leg}
  /\ UNCHANGED <<proc, callid, controller_q, last_removed_leg, was_call, transferred>>

\* handle_cast({rm_leg, JObj})
RmLeg(leg) ==
  /\ leg \in other_legs
  /\ other_legs' = other_legs \ {leg} /\ last_removed_leg' = leg
  /\ UNCHANGED <<proc, callid, controller_q, was_call, transferred>>

\* handle_cast({transferer, _}): a listener with no leg, present or removed,
\* takes the event for one meant for another listener and drops it; any other
\* tells the controller and stops.
Transferer ==
  /\ ~(last_removed_leg = "undefined" /\ other_legs = {})
  /\ transferred' = controller_q /\ proc' = "transferred"
  /\ UNCHANGED <<callid, controller_q, other_legs, last_removed_leg, was_call>>

\* handle_cast({transferee, JObj}): when the switch can dump the other leg,
\* follow the call that leg is part of.
Transferee(leg, new) ==
  /\ fs_up /\ leg \in live
  /\ callid' = new /\ other_legs' = other_legs \ {new}
  /\ was_call' = was_call \cup {new}
  /\ UNCHANGED <<proc, controller_q, last_removed_leg, transferred>>

\* handle_call_events/2, and add_leg/1 and rm_leg/1 for the CHANNEL_CREATE and
\* CHANNEL_DESTROY of a leg that names the call as its other leg.  A cast that
\* handle_cast has no clause for, like "trasferer", changes nothing.  The other
\* leg is never the call itself, unless the event was published before the
\* call took a new id.
CallEventReceived(e) ==
  /\ proc = "up" /\ (e.leg # callid \/ was_call # {callid})
  /\ \/ e.name \in {"CHANNEL_BRIDGE", "CHANNEL_CREATE"} /\ AddLeg(e.leg)
     \/ /\ e.name \in {"CHANNEL_UNBRIDGE", "CHANNEL_DESTROY"}
        /\ get_transfer_state(e) = "undefined" /\ RmLeg(e.leg)
     \/ get_transfer_state(e) = "transferer" /\ Transferer
     \/ get_transfer_state(e) = "transferee" /\ \E new \in live : Transferee(e.leg, new)
  /\ LegStep

-----------------------------------------------------------------------------
(* Losing and finding the switch.                                          *)

\* handle_info({nodedown, Node})
NodeDown ==
  /\ proc = "up" /\ ~fs_up /\ is_node_up
  /\ is_node_up' = FALSE /\ outage' = TRUE
  /\ UNCHANGED <<proc, command_q, current_app, started, kaVars, legVars, mailVars,
                 destroys, fs_up, live, running, sent>>

\* handle_info({is_node_up, Timeout}) with a positive answer; after a negative
\* one the check is only scheduled again.
IsNodeUp ==
  /\ proc = "up" /\ ~is_node_up /\ fs_up
  /\ is_node_up' = TRUE
  /\ UNCHANGED <<proc, queueVars, kaVars, legVars, mailVars, destroys, fs_up, live,
                 running, sent>>

-----------------------------------------------------------------------------
(* The media switch (external): it completes what it executes, loses       *)
(* channels and is lost itself.                                            *)

\* Nothing the switch does matters once the listener has stopped.
SwitchStep == /\ proc = "up"
              /\ UNCHANGED <<proc, is_node_up, queueVars, kaVars, legVars, advances, sent>>

FsCompletes(t) ==
  /\ t \in running /\ fs_up
  /\ running' = running \ {t} /\ completes' = completes \cup {t}
  /\ SwitchStep /\ UNCHANGED <<destroys, fs_up, live>>

\* An execution ends while nobody is connected to hear of it.
FsCompletesUnheard(t) ==
  /\ t \in running /\ ~fs_up
  /\ running' = running \ {t}
  /\ SwitchStep /\ UNCHANGED <<completes, destroys, fs_up, live>>

\* A channel ends; the event reaches the listener if it is bound to the call
\* and the connection is up, and may be lost.
FsHangup(c) ==
  /\ c \in live /\ live' = live \ {c}
  /\ \/ c = callid /\ fs_up /\ destroys' = destroys \cup {c}
     \/ UNCHANGED destroys
  /\ SwitchStep /\ UNCHANGED <<completes, fs_up, running>>

FsConnection(up) ==
  /\ NodeCanFail /\ fs_up = ~up /\ fs_up' = up
  /\ SwitchStep /\ UNCHANGED <<completes, destroys, live, running>>

-----------------------------------------------------------------------------
Next ==
  \/ CallCommandReceived
  \/ \E t \in completes : EventExecuteComplete(t)
  \/ \E a \in advances : ForceQueueAdvance(a)
  \/ \E c \in destroys : ChannelDestroyed(c)
  \/ KeepAliveFires
  \/ KeepAliveExpired
  \/ SanityCheckFails
  \/ \E q \in Controllers : ControllerQueue(q)
  \/ \E e \in CallEvents : CallEventReceived(e)
  \/ NodeDown
  \/ IsNodeUp
  \/ \E t \in running : FsCompletes(t)
  \/ \E t \in running : FsCompletesUnheard(t)
  \/ \E c \in live : FsHangup(c)
  \/ \E up \in BOOLEAN : FsConnection(up)

Spec == Init /\ [][Next]_vars

(***************************************************************************)
(* The Erlang scheduler runs the listener while its mailbox is not empty,  *)
(* timers fire, and a connected switch finishes what it executes.  A       *)
(* sanity check must come out as it does when the call is gone or the      *)
(* switch away; that a switch that is there answers late is no more than   *)
(* possible.  Nothing is assumed of the applications, of transfers or of   *)
(* hangups.                                                                *)
(***************************************************************************)
FairSpec ==
  /\ Spec
  /\ WF_vars(\E t \in completes : EventExecuteComplete(t))
  /\ WF_vars(\E a \in advances : ForceQueueAdvance(a))
  /\ WF_vars(\E c \in destroys : ChannelDestroyed(c))
  /\ WF_vars(KeepAliveFires)
  /\ WF_vars(KeepAliveExpired)
  /\ WF_vars(~Reachable /\ SanityCheckFails)
  /\ WF_vars(NodeDown)
  /\ WF_vars(IsNodeUp)
  /\ WF_vars(\E t \in running : FsCompletes(t))
  /\ WF_vars(FsConnection(TRUE))

-----------------------------------------------------------------------------
(* Properties.                                                             *)

\* Every variable has its type.
TypeOK ==
  /\ proc \in {"up", "transferred", "expired", "insane"}
  /\ callid \in CallIds /\ controller_q \in Controllers
  /\ command_q \in Seq(QueueCommands) /\ started \in Seq(QueueCommands)
  /\ current_app \in QueueApps \cup {"undefined"}
  /\ is_node_up \in BOOLEAN /\ fs_up \in BOOLEAN /\ outage \in BOOLEAN
  /\ keep_alive_ref \in Nat /\ ka_running \in BOOLEAN /\ expired \subseteq Nat
  /\ other_legs \subseteq CallIds /\ last_removed_leg \in CallIds \cup {"undefined"}
  /\ completes \subseteq Tokens /\ running \subseteq Tokens
  /\ advances \subseteq Advances
  /\ destroys \subseteq CallIds /\ live \subseteq CallIds
  /\ sent \in 0..MaxCmds
  /\ was_call \subseteq CallIds
  /\ transferred \in Controllers \cup {"none"}

\* The queue hands out a command at most once: whatever mixture of inserts,
\* flushes, completions and forced advances there was, no command is in the
\* queue twice, was taken from it twice, or is in it after it was taken.
ExactlyOnce ==
  /\ \A i, j \in DOMAIN command_q : command_q[i].id = command_q[j].id => i = j
  /\ \A i, j \in DOMAIN started : started[i].id = started[j].id => i = j
  /\ \A i \in DOMAIN command_q, j \in DOMAIN started : command_q[i].id # started[j].id

\* Commands published to the tail of the queue start in the order in which
\* the application published them, within a list and across requests, no
\* matter which others were flushed or pushed in front of them.
TailOrder ==
  /\ \A i, j \in DOMAIN command_q :
       i < j /\ command_q[i].pos = "tail" /\ command_q[j].pos = "tail"
         => command_q[i].id < command_q[j].id
  /\ \A i, j \in DOMAIN started :
       i < j /\ started[i].pos = "tail" /\ started[j].pos = "tail"
         => started[i].id < started[j].id
  /\ \A i \in DOMAIN started, j \in DOMAIN command_q :
       started[i].pos = "tail" /\ command_q[j].pos = "tail"
         => started[i].id < command_q[j].id

\* The listener's queue is the queue the applications are promised: whatever
\* inserts, flushes, refusals, completions, forced advances, outages and hangups
\* there were, and with several of them in one step, the command taken is the
\* one whose turn it is by where and when it was published, a request is inserted
\* as a whole or not at all, none is dropped but for a request that flushes, and
\* none is taken once the listener has stopped.  The log of a hangup that it is
\* "removing command ~s from control queue, not valid after hangup" (:566) does
\* not say what the code does: no command leaves the queue at a hangup, neither
\* those the log names nor those executed at once, which run again in their turn.
Ids(w, where) == {w[i].id : i \in {j \in DOMAIN w : w[j].pos \in where}}

Queue == INSTANCE CommandQueue WITH
  open <- proc = "up", heads <- Ids(command_q, {"head"}), tails <- Ids(command_q, {"tail"}),
  handed <- Ids(started, Insertions)

ImplementsQueue == Queue!QueueSpec

\* The listener is never idle with commands waiting, except between losing
\* the switch and the first command it starts afterwards.
WorkConserving ==
  current_app = "undefined" /\ command_q # <<>> => ~is_node_up \/ outage

\* At most one queued command is on the switch or about to be reported
\* finished, under a name that ends a queued command.  This rests on completions
\* being told apart by name and on no exception but its own advancing the queue,
\* so it is stated for applications with one such completion each, none of which
\* an immediate or a post-hangup command shares, and for immediate commands that
\* come one by one: those of an immediate list raise for want of their request's
\* headers.
QueueNames == UNION {convert_whistle_app_name(a) : a \in QueueApps}

NamesTellApart ==
  /\ MaxNow = 1 /\ QueueApps \cap POST_HANGUP_COMMANDS = {}
  /\ \A a \in QueueApps : \A o \in get_fs_app(a) :
       /\ \A m, n \in (o.fs \cup o.cast) \cap QueueNames : m = n
       /\ o.fs \cap o.cast \cap QueueNames = {}
       /\ o.raise => (o.fs \cup o.cast) \cap QueueNames = {}
  /\ \A a \in NowApps : \A o \in get_fs_app(a) :
       ~o.raise /\ (o.fs \cup o.cast) \cap QueueNames = {}

OneAtATime == NamesTellApart =>
  \A t, u \in {x \in running \cup completes : x.by = "queue" /\ x.name \in QueueNames} :
    t.id = u.id

\* The listener does not give up waiting for commands on a call that is up:
\* whatever commands restart its timer, old expirations and events late or lost
\* do not end it, as long as the call keeps its id (the end of a channel it had
\* before counts, ecallmgr_call_control.erl:333).  Nothing of the kind holds of
\* the sanity check: a switch that is away or slow ends the listener of a call
\* that is up (:440-447).
StopOnlyWhenGone == proc = "expired" => callid \notin live \/ was_call # {callid}

\* The listener stops for want of new commands only when the keep-alive timer
\* that the last command restarted has run out.
KeepAliveHonoured == [][proc' = "expired" /\ proc = "up" => ~ka_running]_vars

\* A queued command waits for ever only behind one that nobody hears of again: an
\* application whose completion has no name that ends it (a store, a call_pickup,
\* a hold, a fetch, a hangup), or a call that took another id, so that what was
\* executed for the old one is not recognised.  Any other is taken or flushed in
\* the end, or the listener ends.
QueueDrains == \A n \in 1..MaxCmds :
  <>[](proc = "up" /\ \E i \in DOMAIN command_q : command_q[i].id = n)
    => <>[](current_app \in {a \in QueueApps : MayStall(a)} \/ was_call # {callid})

\* A listener does not outlive its channel for ever, also when the event that
\* the channel was destroyed is lost, unless a transfer gives it another one.
LingersThenStops == (callid \notin live) ~> (proc # "up" \/ callid \in live)
=============================================================================
