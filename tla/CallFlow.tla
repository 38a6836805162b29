------------------------------- MODULE CallFlow -------------------------------
(***************************************************************************)
(* The executor of a call flow (cf_exe.erl): one process per call that     *)
(* stands at a node of the flow and runs the node's module as a process of *)
(* its own.  The module decides how the flow goes on: it continues with a  *)
(* child, branches to another flow, stops, gives the call away, or         *)
(* attempts a child and hears whether there is one.  A decision is a       *)
(* message without a sender, applied to the node the executor stands at    *)
(* when it takes the message.                                              *)
(*                                                                         *)
(* A module that fails ends with an 'EXIT' and the flow continues; so does *)
(* one that does not exist, which fails at once (cf_exe.erl:429-433).      *)
(* Every call of a module to the executor may time out (gen_server:call);  *)
(* a module in the middle of an attempt then fails with the attempt still  *)
(* in the mailbox.                                                         *)
(*                                                                         *)
(* The executor asks every CALL_SANITY_CHECK for the status of its call,   *)
(* and ends when the next check comes before an answer.  timer:cancel does *)
(* not reach a check that is in the mailbox, which then starts a timer     *)
(* beside the one that is running: a stray.                                *)
(*                                                                         *)
(* A transfer gives the call a new id; call control tells the queues bound *)
(* to the old one.  The events the executor relays to its module are left  *)
(* out: what a module decides is any decision, also none.                  *)
(***************************************************************************)
EXTENDS Naturals, Sequences, FiniteSets

CONSTANTS
    Nodes, Keys,    \* nodes of the flows, keys of their children
    Wild,           \* the key "_"
    Child,          \* the child of a node under a key
    Root,           \* where the flow of the call starts
    Branches,       \* the flows a module can branch to
    Undefined,      \* there is no child under a key
    Empty,          \* an empty JSON object where there should be a node
    Pids, None,     \* module processes there may be at the same time; no process
    MaxTransfers,   \* bound: new ids the call gets
    MaxAsks,        \* bound: status requests of modules
    MaxStrays,      \* bound: stray timers that are told apart from more
    MaxMail         \* bound: messages in the mailbox when one arrives by AMQP

ASSUME FlowAssumption ==
    /\ Undefined \notin Nodes /\ Empty \notin Nodes /\ Undefined # Empty
    /\ Root \in Nodes /\ Wild \in Keys
    /\ Child \in [Nodes -> [Keys -> Nodes \cup {Undefined, Empty}]]
    /\ Branches \subseteq Nodes \cup {Empty}
ASSUME BoundAssumption ==
    MaxTransfers \in Nat /\ MaxAsks \in Nat /\ MaxStrays \in Nat /\ MaxMail \in Nat
ASSUME PidAssumption == None \notin Pids

CallIds == 0 .. MaxTransfers

VARIABLES
    \* the executor's #state{}
    proc,           \* "up", or the reason it ended for
    flow, module, status, call_id,
    \* its mailbox, timers and bindings
    mail,
    timer,          \* sanity_timer: "running", or "fired"
    strays,         \* other timers that are running
    bound,          \* the call ids whose events reach it
    \* the module processes: "none", "run", or "wait" for an attempt
    mods, asks,
    \* call control and the switch
    call, live,     \* the id of the call, and whether it is up
    updates,        \* call_id_update events on their way
    asked,          \* who asked for a status that may still be answered
    hangup,         \* the ids of the hangup commands
    \* history
    missed          \* an update the executor did not get

timers == <<status, timer, strays>>
names  == <<call_id, bound, updates, missed>>
world  == <<call, live>>
vars == <<proc, flow, module, mail, mods, asks, asked, hangup, timers, names, world>>

Msg(t)        == [t |-> t]
(* By whom a message is, properties read, and Free. *)
ContinueBy(p, key) == [t |-> "continue", key |-> key, by |-> p]
BranchBy(p, f)     == [t |-> "branch", flow |-> f, by |-> p]
StopBy(p)          == [t |-> "stop", by |-> p]
TransferBy(p)      == [t |-> "transfer", by |-> p]
AttemptBy(p, key)  == [t |-> "attempt", key |-> key, by |-> p]
ExitOf(p)          == [t |-> "exit", by |-> p]
UpdateTo(id)       == [t |-> "call_id_update", id |-> id]

Alive(p)  == mods[p] # "none"
From(msg, p) == "by" \in DOMAIN msg /\ msg.by = p
(* A pid is used again when nothing refers to it, but the message that is  *)
(* being handled.                                                          *)
Free(p) == ~Alive(p) /\ \A i \in 2 .. Len(mail) : ~From(mail[i], p)
NewPid == CHOOSE p \in Pids : Free(p)
Updating == updates # {} \/ \E i \in 1 .. Len(mail) : mail[i].t = "call_id_update"

Init ==
    /\ proc = "up" /\ flow = Root /\ module = None
    /\ status = "sane" /\ timer = "running" /\ strays = 0
    /\ mail = <<Msg("timeout")>>
    /\ mods = [p \in Pids |-> "none"] /\ asks = 0
    /\ call = 0 /\ call_id = 0 /\ live = TRUE /\ bound = {0}
    /\ updates = {} /\ asked = {} /\ hangup = {} /\ missed = FALSE

-----------------------------------------------------------------------------
(* The executor takes the next message.                                    *)

Next_(t) == proc = "up" /\ mail # <<>> /\ Head(mail).t = t
Post(msgs) == mail' = Tail(mail) \o msgs

Curt_End(reason) ==     \* mutant: only a flow that came to its end hangs up
    /\ proc' = reason
    /\ mods' = IF reason = "normal" THEN mods ELSE [p \in Pids |-> "none"]
    /\ hangup' = IF reason = "normal" THEN hangup \cup {call_id} ELSE hangup
    /\ missed' = (missed \/ Updating)
    /\ mail' = <<>> /\ updates' = {} /\ asked' = {}
    /\ UNCHANGED <<flow, module, asks, timers, call_id, bound, world>>

(* gen_server ends: the modules are linked, and 'normal' does not end      *)
(* them; terminate hangs the call up unless it was given away.             *)
End(reason) ==
    /\ proc' = reason
    /\ mods' = IF reason = "normal" THEN mods ELSE [p \in Pids |-> "none"]
    /\ hangup' = IF reason = "transfer" THEN hangup ELSE hangup \cup {call_id}
    /\ missed' = (missed \/ Updating)
    /\ mail' = <<>> /\ updates' = {} /\ asked' = {}
    /\ UNCHANGED <<flow, module, asks, timers, call_id, bound, world>>

(* launch_cf_module.  A flow without a module raises outside of its try.   *)
Launch(f, others) ==
    \/ f = Empty /\ End("badarg")
    \/ /\ f \in Nodes /\ \E p \in Pids : Free(p)
       /\ flow' = f /\ module' = NewPid
       /\ mods' = [others EXCEPT ![NewPid] = "run"]
       /\ Post(<<>>)
       /\ UNCHANGED <<proc, asks, asked, hangup, timers, names, world>>

Start == Next_("timeout") /\ Launch(flow, mods)

Lost_Continue ==    \* mutant: the child is stored before it is looked at
    /\ Next_("continue")
    /\ LET key == Head(mail).key
           next == Child[flow][key]
       IN \/ next = Undefined /\ key = Wild /\ End("normal")
          \/ /\ next = Undefined /\ key # Wild
             /\ flow' = next
             /\ Post(<<ContinueBy(module, Wild)>>)
             /\ UNCHANGED <<proc, module, mods, asks, asked, hangup, timers, names, world>>
          \/ next = Empty /\ End("normal")
          \/ next \in Nodes /\ Launch(next, mods)

Continue ==
    /\ Next_("continue")
    /\ LET key == Head(mail).key
           next == Child[flow][key]
       IN \/ next = Undefined /\ key = Wild /\ End("normal")
          \/ /\ next = Undefined /\ key # Wild
             /\ Post(<<ContinueBy(module, Wild)>>)
             /\ UNCHANGED <<proc, flow, module, mods, asks, asked, hangup, timers, names, world>>
          \/ next = Empty /\ End("normal")
          \/ next \in Nodes /\ Launch(next, mods)

Branch == Next_("branch") /\ Launch(Head(mail).flow, mods)

Stop == Next_("stop") /\ End("normal")

Transfer == Next_("transfer") /\ End("transfer")

Kept_Attempt ==     \* mutant: the module is not told that it is done
    /\ Next_("attempt")
    /\ LET p == Head(mail).by
           next == Child[flow][Head(mail).key]
       IN \/ /\ next \in Nodes
             /\ Launch(next, [mods EXCEPT ![p] = IF Alive(p) THEN "run" ELSE "none"])
          \/ /\ next \notin Nodes
             /\ mods' = [mods EXCEPT ![p] = IF Alive(p) THEN "run" ELSE "none"]
             /\ Post(<<>>)
             /\ UNCHANGED <<proc, flow, module, asks, asked, hangup, timers, names, world>>

(* The reply to a module that has timed out reaches nobody. *)
Attempt ==
    /\ Next_("attempt")
    /\ LET p == Head(mail).by
           next == Child[flow][Head(mail).key]
       IN \/ next \in Nodes /\ Launch(next, [mods EXCEPT ![p] = "none"])
          \/ /\ next \notin Nodes
             /\ mods' = [mods EXCEPT ![p] = IF Alive(p) THEN "run" ELSE "none"]
             /\ Post(<<>>)
             /\ UNCHANGED <<proc, flow, module, asks, asked, hangup, timers, names, world>>

Anyones_Exit ==     \* mutant: whichever module the 'EXIT' is of
    /\ Next_("exit")
    /\ Post(<<ContinueBy(module, Wild)>>)
    /\ UNCHANGED <<proc, flow, module, mods, asks, asked, hangup, timers, names, world>>

Exit ==
    /\ Next_("exit")
    /\ Post(IF Head(mail).by = module THEN <<ContinueBy(module, Wild)>> ELSE <<>>)
    /\ UNCHANGED <<proc, flow, module, mods, asks, asked, hangup, timers, names, world>>

Idle_ChannelStatus ==   \* mutant: the running timer is cancelled and none started
    /\ Next_("channel_status_resp")
    /\ Post(<<>>)
    /\ status' = "sane" /\ timer' = "fired"
    /\ UNCHANGED <<proc, flow, module, mods, asks, asked, hangup, strays, names, world>>

ChannelStatus ==
    /\ Next_("channel_status_resp")
    /\ Post(<<>>)
    /\ status' = "sane" /\ timer' = "running"
    /\ UNCHANGED <<proc, flow, module, mods, asks, asked, hangup, strays, names, world>>

Quiet_SanityCheck ==    \* mutant: {stop, normal, State}
    /\ Next_("call_sanity_check")
    /\ \/ status = "testing" /\ End("normal")
       \/ /\ status = "sane"
          /\ status' = "testing" /\ timer' = "running"
          /\ strays' = IF timer = "running" /\ strays < MaxStrays THEN strays + 1 ELSE strays
          /\ asked' = IF live /\ call = call_id THEN asked \cup {"exe"} ELSE asked
          /\ Post(<<>>)
          /\ UNCHANGED <<proc, flow, module, mods, asks, hangup, names, world>>

Once_SanityCheck ==     \* mutant: no timer for the check after the request
    /\ Next_("call_sanity_check")
    /\ \/ status = "testing" /\ End("insane")
       \/ /\ status = "sane"
          /\ status' = "testing"
          /\ asked' = IF live /\ call = call_id THEN asked \cup {"exe"} ELSE asked
          /\ Post(<<>>)
          /\ UNCHANGED <<proc, flow, module, mods, asks, hangup, timer, strays, names, world>>

SanityCheck ==
    /\ Next_("call_sanity_check")
    /\ \/ status = "testing" /\ End("insane")
       \/ /\ status = "sane"
          /\ status' = "testing" /\ timer' = "running"
          /\ strays' = IF timer = "running" /\ strays < MaxStrays THEN strays + 1 ELSE strays
          /\ asked' = IF live /\ call = call_id THEN asked \cup {"exe"} ELSE asked
          /\ Post(<<>>)
          /\ UNCHANGED <<proc, flow, module, mods, asks, hangup, names, world>>

Deaf_CallIdUpdate ==    \* mutant: the bindings stay
    /\ Next_("call_id_update")
    /\ call_id' = Head(mail).id
    /\ Post(<<>>)
    /\ UNCHANGED <<proc, flow, module, mods, asks, asked, hangup, timers, bound,
                   updates, missed, world>>

CallIdUpdate ==
    /\ Next_("call_id_update")
    /\ call_id' = Head(mail).id
    /\ Post(<<[t |-> "rebind", rm |-> call_id, add |-> Head(mail).id]>>)
    /\ UNCHANGED <<proc, flow, module, mods, asks, asked, hangup, timers, bound,
                   updates, missed, world>>

(* rm_binding and add_binding, which come one after the other. *)
Rebind ==
    /\ Next_("rebind")
    /\ bound' = (bound \ {Head(mail).rm}) \cup {Head(mail).add}
    /\ Post(<<>>)
    /\ UNCHANGED <<proc, flow, module, mods, asks, asked, hangup, timers, call_id,
                   updates, missed, world>>

-----------------------------------------------------------------------------
(* What reaches the mailbox.                                               *)

Arrives(msg) == proc = "up" /\ mail' = Append(mail, msg)
Delivered(msg) == Len(mail) < MaxMail /\ Arrives(msg)

SanityTimer ==
    /\ Arrives(Msg("call_sanity_check"))
    /\ \/ timer = "running" /\ timer' = "fired" /\ strays' = strays
       \/ strays > 0 /\ strays' = strays - 1 /\ timer' = timer
    /\ UNCHANGED <<proc, flow, module, status, mods, asks, asked, hangup, names, world>>

(* The switch the call is on answers, some time or never.  The executor    *)
(* does not look which call the answer is about.                           *)
StatusResp ==
    \E who \in asked :
        /\ Delivered(Msg("channel_status_resp"))
        /\ asked' = asked \ {who}
        /\ UNCHANGED <<proc, flow, module, mods, asks, hangup, timers, names, world>>

UpdateArrives ==
    \E id \in updates :
        /\ Delivered(UpdateTo(id))
        /\ updates' = updates \ {id}
        /\ UNCHANGED <<proc, flow, module, mods, asks, asked, hangup, timers, call_id,
                       bound, missed, world>>

(* control_transfer, from the call control listener of the call. *)
ControlTransfer ==
    /\ \A i \in 1 .. Len(mail) : mail[i] # Msg("transfer")
    /\ Delivered(Msg("transfer"))
    /\ UNCHANGED <<proc, flow, module, mods, asks, asked, hangup, timers, names, world>>

-----------------------------------------------------------------------------
(* The modules.                                                            *)

Decision(p) ==
    {ContinueBy(p, key) : key \in Keys} \cup {BranchBy(p, f) : f \in Branches}
        \cup {StopBy(p), TransferBy(p)}

(* A decision is the last a module does; its 'EXIT' with reason normal is   *)
(* dropped. *)
Decide(p) ==
    /\ mods[p] = "run"
    /\ \E d \in Decision(p) : Arrives(d)
    /\ mods' = [mods EXCEPT ![p] = "none"]
    /\ UNCHANGED <<proc, flow, module, asks, asked, hangup, timers, names, world>>

AskAttempt(p) ==
    /\ mods[p] = "run"
    /\ \E key \in Keys : Arrives(AttemptBy(p, key))
    /\ mods' = [mods EXCEPT ![p] = "wait"]
    /\ UNCHANGED <<proc, flow, module, asks, asked, hangup, timers, names, world>>

(* It raises; when it waits for the executor, its call has timed out. *)
Fail(p) ==
    /\ Alive(p)
    /\ Arrives(ExitOf(p))
    /\ mods' = [mods EXCEPT ![p] = "none"]
    /\ UNCHANGED <<proc, flow, module, asks, asked, hangup, timers, names, world>>

(* The status of its own call or of another, a parked one. *)
AskStatus(p) ==
    /\ proc = "up" /\ mods[p] = "run" /\ asks < MaxAsks
    /\ asks' = asks + 1
    /\ asked' = asked \cup {"module"}
    /\ UNCHANGED <<proc, flow, module, mail, mods, hangup, timers, names, world>>

-----------------------------------------------------------------------------
(* Call control and the switch.                                            *)

HangUp ==
    /\ proc = "up" /\ live /\ live' = FALSE
    /\ UNCHANGED <<proc, flow, module, mail, mods, asks, asked, hangup, timers, names, call>>

(* The update is published to the queues bound to the old id. *)
Transferred ==
    /\ proc = "up" /\ live /\ call < MaxTransfers
    /\ call' = call + 1
    /\ updates' = IF call \in bound THEN updates \cup {call + 1} ELSE updates
    /\ missed' = (missed \/ call \notin bound)
    /\ UNCHANGED <<proc, flow, module, mail, mods, asks, asked, hangup, timers, call_id,
                   bound, live>>

Handle ==
    \/ Start \/ Continue \/ Branch \/ Stop \/ Transfer \/ Attempt \/ Exit
    \/ ChannelStatus \/ SanityCheck \/ CallIdUpdate \/ Rebind
ModuleStep == \E p \in Pids : Decide(p) \/ AskAttempt(p) \/ Fail(p) \/ AskStatus(p)

Next ==
    \/ Handle \/ ModuleStep
    \/ SanityTimer \/ StatusResp \/ UpdateArrives \/ ControlTransfer
    \/ HangUp \/ Transferred

Spec == Init /\ [][Next]_vars
(* The executor takes its messages and its timers fire. *)
FairSpec == Spec /\ WF_vars(Handle) /\ WF_vars(SanityTimer)

-----------------------------------------------------------------------------
(* Types. *)
Messages ==
    [t : {"stop", "transfer", "exit"}, by : Pids]
    \cup [t : {"continue", "attempt"}, key : Keys, by : Pids]
    \cup [t : {"branch"}, flow : Branches, by : Pids]
    \cup [t : {"call_id_update"}, id : CallIds]
    \cup [t : {"rebind"}, rm : CallIds, add : CallIds]
    \cup [t : {"timeout", "channel_status_resp", "call_sanity_check", "transfer"}]

(* The variables have the types of their code: #state{}, and messages the  *)
(* executor has a clause for.                                              *)
TypeOK ==
    /\ proc \in {"up", "normal", "transfer", "insane", "badarg"}
    /\ flow \in Nodes /\ module \in Pids \cup {None}
    /\ status \in {"sane", "testing"} /\ call_id \in CallIds
    /\ mail \in Seq(Messages)
    /\ timer \in {"running", "fired"} /\ strays \in 0 .. MaxStrays
    /\ bound \subseteq CallIds
    /\ mods \in [Pids -> {"none", "run", "wait"}] /\ asks \in 0 .. MaxAsks
    /\ call \in CallIds /\ live \in BOOLEAN
    /\ updates \subseteq CallIds /\ asked \subseteq {"exe", "module"}
    /\ hangup \subseteq CallIds /\ missed \in BOOLEAN

Undecided == {p \in Pids : Alive(p)}
(* A message that moves the flow: the start, a decision, the failure of    *)
(* the module.                                                             *)
Moves(msg) ==
    \/ msg.t \in {"timeout", "continue", "branch", "stop"}
    \/ msg.t = "transfer" /\ msg # Msg("transfer")
    \/ msg.t = "exit" /\ msg.by = module
Movers == {i \in 1 .. Len(mail) : Moves(mail[i])}

(* The flow is in one hand: either the executor's present module is still  *)
(* to decide, or exactly one message that moves the flow is in the         *)
(* mailbox.  No node is run twice or skipped and no flow stands still      *)
(* with nobody to move it, also when a module fails in the middle of an    *)
(* attempt that then succeeds (cf_exe.erl:208-222, 286-301).               *)
OneDecider ==
    proc = "up" =>
        \/ Undecided = {module} /\ Movers = {}
        \/ Undecided = {} /\ \E i \in Movers : Movers = {i}

By(what, arg) == [what |-> what, arg |-> arg]

Mover  == mail[CHOOSE i \in 1 .. Len(mail) : Moves(mail[i])]
Tried  == mail[CHOOSE i \in 1 .. Len(mail) : mail[i].t = "attempt"]
Trying == \E i \in 1 .. Len(mail) : mail[i].t = "attempt"

(* What a message that moves the flow asks for. *)
Meant(x) ==
    CASE x.t = "timeout"  -> By("start", Undefined)
      [] x.t = "continue" -> By("continue", x.key)
      [] x.t = "branch"   -> By("branch", x.flow)
      [] x.t = "exit"     -> By("failed", Undefined)
      [] OTHER            -> By(x.t, Undefined)

(* In whose hand the flow is: its module's, that of a module in the middle *)
(* of an attempt, or of the message that moves it.                         *)
Handed ==
    IF proc # "up" THEN By("over", Undefined)
    ELSE IF module # None /\ Alive(module) THEN
        IF mods[module] = "run" THEN By("module", Undefined) ELSE By("attempt", Tried.key)
    ELSE IF Trying THEN By("given up", Tried.key)
    ELSE Meant(Mover)

Walk == INSTANCE FlowWalk WITH ended <- proc, at <- flow, hand <- Handed

(* The executor walks the flow as its author was promised, although what    *)
(* its module decides, tries or dies of reaches it between timers, answers, *)
(* updates and other transfers (cf_exe.erl:208-301).                        *)
ImplementsWalk == Walk!WalkSpec

(* A decision or an attempt names no node, it is applied to the one the    *)
(* executor stands at, which is the one its module was started for: nobody *)
(* has moved the flow in between (cf_exe.erl:208-258).                     *)
DecidedHere ==
    \A i \in 1 .. Len(mail) :
        mail[i].t \in {"continue", "branch", "stop", "attempt"} => mail[i].by = module

(* No module outlives the executor: the end with reason normal, which      *)
(* leaves linked processes alone, comes only when there is none            *)
(* (cf_exe.erl:240-253).                                                   *)
NoOrphans == proc # "up" => Undecided = {}

(* The executor follows the id of its call through transfers, unless an    *)
(* update was published before it was bound to the id it replaces: it has  *)
(* the id and is bound to it, or what will tell it is on its way           *)
(* (cf_exe.erl:264-272).                                                   *)
FollowsItsCall ==
    proc = "up" /\ ~missed =>
        \/ Updating
        \/ /\ call_id = call
           /\ \/ call \in bound
              \/ \E i \in 1 .. Len(mail) : mail[i].t = "rebind" /\ mail[i].add = call

(* An executor that ends without having given the call away hangs up its   *)
(* call, by the id it has then, whatever it ends of; one that gave it away *)
(* does not (cf_exe.erl:368-379).                                          *)
HangsUpItsCall ==
    /\ proc \notin {"up", "transfer"} /\ ~missed => call \in hangup
    /\ proc = "transfer" => hangup = {}

(* The next check of the call is always coming: its timer runs, or the     *)
(* check is in the mailbox, whatever stray checks and late answers come in *)
(* between (cf_exe.erl:259-263, 302-318).                                  *)
CheckIsComing ==
    proc = "up" =>
        timer = "running" \/ \E i \in 1 .. Len(mail) : mail[i] = Msg("call_sanity_check")

(* A call that is gone does not leave an executor behind, even if its      *)
(* module never decides and the hangup was never heard of: the sanity      *)
(* checks end it, in spite of late answers and stray timers.               *)
GoneCallEnds == ~live ~> proc # "up"
=============================================================================
