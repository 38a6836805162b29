------------------------ MODULE AmqpConnectionProofs ------------------------
(***************************************************************************)
(* Theorems of AmqpConnection: its variables keep their types, there is    *)
(* never more than one live connection, a listener that does not consume   *)
(* tries again, and a queue that is consumed from has its bindings or is   *)
(* given up, for every MaxFailures and whether or not the broker closes    *)
(* channels.                                                               *)
(***************************************************************************)
EXTENDS AmqpConnection, TLAPS

\* Only the connection the manager knows of can be live, and it is the last one
\* made; each connection but a live one has cost a failure, which is why there
\* is a number left for the next.
OneInv ==
  /\ OneConnection
  /\ conn_ref \in {0, last} /\ handler \in {0, conn_ref}
  /\ last <= failures + (IF conn[last] = "alive" THEN 1 ELSE 0)

-----------------------------------------------------------------------------
(* What a step does to an entry of the host, and to a mailbox.             *)

LEMMA EntryTypes ==
  /\ NoEntry \in Entries /\ NewChannel \in Entries
  /\ [chan |-> "alive", tag |-> "tagged"] \in Entries
  /\ \A e \in Entries : Died(e) \in Entries
BY DEF Entries, Died, NoEntry, NewChannel

LEMMA MailboxTypes ==
  ASSUME NEW box \in Seq(Messages)
  PROVE  /\ \A m \in Messages : Append(box, m) \in Seq(Messages)
         /\ box # <<>> => Tail(box) \in Seq(Messages)
<1> QED OBVIOUS

LEMMA ChannelsDieTypes ==
  ASSUME TypeOK, NEW S, ChannelsDie(S)
  PROVE  /\ consumers' \in [Links -> Entries]
         /\ queue' \in QueueStates /\ bound' \in BOOLEAN /\ source' \in 0..(MaxFailures + 1)
<1>1. consumers' \in [Links -> Entries]
  <2>1. \A k \in Links : consumers[k] \in Entries BY DEF TypeOK
  <2>2. \A k \in Links : Died(consumers[k]) \in Entries BY <2>1, EntryTypes
  <2> QED BY <2>1, <2>2 DEF ChannelsDie
<1>2. CASE source \in S
  <2>1. source' \in 0..(MaxFailures + 1)
    BY <1>2, FailuresAssumption DEF ChannelsDie, FailuresAssumption
  <2> QED BY <1>1, <1>2, <2>1 DEF ChannelsDie, QueueStates
<1>3. CASE source \notin S
  BY <1>1, <1>3 DEF ChannelsDie, TypeOK, queueVars
<1> QED BY <1>2, <1>3

LEMMA HostEndsTypes ==
  ASSUME TypeOK, NEW n \in Links, NEW how \in Gone, NEW box \in Seq(Messages),
         HostEnds(n, how, box)
  PROVE  /\ host' \in [Links -> HostStates]
         /\ consumers' \in [Links -> Entries]
         /\ mailbox' \in Seq(Messages)
<1>1. host' \in [Links -> HostStates] BY DEF HostEnds, TypeOK, HostStates
<1>2. consumers' \in [Links -> Entries] BY EntryTypes DEF HostEnds, TypeOK
<1>3. Append(box, "down") \in Seq(Messages) BY MailboxTypes DEF Messages
<1> QED BY <1>1, <1>2, <1>3 DEF HostEnds

-----------------------------------------------------------------------------
(* One lemma per component: its steps keep the invariant.                  *)

\* The steps of the broker end connections and channels.
LEMMA BrokerStep ==
  ASSUME TypeOK, OneInv, Broker PROVE TypeOK' /\ OneInv'
<1> USE FailuresAssumption
    DEF FailuresAssumption, OneInv, Links, mgrVars, linkVars, brokerVars, listenerVars, queueVars,
        timerVars
<1>1. ASSUME NEW n \in Links, Disconnect(n) PROVE TypeOK' /\ OneInv'
  <2>0. /\ consumers' \in [Links -> Entries]
        /\ queue' \in QueueStates /\ bound' \in BOOLEAN /\ source' \in 0..(MaxFailures + 1)
    BY <1>1, ChannelsDieTypes DEF Disconnect
  <2>1. TypeOK' BY <1>1, <2>0, FailuresAssumption DEF Disconnect, Failure, TypeOK
  <2>2. OneInv' BY <1>1 DEF Disconnect, Failure, OneConnection, TypeOK
  <2> QED BY <2>1, <2>2
<1>2. CASE BrokerDown
  <2>1. consumers' \in [Links -> Entries]
    <3>1. \A k \in Links : Died(consumers[k]) \in Entries BY EntryTypes DEF TypeOK
    <3> QED BY <1>2, <3>1 DEF BrokerDown
  <2>3. queue' \in QueueStates /\ fresh' \in QueueStates
    BY <1>2 DEF BrokerDown, TypeOK, Lost, QueueStates
  <2>4. conn' \in [Links -> {"none", "alive", "dead"}]
    BY <1>2 DEF BrokerDown, TypeOK
  <2>5. bound' \in BOOLEAN /\ broker_up' \in BOOLEAN
    BY <1>2, Zenon DEF BrokerDown
  <2>6. source' \in 0..(MaxFailures + 1) /\ failures' \in 0..MaxFailures
    BY <1>2 DEF BrokerDown, Failure, TypeOK
  <2>7. UNCHANGED <<mgrVars, host, alive, is_consuming, mailbox, timerVars>>
    BY <1>2 DEF BrokerDown
  <2>8. TypeOK'
    BY <2>1, <2>3, <2>4, <2>5, <2>6, <2>7 DEF TypeOK
  <2>2. OneInv' BY <1>2 DEF BrokerDown, Failure, OneConnection, TypeOK
  <2> QED BY <2>8, <2>2
<1>3. CASE BrokerUp
  BY <1>3 DEF BrokerUp, OneConnection, TypeOK
<1>4. ASSUME NEW n \in Links, ChannelFails(n) PROVE TypeOK' /\ OneInv'
  <2>0. /\ consumers' \in [Links -> Entries]
        /\ queue' \in QueueStates /\ bound' \in BOOLEAN /\ source' \in 0..(MaxFailures + 1)
    BY <1>4, ChannelsDieTypes DEF ChannelFails
  <2>1. TypeOK' BY <1>4, <2>0, FailuresAssumption DEF ChannelFails, Failure, TypeOK
  <2>2. OneInv' BY <1>4 DEF ChannelFails, Failure, OneConnection, TypeOK
  <2> QED BY <2>1, <2>2
<1> QED BY <1>1, <1>2, <1>3, <1>4 DEF Broker

\* The manager makes a connection only when it has none.
LEMMA ManagerStep ==
  ASSUME TypeOK, OneInv, Manager PROVE TypeOK' /\ OneInv'
<1> USE FailuresAssumption
    DEF FailuresAssumption, OneInv, OneConnection, TypeOK, Links, HostStates, Gone, mgrVars,
        linkVars, brokerVars, listenerVars, queueVars, timerVars
<1>1. CASE MgrConnDown BY <1>1 DEF MgrConnDown
<1>2. CASE MgrHostDown BY <1>2 DEF MgrHostDown
<1>3. CASE MgrReconnect
  <2>1. CASE conn_ref # 0 BY <1>3, <2>1 DEF MgrReconnect
  <2>2. CASE conn_ref = 0 /\ Connect
    <3>1. conn[last] # "alive" /\ last <= MaxFailures BY <2>2
    <3>2. TypeOK' BY <1>3, <2>2, <3>1 DEF MgrReconnect, Connect
    <3>3. OneInv' BY <1>3, <2>2, <3>1 DEF MgrReconnect, Connect
    <3> QED BY <3>2, <3>3
  <2> QED BY <1>3, <2>1, <2>2 DEF MgrReconnect
<1> QED BY <1>1, <1>2, <1>3 DEF Manager

\* A host leaves the manager and the connection alone.
LEMMA HostStep ==
  ASSUME TypeOK, OneInv, NEW n \in Links, Host(n) PROVE TypeOK' /\ OneInv'
<1> USE FailuresAssumption, EntryTypes, MailboxTypes
    DEF FailuresAssumption, OneInv, OneConnection, TypeOK, Links, QueueStates, HostStates, Gone, Messages,
        mgrVars, linkVars, brokerVars, listenerVars, queueVars, timerVars
<1>1. CASE HostInit(n) BY <1>1 DEF HostInit
<1>2. CASE HostConnDown(n)
  <2>1. /\ host' \in [Links -> HostStates] /\ consumers' \in [Links -> Entries]
        /\ mailbox' \in Seq(Messages)
    BY <1>2, HostEndsTypes DEF HostConnDown
  <2> QED BY <1>2, <2>1 DEF HostConnDown
<1>3. CASE HostChannelDown(n) BY <1>3 DEF HostChannelDown
<1>4. CASE HostConsumerDown(n)
  <2>1. consumers' \in [Links -> Entries] BY <1>4 DEF HostConsumerDown
  <2>2. queue' \in QueueStates /\ source' \in 0..(MaxFailures + 1)
    BY <1>4 DEF HostConsumerDown
  <2>3. bound' \in BOOLEAN
    <3>1. bound' = FALSE \/ bound' = bound
      BY <1>4, Zenon DEF HostConsumerDown
    <3> QED BY <3>1
  <2> QED BY <1>4, <2>1, <2>2, <2>3 DEF HostConsumerDown
<1>5. CASE HostCrashes(n)
  <2>1. /\ host' \in [Links -> HostStates] /\ consumers' \in [Links -> Entries]
        /\ mailbox' \in Seq(Messages)
    BY <1>5, HostEndsTypes DEF HostCrashes
  <2> QED BY <1>5, <2>1 DEF HostCrashes
<1> QED BY <1>1, <1>2, <1>3, <1>4, <1>5 DEF Host

LEMMA TimersStep ==
  ASSUME TypeOK, OneInv, Timers PROVE TypeOK' /\ OneInv'
<1> USE MailboxTypes
    DEF OneInv, OneConnection, TypeOK, Links, Messages, mgrVars, linkVars, brokerVars,
        listenerVars, queueVars, timerVars
<1>1. CASE CheckTimer BY <1>1 DEF CheckTimer
<1>2. CASE WaitTimer BY <1>2 DEF WaitTimer
<1>3. CASE Binder BY <1>3 DEF Binder
<1> QED BY <1>1, <1>2, <1>3 DEF Timers

\* The listener reaches the manager only to have it forget a dead host.
LEMMA ListenerStep ==
  ASSUME TypeOK, OneInv, Listener PROVE TypeOK' /\ OneInv'
<1> DEFINE Calls == /\ host' \in [Links -> HostStates] /\ consumers' \in [Links -> Entries]
                    /\ mailbox' \in Seq(Messages)
<1> USE FailuresAssumption
    DEF FailuresAssumption, Links, mgrVars, linkVars, brokerVars, queueVars, timerVars
<1>h. Available => handler \in Links BY DEF Available, TypeOK
<1>r. ASSUME NEW box \in Seq(Messages), Refused(box) PROVE Calls
  BY <1>r DEF Refused, TypeOK
<1>u. ASSUME NEW box \in Seq(Messages), Unheard(box) PROVE Calls
  <2>1. CASE host' = [host EXCEPT ![handler] = "stuck"] /\ mailbox' = box /\ UNCHANGED consumers
    BY <1>h, <1>u, <2>1 DEF Unheard, TypeOK, HostStates
  <2>2. CASE mailbox' = box /\ UNCHANGED <<host, consumers>>
    BY <2>2 DEF TypeOK
  <2>3. CASE HostEnds(handler, "crashed", box)
    BY <1>h, <1>u, <2>3, HostEndsTypes DEF Unheard, Gone
  <2> QED BY <1>u, <2>1, <2>2, <2>3 DEF Unheard
<1>c. Available => Channel \in Entries /\ Died(Channel) \in Entries
  BY <1>h, EntryTypes DEF Channel, TypeOK
<1>s. ASSUME NEW e \in Entries, Served, Stored(e)
      PROVE host' \in [Links -> HostStates] /\ consumers' \in [Links -> Entries]
  BY <1>h, <1>s DEF Served, Stored, TypeOK
<1>e. mailbox # <<>> => Rest \in Seq(Messages) BY MailboxTypes DEF Rest, TypeOK
<1>q. NoQueue => /\ queue' \in QueueStates /\ bound' \in BOOLEAN
                 /\ source' \in 0..(MaxFailures + 1)
                 /\ is_consuming' \in BOOLEAN /\ waits' \in Nat
  <2> SUFFICES ASSUME NoQueue
               PROVE  /\ queue' \in QueueStates /\ bound' \in BOOLEAN
                      /\ source' \in 0..(MaxFailures + 1)
                      /\ is_consuming' \in BOOLEAN /\ waits' \in Nat
    OBVIOUS
  <2>1. queue' \in QueueStates BY DEF NoQueue, QueueStates
  <2>2. bound' \in BOOLEAN /\ is_consuming' \in BOOLEAN BY Zenon DEF NoQueue
  <2>3. source' \in 0..(MaxFailures + 1) /\ waits' \in Nat BY DEF NoQueue, TypeOK
  <2> QED BY <2>1, <2>2, <2>3
<1>o. "exists" \in QueueStates /\ "none" \in QueueStates BY DEF QueueStates
<1>1. CASE HostDownMsg
  <2>1. Calls
    <3>1. CASE mailbox' = Rest /\ UNCHANGED <<host, consumers>>
      BY <1>1, <1>e, <3>1 DEF HostDownMsg, Handles, TypeOK
    <3>2. CASE Refused(Rest) \/ Unheard(Rest)
      BY <1>1, <1>e, <1>r, <1>u, <3>2 DEF HostDownMsg, Handles
    <3>3. CASE Served /\ Stored(Channel) /\ mailbox' = Rest
      BY <1>1, <1>e, <1>c, <1>s, <3>3 DEF HostDownMsg, Handles, Served
    <3> QED BY <1>1, <3>1, <3>2, <3>3 DEF HostDownMsg
  <2>2. /\ queue' \in QueueStates /\ bound' \in BOOLEAN /\ source' \in 0..(MaxFailures + 1)
        /\ is_consuming' \in BOOLEAN /\ waits' \in Nat
    <3>1. CASE NoQueue
      BY <1>q, <3>1
    <3>2. CASE UNCHANGED <<queueVars, is_consuming, waits>>
      BY <3>2 DEF TypeOK
    <3> QED BY <1>1, <3>1, <3>2 DEF HostDownMsg
  <2>3. fresh' \in QueueStates /\ handler' \in {0, handler}
    BY <1>1, <1>o DEF HostDownMsg, TypeOK
  <2>4. UNCHANGED <<conn_ref, reconnects, last, conn, brokerVars, alive, checks, binders>>
    BY <1>1 DEF HostDownMsg
  <2> QED BY <2>1, <2>2, <2>3, <2>4 DEF TypeOK, OneInv, OneConnection
<1>2. CASE Consume
  <2>1. Calls /\ source' \in 0..(MaxFailures + 1)
    <3>1. CASE Served /\ Stored([chan |-> "alive", tag |-> "tagged"])
               /\ source' = handler /\ mailbox' = Append(mailbox, "ok")
      BY <1>s, <3>1, EntryTypes, MailboxTypes DEF TypeOK, Messages
    <3>2. CASE Served /\ Stored(Died(consumers[handler])) /\ source' = 0 /\ UNCHANGED mailbox
      BY <1>h, <1>s, <3>2, EntryTypes DEF TypeOK, Served
    <3>3. CASE UNCHANGED <<host, consumers, mailbox>> /\ source' = 0
      BY <3>3 DEF TypeOK
    <3>4. CASE Refused(mailbox) /\ source' = 0
      BY <1>r, <3>4 DEF TypeOK
    <3>5. CASE Unheard(mailbox) /\ UNCHANGED queueVars
      BY <1>u, <3>5 DEF TypeOK
    <3> QED BY <1>2, <3>1, <3>2, <3>3, <3>4, <3>5 DEF Consume, Subscribed
  <2>2. queue' \in QueueStates /\ fresh' \in QueueStates
    BY <1>2, <1>o DEF Consume, TypeOK
  <2>5. bound' \in BOOLEAN /\ is_consuming' \in BOOLEAN /\ alive' \in BOOLEAN
    <3>1. TypeOK => bound \in BOOLEAN /\ is_consuming \in BOOLEAN /\ alive \in BOOLEAN
      BY DEF TypeOK
    <3>2. \/ bound' = FALSE /\ is_consuming' = FALSE /\ UNCHANGED alive
          \/ alive' = FALSE /\ UNCHANGED <<bound, is_consuming>>
      BY <1>2, Zenon DEF Consume, queueVars
    <3> QED BY <3>1, <3>2, Zenon
  <2>3. checks' \in Nat /\ binders' \in Nat
    <3>1. checks' \in {checks, checks + 1} /\ binders' \in {binders, binders + 1}
      BY <1>2 DEF Consume
    <3> QED BY <3>1 DEF TypeOK
  <2>4. UNCHANGED <<mgrVars, conn, brokerVars, waits>>
    BY <1>2 DEF Consume
  <2> QED BY <2>1, <2>2, <2>3, <2>4, <2>5 DEF TypeOK, OneInv, OneConnection
<1>3. CASE AddBinding
  <2>1. Calls
    <3>1. CASE Served /\ Stored(Channel) /\ mailbox' = Rest
      BY <1>3, <1>e, <1>c, <1>s, <3>1 DEF AddBinding, Handles, Served
    <3>2. CASE Served /\ Stored(Died(Channel)) /\ mailbox' = Rest
      BY <1>3, <1>e, <1>c, <1>s, <3>2 DEF AddBinding, Handles, Served
    <3>3. CASE Refused(Rest) \/ Unheard(Rest)
      BY <1>3, <1>e, <1>r, <1>u, <3>3 DEF AddBinding, Handles
    <3> QED BY <1>3, <3>1, <3>2, <3>3 DEF AddBinding
  <2> QED BY <1>3, <2>1 DEF AddBinding, TypeOK, OneInv, OneConnection
<1>4. CASE CheckMsg
  BY <1>4, <1>e DEF CheckMsg, Handles, TypeOK, OneInv, OneConnection
<1>5. CASE LostMsg
  BY <1>5, <1>e, <1>q DEF LostMsg, Handles, TypeOK, OneInv, OneConnection
<1>6. CASE ConsumeOk
  BY <1>6, <1>e DEF ConsumeOk, Handles, TypeOK, OneInv, OneConnection
<1> QED BY <1>1, <1>2, <1>3, <1>4, <1>5, <1>6 DEF Listener

-----------------------------------------------------------------------------
(* The theorems.                                                           *)

LEMMA InitInv == Init => TypeOK /\ OneInv
<1> SUFFICES ASSUME Init PROVE TypeOK /\ OneInv
  OBVIOUS
<1>1. 1 \in Links /\ Links \subseteq 0..(MaxFailures + 1) /\ 0 \in 0..MaxFailures
      /\ 0 \in 0..(MaxFailures + 1)
  BY FailuresAssumption DEF FailuresAssumption, Links
<1>2. [chan |-> "alive", tag |-> "tagged"] \in Entries /\ NoEntry \in Entries
  BY EntryTypes
<1>3. consumers \in [Links -> Entries]
  BY <1>2 DEF Init
<1>4. host \in [Links -> HostStates] /\ conn \in [Links -> {"none", "alive", "dead"}]
  BY DEF Init, HostStates
<1>5. mailbox \in Seq(Messages)
  BY DEF Init, Messages
<1>6. TypeOK
  BY <1>1, <1>3, <1>4, <1>5 DEF Init, TypeOK, QueueStates
<1>7. OneInv
  BY <1>1 DEF Init, OneInv, OneConnection
<1> QED BY <1>6, <1>7

LEMMA NextInv ==
  ASSUME TypeOK, OneInv, [Next]_vars PROVE TypeOK' /\ OneInv'
<1>1. CASE UNCHANGED vars
  BY <1>1 DEF vars, mgrVars, linkVars, brokerVars, listenerVars, queueVars, timerVars, TypeOK,
              OneInv, OneConnection
<1> QED BY <1>1, BrokerStep, ManagerStep, HostStep, TimersStep, ListenerStep DEF Next

\* The manager, the hosts, the listener and its mailbox keep their types; the
\* manager never makes more connections than failures allow for (amqp_mgr.erl).
THEOREM TypesHold == Spec => []TypeOK
<1> QED BY InitInv, NextInv, PTL DEF Spec

\* There is never more than one live connection to the broker, however the
\* notices and the retry timers interleave (amqp_mgr.erl handle_info).
THEOREM AtMostOneConnection == Spec => []OneConnection
<1>1. OneInv => OneConnection BY DEF OneInv
<1> QED BY <1>1, InitInv, NextInv, PTL DEF Spec

-----------------------------------------------------------------------------
(* The listener keeps trying.                                              *)

\* A message in the box makes the listener look again.
Wakes(box) == \E i \in DOMAIN box : box[i] # "add"
Timed == checks + waits > 0 \/ fresh # "none"

LEMMA AppendWakes ==
  ASSUME NEW box \in Seq(Messages), NEW m \in Messages, Wakes(box) \/ m # "add"
  PROVE  Wakes(Append(box, m))
<1> DEFINE n == Len(box) + 1
           new == Append(box, m)
<1>1. DOMAIN new = 1..n /\ new[n] = m /\ n \in Nat \ {0}
      /\ \A i \in DOMAIN box : i \in 1..n /\ new[i] = box[i]
  OBVIOUS
<1>2. CASE Wakes(box) BY <1>1, <1>2 DEF Wakes
<1>3. CASE m # "add" BY <1>1, <1>3 DEF Wakes
<1> QED BY <1>2, <1>3

\* A binding that is handled is not what woke the listener.
LEMMA TailWakes ==
  ASSUME NEW box \in Seq(Messages), box # <<>>, Head(box) = "add", Wakes(box)
  PROVE  Wakes(Tail(box))
<1>1. PICK i \in DOMAIN box : box[i] # "add" BY DEF Wakes
<1>2. i # 1 /\ i \in 1..Len(box) /\ Len(box) \in Nat /\ Tail(box) \in Seq(Messages)
      /\ Len(Tail(box)) = Len(box) - 1
  BY <1>1
<1>3. i - 1 \in DOMAIN Tail(box) /\ Tail(box)[i - 1] = box[i] BY <1>2
<1> QED BY <1>1, <1>3 DEF Wakes

\* A step that at most adds to the mailbox.
LEMMA MoreMail ==
  ASSUME TypeOK, KeepsTrying, UNCHANGED <<alive, is_consuming, checks, waits>>,
         fresh' = fresh \/ fresh' = Lost(fresh),
         NEW m \in Messages, mailbox' = mailbox \/ mailbox' = Append(mailbox, m)
  PROVE  KeepsTrying'
<1>1. fresh # "none" => fresh' # "none" BY DEF Lost
<1>2. Wakes(mailbox) => Wakes(mailbox') BY AppendWakes DEF TypeOK
<1>3. alive /\ ~is_consuming => Timed \/ Wakes(mailbox) BY DEF KeepsTrying, Timed, Wakes
<1> QED BY <1>1, <1>2, <1>3 DEF KeepsTrying, Timed, Wakes

\* What a call to the host leaves in the mailbox.
LEMMA Unanswered ==
  ASSUME NEW box, Refused(box) \/ Unheard(box)
  PROVE  mailbox' = box \/ mailbox' = Append(box, "down")
BY DEF Refused, Unheard, HostEnds

LEMMA TryingNext ==
  ASSUME TypeOK, KeepsTrying, [Next]_vars PROVE KeepsTrying'
<1> USE DEF mgrVars, linkVars, brokerVars, listenerVars, queueVars, timerVars
<1>0. /\ "add" \in Messages /\ "down" \in Messages /\ "lost" \in Messages /\ "check" \in Messages
      /\ mailbox \in Seq(Messages) /\ checks \in Nat /\ waits \in Nat
  BY DEF Messages, TypeOK
<1>1. CASE Broker
  <2>1. /\ UNCHANGED <<alive, is_consuming, checks, waits, mailbox>>
        /\ fresh' = fresh \/ fresh' = Lost(fresh)
    BY <1>1 DEF Broker, Disconnect, BrokerDown, BrokerUp, ChannelFails
  <2> QED BY <2>1, <1>0, MoreMail
<1>2. CASE Manager
  BY <1>0, <1>2, MoreMail DEF Manager, MgrConnDown, MgrHostDown, MgrReconnect
<1>3. ASSUME NEW n \in Links, Host(n) PROVE KeepsTrying'
  <2>1. CASE HostInit(n) BY <1>0, <2>1, MoreMail DEF HostInit
  <2>2. CASE HostConnDown(n)
    <3>1. mailbox' = mailbox \/ mailbox' = Append(mailbox, "down")
      BY <2>2 DEF HostConnDown, HostEnds
    <3> QED BY <1>0, <2>2, <3>1, MoreMail DEF HostConnDown
  <2>3. CASE HostChannelDown(n)
    <3>1. mailbox' = mailbox \/ mailbox' = Append(mailbox, "lost")
      BY <2>3 DEF HostChannelDown
    <3> QED BY <1>0, <2>3, <3>1, MoreMail DEF HostChannelDown
  <2>4. CASE HostConsumerDown(n) BY <1>0, <2>4, MoreMail DEF HostConsumerDown
  <2>5. CASE HostCrashes(n)
    <3>1. mailbox' = mailbox \/ mailbox' = Append(mailbox, "down")
      BY <2>5 DEF HostCrashes, HostEnds
    <3> QED BY <1>0, <2>5, <3>1, MoreMail DEF HostCrashes
  <2> QED BY <1>3, <2>1, <2>2, <2>3, <2>4, <2>5 DEF Host
<1>4. CASE CheckTimer \/ WaitTimer
  <2>1. mailbox' = Append(mailbox, "check") \/ mailbox' = Append(mailbox, "down")
    BY <1>4 DEF CheckTimer, WaitTimer
  <2>2. Wakes(mailbox') BY <1>0, <2>1, AppendWakes
  <2> QED BY <2>2 DEF KeepsTrying, Wakes
<1>5. CASE Binder BY <1>0, <1>5, MoreMail DEF Binder
<1>6. CASE HostDownMsg
  <2>1. NoQueue \/ fresh' = "exists" BY <1>6 DEF HostDownMsg
  <2>2. CASE NoQueue
    <3>1. waits' = waits + 1 /\ checks' = checks BY <1>6, <2>2 DEF NoQueue, HostDownMsg
    <3>2. checks' + waits' > 0 BY <1>0, <3>1
    <3> QED BY <3>2 DEF KeepsTrying
  <2>3. CASE fresh' = "exists" BY <2>3 DEF KeepsTrying
  <2> QED BY <2>1, <2>2, <2>3
<1>7. CASE Consume
  <2>1. ~alive' \/ (checks' = checks + 1 /\ waits' = waits) BY <1>7 DEF Consume
  <2>2. ~alive' \/ checks' + waits' > 0 BY <1>0, <2>1
  <2> QED BY <2>2 DEF KeepsTrying
<1>8. CASE AddBinding
  <2>1. /\ UNCHANGED <<alive, is_consuming, fresh, checks, waits>>
        /\ mailbox # <<>> /\ Head(mailbox) = "add"
    BY <1>8 DEF AddBinding, Handles
  <2>2. mailbox' = Rest \/ mailbox' = Append(Rest, "down")
    BY <1>8, Unanswered DEF AddBinding
  <2>3. Rest \in Seq(Messages) BY <1>0, <2>1, MailboxTypes DEF Rest
  <2>4. Wakes(mailbox) => Wakes(Rest) BY <1>0, <2>1, TailWakes DEF Rest
  <2>5. Wakes(mailbox) => Wakes(mailbox') BY <1>0, <2>2, <2>3, <2>4, AppendWakes
  <2>6. alive /\ ~is_consuming => Timed \/ Wakes(mailbox) BY DEF KeepsTrying, Timed, Wakes
  <2> QED BY <2>1, <2>5, <2>6 DEF KeepsTrying, Timed, Wakes
<1>9. CASE CheckMsg
  <2>1. UNCHANGED <<is_consuming, checks>> /\ waits' = IF is_consuming THEN waits ELSE waits + 1
    BY <1>9 DEF CheckMsg
  <2>2. is_consuming' \/ checks' + waits' > 0 BY <1>0, <2>1
  <2> QED BY <2>2 DEF KeepsTrying
<1>10. CASE LostMsg
  <2>1. waits' = waits + 1 /\ checks' = checks BY <1>10 DEF LostMsg, NoQueue
  <2>2. checks' + waits' > 0 BY <1>0, <2>1
  <2> QED BY <2>2 DEF KeepsTrying
<1>11. CASE ConsumeOk BY <1>11 DEF ConsumeOk, KeepsTrying
<1>12. CASE UNCHANGED vars BY <1>12 DEF vars, KeepsTrying
<1> QED BY <1>1, <1>2, <1>3, <1>4, <1>5, <1>6, <1>7, <1>8, <1>9, <1>10, <1>11, <1>12
        DEF Next, Timers, Listener

\* Whatever fails, and in whatever order its notices and timers are handled, a
\* listener that does not consume is going to try again (gen_listener.erl).
THEOREM TriesAgain == Spec => []KeepsTrying
<1>1. Init => KeepsTrying BY DEF Init, KeepsTrying
<1> QED BY <1>1, InitInv, NextInv, TryingNext, PTL DEF Spec

-----------------------------------------------------------------------------
(* The bindings follow the queue.                                          *)

\* The queue is consumed from on a live connection, the last one made.
Delivers ==
  /\ conn[source] = "alive" /\ handler \in {0, source} /\ queue = "exists"

\* The host the manager knows serves the queue, so no request of the listener is
\* refused, and what is missing of its bindings is on its way.
Tended ==
  /\ handler = source /\ host[source] = "up"
  /\ consumers[source] = [chan |-> "alive", tag |-> "tagged"]
  /\ bound \/ binders > 0 \/ Coming("add")

\* The host crashed, and the listener has its notice.
Lapsed == host[source] = "crashed" /\ Coming("down")

BindingsInv == source # 0 => Delivers /\ (Tended \/ Lapsed)

\* On a host that serves it the listener is heard, unless another one's request
\* ends the host first; a host that crashed serves nothing.
LEMMA HeardOrCrashed ==
  ASSUME BindingsInv, source # 0, source \in Links, NEW box
  PROVE  /\ Tended => ~Refused(box) /\ Channel = consumers[source]
                       /\ (Unheard(box) => HostEnds(source, "crashed", box))
         /\ Lapsed => ~Available
<1>1. ASSUME Tended
      PROVE  ~Refused(box) /\ Channel = consumers[source]
             /\ (Unheard(box) => HostEnds(source, "crashed", box))
  <2>1. /\ handler = source /\ host[handler] = "up" /\ conn[handler] = "alive"
        /\ consumers[handler] = [chan |-> "alive", tag |-> "tagged"] /\ handler # 0
    BY <1>1 DEF Tended, BindingsInv, Delivers
  <2>2. Available /\ consumers[handler] # NoEntry BY <2>1 DEF Available, Gone, NoEntry
  <2> QED BY <2>1, <2>2 DEF Refused, Unheard, Channel
<1>2. Lapsed => ~Available BY DEF Lapsed, BindingsInv, Delivers, Available, Gone
<1> QED BY <1>1, <1>2

\* A message on its way stays there when more arrives, and when another message
\* is handled.
LEMMA MessageStays ==
  ASSUME NEW box \in Seq(Messages), NEW m \in Messages, NEW k,
         (\E i \in DOMAIN box : box[i] = k) \/ m = k
  PROVE  \E i \in DOMAIN Append(box, m) : Append(box, m)[i] = k
<1> DEFINE n == Len(box) + 1
           new == Append(box, m)
<1>1. DOMAIN new = 1..n /\ new[n] = m /\ n \in Nat \ {0}
      /\ \A i \in DOMAIN box : i \in 1..n /\ new[i] = box[i]
  OBVIOUS
<1>2. CASE \E i \in DOMAIN box : box[i] = k BY <1>1, <1>2
<1>3. CASE m = k BY <1>1, <1>3
<1> QED BY <1>2, <1>3

LEMMA MessageWaits ==
  ASSUME NEW box \in Seq(Messages), NEW k, box # <<>>, Head(box) # k,
         \E i \in DOMAIN box : box[i] = k
  PROVE  \E i \in DOMAIN Tail(box) : Tail(box)[i] = k
<1>1. PICK i \in DOMAIN box : box[i] = k OBVIOUS
<1>2. i # 1 /\ i \in 1..Len(box) /\ Len(box) \in Nat /\ Tail(box) \in Seq(Messages)
      /\ Len(Tail(box)) = Len(box) - 1
  BY <1>1
<1>3. i - 1 \in DOMAIN Tail(box) /\ Tail(box)[i - 1] = box[i] BY <1>2
<1> QED BY <1>1, <1>3

\* A step after which the queue is the one before, with what was on its way.
LEMMA SameQueue ==
  ASSUME TypeOK, BindingsInv,
         source = 0 => source' = 0,
         source # 0 => /\ UNCHANGED queueVars
                       /\ handler' = handler \/ (handler' = 0 /\ Lapsed)
                       /\ host'[source] = host[source] /\ conn'[source] = conn[source]
                       /\ consumers'[source] = consumers[source] \/ Lapsed,
         binders' = binders, NEW m \in Messages,
         \/ mailbox' = mailbox \/ mailbox' = Append(mailbox, m)
         \/ /\ mailbox # <<>> /\ Head(mailbox) # "add" /\ Head(mailbox) # "down"
            /\ mailbox' = Rest
  PROVE  BindingsInv'
<1>1. mailbox \in Seq(Messages) BY DEF TypeOK
<1>2. CASE source = 0 BY <1>2 DEF BindingsInv
<1>3. CASE source # 0
  <2>1. source' = source /\ bound' = bound /\ queue' = queue
    BY <1>3 DEF queueVars
  <2>2. (Coming("add") => Coming("add")') /\ (Coming("down") => Coming("down")')
    <3>1. ASSUME NEW k, k \in {"add", "down"}, Coming(k) PROVE Coming(k)'
      <4>1. CASE mailbox' = mailbox BY <3>1, <4>1 DEF Coming
      <4>2. CASE mailbox' = Append(mailbox, m) BY <1>1, <3>1, <4>2, MessageStays DEF Coming
      <4>3. CASE mailbox # <<>> /\ Head(mailbox) # k /\ mailbox' = Tail(mailbox)
        BY <1>1, <3>1, <4>3, MessageWaits DEF Coming
      <4> QED BY <3>1, <4>1, <4>2, <4>3 DEF Rest
    <3> QED BY <3>1
  <2>3. Delivers' BY <1>3, <2>1 DEF BindingsInv, Delivers
  <2>4. CASE Tended
    <3>1. ~Lapsed BY <2>4 DEF Tended, Lapsed
    <3> QED BY <1>3, <2>1, <2>2, <2>3, <2>4, <3>1 DEF BindingsInv, Tended
  <2>5. CASE Lapsed BY <1>3, <2>1, <2>2, <2>3, <2>5 DEF BindingsInv, Lapsed
  <2> QED BY <1>3, <2>4, <2>5 DEF BindingsInv
<1> QED BY <1>2, <1>3

\* A step in which the host of the queue crashes.
LEMMA HostLapses ==
  ASSUME TypeOK, BindingsInv, source # 0, source \in Links, UNCHANGED queueVars,
         UNCHANGED <<handler, conn>>, Tended, NEW box \in Seq(Messages),
         HostEnds(source, "crashed", box)
  PROVE  BindingsInv'
<1>1. host'[source] = "crashed" BY DEF HostEnds, TypeOK
<1>2. consumers[source] # NoEntry BY DEF Tended, NoEntry
<1>3. mailbox' = Append(box, "down") BY <1>2 DEF HostEnds
<1>4. Coming("down")' BY <1>3, MessageStays DEF Coming, Messages
<1>5. source' = source /\ queue' = queue BY DEF queueVars
<1>6. Delivers' BY <1>5 DEF BindingsInv, Delivers
<1> QED BY <1>1, <1>4, <1>5, <1>6 DEF BindingsInv, Lapsed

LEMMA BindingsNext ==
  ASSUME TypeOK, OneInv, BindingsInv, [Next]_vars PROVE BindingsInv'
<1> USE DEF mgrVars, linkVars, brokerVars, listenerVars, timerVars
<1>0. /\ "add" \in Messages /\ "down" \in Messages /\ "lost" \in Messages /\ "check" \in Messages
      /\ "ok" \in Messages
      /\ mailbox \in Seq(Messages) /\ binders \in Nat
      /\ 0 \notin Links
      /\ consumers \in [Links -> Entries] /\ host \in [Links -> HostStates]
      /\ conn \in [Links -> {"none", "alive", "dead"}]
  BY DEF Messages, TypeOK, Links
<1>m. mailbox \in Seq(Messages) BY <1>0
<1>s. source # 0 => /\ source \in Links /\ source = conn_ref /\ Delivers
                    /\ Tended \/ Lapsed
                    /\ conn[source] = "alive" /\ handler \in {0, source}
  BY FailuresAssumption
     DEF FailuresAssumption, BindingsInv, Delivers, OneInv, OneConnection, TypeOK, Links
<1>t. ASSUME source # 0, Tended
      PROVE  /\ handler = source /\ host[source] = "up"
             /\ consumers[source] = [chan |-> "alive", tag |-> "tagged"]
  BY <1>t DEF Tended
<1>u. Lapsed => host[source] = "crashed"
  BY DEF Lapsed
<1>z. ASSUME source' = 0 PROVE BindingsInv'
  BY <1>z DEF BindingsInv
<1>e. source = 0 \/ Tended \/ Lapsed BY <1>s
<1>1. CASE Broker
  <2>1. ASSUME NEW n \in Links, Disconnect(n) \/ ChannelFails(n) PROVE BindingsInv'
    <3>1. ChannelsDie({n}) /\ UNCHANGED <<handler, host, mailbox, binders>>
      BY <2>1 DEF Disconnect, ChannelFails
    <3>2. CASE source = n BY <1>z, <3>1, <3>2 DEF ChannelsDie
    <3>3. CASE source # n
      <4>1. UNCHANGED queueVars BY <3>1, <3>3 DEF ChannelsDie
      <4>2. source # 0 => consumers'[source] = consumers[source]
        BY <1>s, <3>1, <3>3 DEF ChannelsDie
      <4>3. source # 0 => conn'[source] = conn[source]
        BY <1>0, <1>s, <2>1, <3>3 DEF Disconnect, ChannelFails
      <4>4. source' = source BY <4>1 DEF queueVars
      <4> QED BY <1>0, <3>1, <4>1, <4>2, <4>3, <4>4, SameQueue
    <3> QED BY <3>2, <3>3
  <2>2. CASE BrokerDown BY <1>z, <2>2 DEF BrokerDown
  <2>3. CASE BrokerUp
    <3>1. UNCHANGED queueVars /\ source' = source BY <2>3 DEF BrokerUp, queueVars
    <3> QED BY <1>0, <2>3, <3>1, SameQueue DEF BrokerUp
  <2> QED BY <1>1, <2>1, <2>2, <2>3 DEF Broker
<1>2. CASE Manager
  <2>1. UNCHANGED queueVars /\ source' = source /\ UNCHANGED <<mailbox, binders, consumers>>
    BY <1>2 DEF Manager, MgrConnDown, MgrHostDown, MgrReconnect, queueVars
  <2>2. source # 0 => ~MgrConnDown
    BY <1>s DEF MgrConnDown
  <2>3. CASE MgrHostDown
    <3>1. source # 0 => Lapsed
      BY <1>s, <1>t, <2>3 DEF MgrHostDown, Gone
    <3>2. handler' = 0 /\ UNCHANGED <<conn, host>> BY <2>3 DEF MgrHostDown
    <3> QED BY <1>0, <2>1, <3>1, <3>2, SameQueue
  <2>4. CASE MgrReconnect
    <3>1. source # 0 => conn_ref # 0 BY <1>0, <1>s
    <3>2. source # 0 => UNCHANGED <<handler, conn, host>>
      BY <2>4, <3>1 DEF MgrReconnect
    <3> QED BY <1>0, <2>1, <3>2, SameQueue
  <2>5. CASE source = 0 BY <1>z, <2>1, <2>5
  <2> QED BY <1>2, <2>2, <2>3, <2>4, <2>5 DEF Manager
<1>3. ASSUME NEW n \in Links, Host(n) PROVE BindingsInv'
  <2>0. UNCHANGED <<handler, conn, binders>>
    BY <1>3 DEF Host, HostInit, HostConnDown, HostChannelDown, HostConsumerDown, HostCrashes
  <2>1. CASE HostInit(n)
    <3>1. UNCHANGED queueVars /\ source' = source /\ UNCHANGED <<mailbox, consumers>>
      BY <2>1 DEF HostInit, queueVars
    <3>2. source # 0 => host'[source] = host[source]
      BY <1>0, <1>e, <1>s, <1>t, <1>u, <2>1 DEF HostInit
    <3> QED BY <1>0, <2>0, <3>1, <3>2, SameQueue
  <2>2. CASE HostConnDown(n)
    <3>1. UNCHANGED queueVars /\ source' = source BY <2>2 DEF HostConnDown, queueVars
    <3>2. mailbox' = mailbox \/ mailbox' = Append(mailbox, "down")
      BY <2>2 DEF HostConnDown, HostEnds
    <3>3. source # 0 => host'[source] = host[source] /\ consumers'[source] = consumers[source]
      BY <1>0, <1>s, <2>2 DEF HostConnDown, HostEnds
    <3> QED BY <1>0, <2>0, <3>1, <3>2, <3>3, SameQueue
  <2>3. CASE HostChannelDown(n)
    <3>1. UNCHANGED queueVars /\ source' = source /\ UNCHANGED host
      BY <2>3 DEF HostChannelDown, queueVars
    <3>2. mailbox' = mailbox \/ mailbox' = Append(mailbox, "lost")
      BY <2>3 DEF HostChannelDown
    <3>3. source # 0 => n # source
      BY <1>e, <1>s, <1>t, <1>u, <2>3 DEF HostChannelDown
    <3>4. source # 0 => consumers'[source] = consumers[source]
      BY <1>0, <1>s, <2>3, <3>3 DEF HostChannelDown
    <3> QED BY <1>0, <2>0, <3>1, <3>2, <3>4, SameQueue
  <2>4. CASE HostConsumerDown(n)
    <3>1. CASE source = n BY <1>z, <2>4, <3>1 DEF HostConsumerDown
    <3>2. CASE source # n
      <4>1. UNCHANGED queueVars /\ source' = source /\ UNCHANGED <<host, mailbox>>
        BY <2>4, <3>2 DEF HostConsumerDown, queueVars
      <4>2. source # 0 => consumers'[source] = consumers[source]
        BY <1>0, <1>s, <2>4, <3>2 DEF HostConsumerDown
      <4> QED BY <1>0, <2>0, <4>1, <4>2, SameQueue
    <3> QED BY <3>1, <3>2
  <2>5. CASE HostCrashes(n)
    <3>1. /\ UNCHANGED queueVars /\ source' = source
          /\ host[n] = "up" /\ HostEnds(n, "crashed", mailbox)
      BY <2>5 DEF HostCrashes, queueVars
    <3>2. CASE source = n
      <4>1. source # 0 /\ Tended BY <1>0, <1>e, <1>u, <3>1, <3>2
      <4> QED BY <1>0, <2>0, <3>1, <3>2, <4>1, HostLapses
    <3>3. CASE source # n
      <4>1. source # 0 => host'[source] = host[source] /\ consumers'[source] = consumers[source]
        BY <1>0, <1>s, <3>1, <3>3 DEF HostEnds
      <4>2. mailbox' = mailbox \/ mailbox' = Append(mailbox, "down")
        BY <3>1 DEF HostEnds
      <4> QED BY <1>0, <2>0, <3>1, <4>1, <4>2, SameQueue
    <3> QED BY <3>2, <3>3
  <2> QED BY <1>3, <2>1, <2>2, <2>3, <2>4, <2>5 DEF Host
<1>4. CASE CheckTimer \/ WaitTimer
  <2>1. UNCHANGED queueVars /\ source' = source /\ UNCHANGED <<handler, host, conn, consumers, binders>>
    BY <1>4 DEF CheckTimer, WaitTimer, queueVars
  <2>2. mailbox' = Append(mailbox, "check") \/ mailbox' = Append(mailbox, "down")
    BY <1>4 DEF CheckTimer, WaitTimer
  <2> QED BY <1>0, <2>1, <2>2, SameQueue
<1>5. CASE Binder
  <2>1. UNCHANGED <<handler, host, conn, consumers, queue, source>>
        /\ mailbox' = Append(mailbox, "add")
    BY <1>5 DEF Binder, queueVars
  <2>2. Coming("add")' /\ (Coming("down") => Coming("down")')
    <3>1. ASSUME NEW k, k = "add" \/ Coming(k) PROVE Coming(k)'
      <4>1. "add" \in Messages /\ mailbox' = Append(mailbox, "add") BY <1>0, <2>1
      <4> QED BY <1>m, <3>1, <4>1, MessageStays DEF Coming
    <3> QED BY <3>1
  <2>3. (Tended => Tended') /\ (Lapsed => Lapsed') /\ (Delivers => Delivers')
    BY <2>1, <2>2 DEF Tended, Lapsed, Delivers
  <2> QED BY <2>1, <2>3 DEF BindingsInv
<1>6. CASE HostDownMsg
  <2>1. CASE source' = 0 BY <1>z, <2>1
  <2>2. CASE /\ Served /\ Stored(Channel) /\ mailbox' = Rest
             /\ UNCHANGED <<handler, queueVars>> /\ source # 0
    <3>1. Tended
      BY <1>e, <1>s, <2>2, HeardOrCrashed DEF Served
    <3>2. Channel = consumers[source] /\ handler = source
      BY <1>s, <1>t, <2>2, <3>1, HeardOrCrashed
    <3>3. consumers'[source] = consumers[source] /\ UNCHANGED host
      BY <1>0, <1>s, <2>2, <3>2 DEF Stored, Served
    <3>4. UNCHANGED <<conn, binders>> /\ mailbox # <<>> /\ Head(mailbox) # "add"
      BY <1>6 DEF HostDownMsg, Handles
    <3>5. Coming("add") => Coming("add")'
      <4>1. mailbox' = Tail(mailbox) BY <2>2 DEF Rest
      <4>2. ASSUME NEW k, k # Head(mailbox), Coming(k) PROVE Coming(k)'
        <5>1. mailbox # <<>> BY <3>4
        <5> QED BY <1>m, <4>1, <4>2, <5>1, MessageWaits DEF Coming
      <4> QED BY <3>4, <4>2
    <3>6. source' = source /\ bound' = bound /\ queue' = queue BY <2>2 DEF queueVars
    <3>7. Tended' BY <2>2, <3>1, <3>3, <3>4, <3>5, <3>6 DEF Tended
    <3>8. Delivers' BY <1>s, <2>2, <3>4, <3>6 DEF Delivers
    <3> QED BY <3>7, <3>8 DEF BindingsInv
  <2>3. source' = 0 \/ (Served /\ Stored(Channel) /\ mailbox' = Rest
                        /\ UNCHANGED <<handler, queueVars>> /\ source' = source)
    BY <1>6 DEF HostDownMsg, NoQueue, queueVars
  <2> QED BY <2>1, <2>2, <2>3
<1>7. CASE Consume
  <2>1. CASE source' = 0 BY <1>z, <2>1
  <2>2. CASE /\ Served /\ fresh = "exists" /\ Stored([chan |-> "alive", tag |-> "tagged"])
             /\ source' = handler /\ queue' = fresh /\ binders' = binders + 1
    <3>1. handler \in Links BY <2>2 DEF Served, Available, TypeOK, Links
    <3>2. UNCHANGED <<handler, conn, host>> BY <1>7, <2>2 DEF Consume, Served
    <3>3. consumers'[handler] = [chan |-> "alive", tag |-> "tagged"]
      BY <1>0, <2>2, <3>1 DEF Stored
    <3>4. binders' > 0 BY <1>0, <2>2
    <3>5. Tended' BY <2>2, <3>2, <3>3, <3>4 DEF Tended, Served
    <3>6. Delivers' BY <2>2, <3>2 DEF Delivers, Served
    <3> QED BY <3>5, <3>6 DEF BindingsInv
  <2>3. CASE Unheard(mailbox) /\ UNCHANGED queueVars /\ source' # 0
    <3>1. source # 0 /\ source' = source BY <2>3 DEF queueVars
    <3>2. Tended BY <1>s, <2>3, <3>1, HeardOrCrashed DEF Unheard
    <3>3. HostEnds(source, "crashed", mailbox) BY <1>s, <2>3, <3>1, <3>2, HeardOrCrashed
    <3>4. UNCHANGED <<handler, conn>> BY <1>7 DEF Consume
    <3> QED BY <1>0, <1>s, <2>3, <3>1, <3>2, <3>3, <3>4, HostLapses
  <2> QED BY <1>7, <2>1, <2>2, <2>3 DEF Consume, Subscribed
<1>8. CASE AddBinding
  <2>0. /\ UNCHANGED <<handler, conn, binders>> /\ source' = source
        /\ mailbox # <<>> /\ Head(mailbox) = "add" /\ Rest \in Seq(Messages)
    BY <1>0, <1>8, MailboxTypes DEF AddBinding, queueVars, Handles, Rest
  <2>1. CASE source = 0 BY <1>z, <2>0, <2>1
  <2>2. CASE source # 0 /\ Tended
    <3>1. CASE Unheard(Rest) /\ UNCHANGED queueVars
      <4>1. HostEnds(source, "crashed", Rest) BY <1>s, <2>2, <3>1, HeardOrCrashed
      <4> QED BY <1>s, <2>0, <2>2, <3>1, <4>1, HostLapses
    <3>2. CASE /\ Stored(Channel) /\ UNCHANGED <<host, queue>> /\ bound' = TRUE
      <4>1. Channel = consumers[source] /\ handler = source
        BY <1>s, <1>t, <2>2, HeardOrCrashed
      <4>2. consumers'[source] = consumers[source] BY <1>0, <1>s, <2>2, <3>2, <4>1 DEF Stored
      <4>3. Tended' /\ Delivers'
        BY <1>s, <2>0, <2>2, <3>2, <4>2 DEF Tended, Delivers
      <4> QED BY <4>3 DEF BindingsInv
    <3>3. ~Refused(Rest) /\ queue = "exists"
      BY <1>s, <2>2, HeardOrCrashed DEF Delivers
    <3> QED BY <1>8, <3>1, <3>2, <3>3 DEF AddBinding, Served
  <2>3. CASE source # 0 /\ Lapsed
    <3>1. ~Available BY <1>s, <2>3, HeardOrCrashed
    <3>2. Refused(Rest) /\ UNCHANGED queueVars
      BY <1>8, <3>1 DEF AddBinding, Served, Unheard
    <3>3. mailbox' = Rest /\ UNCHANGED host BY <3>2 DEF Refused
    <3>4. Coming("down")'
      <4>1. mailbox' = Tail(mailbox) /\ Coming("down") BY <2>3, <3>3 DEF Rest, Lapsed
      <4>2. ASSUME NEW k, k # Head(mailbox), Coming(k) PROVE Coming(k)'
        <5>1. mailbox # <<>> /\ mailbox' = Tail(mailbox) BY <2>0, <4>1
        <5> QED BY <1>m, <4>2, <5>1, MessageWaits DEF Coming
      <4> QED BY <2>0, <4>1, <4>2
    <3>5. Lapsed' /\ Delivers'
      BY <1>s, <2>0, <2>3, <3>2, <3>3, <3>4 DEF Lapsed, Delivers, queueVars
    <3> QED BY <3>5 DEF BindingsInv
  <2> QED BY <1>e, <2>1, <2>2, <2>3
<1>9. CASE CheckMsg \/ ConsumeOk
  <2>1. UNCHANGED queueVars /\ source' = source /\ UNCHANGED <<handler, host, conn, consumers, binders>>
        /\ mailbox # <<>> /\ Head(mailbox) # "add" /\ Head(mailbox) # "down"
        /\ mailbox' = Rest
    BY <1>9 DEF CheckMsg, ConsumeOk, Handles, queueVars
  <2> QED BY <1>0, <2>1, SameQueue
<1>10. CASE LostMsg BY <1>z, <1>10 DEF LostMsg, NoQueue
<1>11. CASE UNCHANGED vars
  <2>1. UNCHANGED queueVars /\ source' = source
        /\ UNCHANGED <<handler, host, conn, consumers, binders, mailbox>>
    BY <1>11 DEF vars, queueVars
  <2> QED BY <1>0, <2>1, SameQueue
<1> QED BY <1>1, <1>2, <1>3, <1>4, <1>5, <1>6, <1>7, <1>8, <1>9, <1>10, <1>11
        DEF Next, Timers, Listener

\* A queue the broker delivers from is bound, or going to be, or its host has
\* crashed and the listener is going to give it up, however the failures before
\* it came together (gen_listener.erl, amqp_host.erl).
THEOREM QueuesAreBound == Spec => []BindingsFollow
<1>1. Init => BindingsInv
  <2> SUFFICES ASSUME Init PROVE BindingsInv OBVIOUS
  <2>1. 1 \in Links BY FailuresAssumption DEF FailuresAssumption, Links
  <2>2. Delivers /\ Tended BY <2>1 DEF Init, Delivers, Tended
  <2> QED BY <2>2 DEF BindingsInv
<1>2. BindingsInv => BindingsFollow BY DEF BindingsInv, BindingsFollow, Tended, Lapsed
<1> QED BY <1>1, <1>2, InitInv, NextInv, BindingsNext, PTL DEF Spec
=============================================================================
