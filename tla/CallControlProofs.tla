-------------------------- MODULE CallControlProofs --------------------------
(***************************************************************************)
(* Theorems about the call control listener, for every set of calls,       *)
(* controllers and applications and every number of commands: its types,   *)
(* and of its command queue what it hands to the switch, how often and in  *)
(* which order, and when it waits.                                         *)
(***************************************************************************)
EXTENDS CallControl, SequenceTheorems, TLAPS

Apps == QueueApps \cup NowApps
OutcomeType == [fs : SUBSET Names, cast : SUBSET Names, raise : BOOLEAN]

\* What exec_cmd can come to: the completions it announces have known names.
LEMMA OutcomesTyped ==
  ASSUME NEW app \in Apps
  PROVE  get_fs_app(app) \subseteq OutcomeType
  <1>1. ASSUME NEW n \in Names
        PROVE  {Sent(n), Done(n), TimedOut(n), SetThenSent(n), Returned, Raised,
                Outcome({n}, {n}, FALSE)} \subseteq OutcomeType
    <2>1. "set" \in Names
      BY DEF Names, SwitchNames
    <2> QED BY <1>1, <2>1 DEF OutcomeType, Outcome, Sent, Done, Returned, Raised, TimedOut,
               SetThenSent
  <1>2. app \in Names /\ SwitchNames \subseteq Names
    BY DEF Apps, Names
  <1>3. \A n \in SwitchNames : {Sent(n), Done(n), TimedOut(n), SetThenSent(n),
                                  Outcome({n}, {n}, FALSE)} \subseteq OutcomeType
    BY <1>1, <1>2
  <1>4. Returned \in OutcomeType /\ Raised \in OutcomeType
    BY <1>1, <1>2
  <1>5. {Sent(app), Done(app), TimedOut(app), SetThenSent(app)} \subseteq OutcomeType
    BY <1>1, <1>2
  <1>6. {Outcome(s, {"set"}, FALSE) : s \in SUBSET {"set", "export"}} \subseteq OutcomeType
    <2>1. {"set", "export"} \subseteq Names
      BY <1>2 DEF SwitchNames
    <2>2. ASSUME NEW s \in SUBSET {"set", "export"}
          PROVE  Outcome(s, {"set"}, FALSE) \in OutcomeType
      BY <2>1 DEF OutcomeType, Outcome
    <2> QED BY <2>2
  <1> QED BY <1>3, <1>4, <1>5, <1>6 DEF get_fs_app, SwitchNames

Commands == QueueCommands \cup NowCommands
Executions == [cmd : Commands, by : Origin, out : OutcomeType]

LEMMA ExecTyped ==
  ASSUME NEW c \in Commands, NEW o \in execute_control_request(c)
  PROVE  o \in OutcomeType
  <1>1. c.app \in Apps
    BY DEF Commands, QueueCommands, NowCommands, Apps
  <1>2. get_fs_app(c.app) \subseteq OutcomeType
    BY <1>1, OutcomesTyped
  <1>3. Returned \in OutcomeType /\ Raised \in OutcomeType
    BY DEF Returned, Raised, Outcome, OutcomeType
  <1>4. ASSUME NEW p \in get_fs_app(c.app)
        PROVE  Unreached(c.app, p) \in OutcomeType
    <2>1. p \in OutcomeType
      BY <1>2, <1>4
    <2>2. [p EXCEPT !.fs = {}] \in OutcomeType
      BY <2>1 DEF OutcomeType
    <2> QED BY <1>3, <2>2 DEF Unreached
  <1> QED BY <1>2, <1>3, <1>4 DEF execute_control_request, exec_cmd

\* Executing typed commands leaves typed completions and advances behind.
LEMMA ExecuteTyped ==
  ASSUME TypeOK, NEW es \in SUBSET Executions, NEW doneC, NEW doneA,
         Execute(es, doneC, doneA)
  PROVE  running' \subseteq Tokens /\ completes' \subseteq Tokens /\ advances' \subseteq Advances
  <1>1. ASSUME NEW e \in es, NEW names \in SUBSET Names
        PROVE  TokensOf(e, names) \subseteq Tokens
    <2>1. e \in Executions /\ callid \in CallIds /\ e.cmd.id \in 1..MaxCmds /\ e.by \in Origin
      BY <1>1 DEF Executions, Commands, QueueCommands, NowCommands, TypeOK
    <2> QED BY <2>1 DEF TokensOf, Tokens
  <1>2. ASSUME NEW e \in es
        PROVE  Raises(e) \subseteq Advances
    <2>1. e \in Executions /\ callid \in CallIds /\ e.cmd.id \in 1..MaxCmds /\ e.by \in Origin
      BY <1>2 DEF Executions, Commands, QueueCommands, NowCommands, TypeOK
    <2> QED BY <2>1 DEF Raises, Advances
  <1>3. \A e \in es : e.out.fs \subseteq Names /\ e.out.cast \subseteq Names
    BY DEF Executions, OutcomeType
  <1>4. /\ UNION {TokensOf(e, e.out.fs) : e \in es} \subseteq Tokens
        /\ UNION {TokensOf(e, e.out.cast) : e \in es} \subseteq Tokens
        /\ UNION {Raises(e) : e \in es} \subseteq Advances
    BY <1>1, <1>2, <1>3
  <1>5. running \subseteq Tokens /\ completes \subseteq Tokens /\ advances \subseteq Advances
    BY DEF TypeOK
  <1> QED BY <1>4, <1>5 DEF Execute

\* Taking the next command keeps the queue, the current application and the
\* list of started commands typed.
LEMMA ExecuteNextTyped ==
  ASSUME TypeOK, NEW q \in Seq(QueueCommands), NEW es \in SUBSET Executions,
         NEW doneC, NEW doneA, ExecuteNext(q, es, doneC, doneA)
  PROVE  /\ running' \subseteq Tokens /\ completes' \subseteq Tokens /\ advances' \subseteq Advances
         /\ command_q' \in Seq(QueueCommands) /\ started' \in Seq(QueueCommands)
         /\ current_app' \in QueueApps \cup {"undefined"} /\ outage' \in BOOLEAN
  <1>1. CASE /\ is_node_up /\ q # <<>>
             /\ \E o \in execute_control_request(Head(q)) :
                  Execute(es \cup {Execution(Head(q), "queue", o)}, doneC, doneA)
             /\ command_q' = Tail(q) /\ current_app' = Head(q).app
             /\ started' = Append(started, Head(q)) /\ outage' = FALSE
    <2>1. Head(q) \in QueueCommands /\ Tail(q) \in Seq(QueueCommands)
      BY <1>1
    <2>2. PICK o \in execute_control_request(Head(q)) :
            Execute(es \cup {Execution(Head(q), "queue", o)}, doneC, doneA)
      BY <1>1
    <2>3. Execution(Head(q), "queue", o) \in Executions
      <3>1. Head(q) \in Commands
        BY <2>1 DEF Commands
      <3>2. o \in OutcomeType
        BY <3>1, <2>2, ExecTyped
      <3> QED BY <3>1, <3>2 DEF Execution, Executions, Origin
    <2>4. running' \subseteq Tokens /\ completes' \subseteq Tokens /\ advances' \subseteq Advances
      BY <2>2, <2>3, ExecuteTyped
    <2>5. Head(q).app \in QueueApps /\ started \in Seq(QueueCommands)
      BY <2>1 DEF QueueCommands, TypeOK
    <2>6. Append(started, Head(q)) \in Seq(QueueCommands)
      BY <2>1, <2>5
    <2> QED BY <1>1, <2>1, <2>4, <2>5, <2>6
  <1>2. CASE /\ ~is_node_up \/ q = <<>>
             /\ Execute(es, doneC, doneA)
             /\ command_q' = q /\ current_app' = "undefined"
             /\ UNCHANGED <<started, outage>>
    BY <1>2, ExecuteTyped DEF TypeOK
  <1> QED BY <1>1, <1>2 DEF ExecuteNext

-----------------------------------------------------------------------------
(* What an application publishes is typed, and so is what becomes of it.   *)

LEMMA RequestTyped ==
  ASSUME TypeOK, NEW insert_at \in Insertions \cup {"flush", "now"},
         NEW n \in Nat \ {0}, sent + n <= MaxCmds,
         NEW apps \in [1..n -> IF insert_at = "now" THEN NowApps ELSE QueueApps],
         NEW call \in was_call
  PROVE  /\ insert_at = "now" => Request(insert_at, n, apps, call) \in Seq(NowCommands)
         /\ insert_at # "now" => Request(insert_at, n, apps, call) \in Seq(QueueCommands)
         /\ Len(Request(insert_at, n, apps, call)) = n
  <1>1. n \in Nat /\ sent \in Nat /\ MaxCmds \in Nat /\ call \in CallIds
    BY BoundAssumption DEF TypeOK
  <1>2. \A i \in 1..n : sent + n + 1 - i \in 1..MaxCmds
    BY <1>1
  <1>3. CASE insert_at = "now"
    <2>1. \A i \in 1..n : [id |-> sent + n + 1 - i, app |-> apps[i], call |-> call, pos |-> "now"]
                            \in NowCommands
      BY <1>1, <1>2, <1>3 DEF NowCommands
    <2> QED BY <1>1, <1>3, <2>1 DEF Request
  <1>4. CASE insert_at # "now"
    <2> DEFINE p == IF insert_at = "flush" THEN "tail" ELSE insert_at
    <2>1. p \in Insertions
      BY <1>4 DEF Insertions
    <2>2. \A i \in 1..n : [id |-> sent + n + 1 - i, app |-> apps[i], call |-> call, pos |-> p]
                            \in QueueCommands
      BY <1>1, <1>2, <1>4, <2>1 DEF QueueCommands
    <2> HIDE DEF p
    <2>3. [i \in 1..n |-> [id |-> sent + n + 1 - i, app |-> apps[i], call |-> call, pos |-> p]]
            \in Seq(QueueCommands)
      BY <1>1, <2>2
    <2>4. Request(insert_at, n, apps, call)
            = [i \in 1..n |-> [id |-> sent + n + 1 - i, app |-> apps[i], call |-> call, pos |-> p]]
      BY DEF Request, p
    <2> QED BY <1>1, <1>4, <2>3, <2>4
  <1> QED BY <1>3, <1>4

LEMMA InsertTyped ==
  ASSUME TypeOK, NEW insert_at \in Insertions \cup {"flush", "now"}, NEW valid,
         NEW cmds, insert_at # "now" => cmds \in Seq(QueueCommands)
  PROVE  insert_command(insert_at, cmds, valid) \in Seq(QueueCommands)
  <1>1. command_q \in Seq(QueueCommands) /\ <<>> \in Seq(QueueCommands)
    BY DEF TypeOK
  <1>2. ASSUME NEW q \in Seq(QueueCommands), NEW p, cmds \in Seq(QueueCommands)
        PROVE  insert_command_into_queue(q, p, cmds) \in Seq(QueueCommands)
    <2>1. Reverse(cmds) \in Seq(QueueCommands)
      BY <1>2 DEF Reverse
    <2> QED BY <1>2, <2>1 DEF insert_command_into_queue
  <1> QED BY <1>1, <1>2 DEF insert_command

LEMMA NowTyped ==
  ASSUME TypeOK, NEW cmds \in Seq(NowCommands), NEW n \in 0..Len(cmds),
         NEW es \in NowExecutions(cmds, n)
  PROVE  es \in SUBSET Executions
  <1>1. ASSUME NEW i \in 1..n, NEW o \in NowOutcomes(cmds, i)
        PROVE  Execution(cmds[i], "now", o) \in Executions
    <2>1. cmds[i] \in Commands
      BY <1>1 DEF Commands
    <2>2. Raised \in OutcomeType
      BY DEF Raised, Outcome, OutcomeType
    <2>3. o \in OutcomeType
      BY <1>1, <2>1, <2>2, ExecTyped DEF NowOutcomes
    <2> QED BY <2>1, <2>3 DEF Execution, Executions, Origin
  <1> QED BY <1>1 DEF NowExecutions

LEMMA KeepAliveTyped ==
  ASSUME TypeOK, get_keep_alive_ref
  PROVE  keep_alive_ref' \in Nat /\ ka_running' \in BOOLEAN /\ expired' \subseteq Nat
  <1>1. keep_alive_ref \in Nat /\ ka_running \in BOOLEAN /\ expired \subseteq Nat
    BY DEF TypeOK
  <1>2. CASE keep_alive_ref = 0 /\ UNCHANGED kaVars
    BY <1>1, <1>2 DEF kaVars
  <1>3. CASE /\ keep_alive_ref # 0
             /\ keep_alive_ref' = keep_alive_ref + 1 /\ ka_running' = TRUE
             /\ expired' = IF ka_running /\ expired # {} THEN expired \ {Oldest(expired)}
                           ELSE expired
    <2>1. keep_alive_ref + 1 \in Nat
      BY <1>1
    <2>2. expired' \subseteq expired
      BY <1>3
    <2> QED BY <1>1, <1>3, <2>1, <2>2
  <1> QED BY <1>2, <1>3 DEF get_keep_alive_ref

-----------------------------------------------------------------------------
(* Type correctness.                                                       *)

\* A dialplan request, whatever it asks for, keeps every variable typed.
LEMMA DialplanTyped ==
  ASSUME TypeOK, CallCommandReceived
  PROVE  TypeOK'
  <1>0. PICK insert_at \in Insertions \cup {"flush", "now"} :
          \E n \in 1..(IF insert_at = "now" THEN MaxNow ELSE MaxGroup) :
            /\ sent + n <= MaxCmds
            /\ \E apps \in [1..n -> IF insert_at = "now" THEN NowApps ELSE QueueApps],
                  call \in was_call, valid \in BOOLEAN :
                 Dialplan(insert_at, Request(insert_at, n, apps, call), valid)
    BY DEF CallCommandReceived
  <1>1. PICK n \in 1..(IF insert_at = "now" THEN MaxNow ELSE MaxGroup) :
            /\ sent + n <= MaxCmds
            /\ \E apps \in [1..n -> IF insert_at = "now" THEN NowApps ELSE QueueApps],
                  call \in was_call, valid \in BOOLEAN :
                 Dialplan(insert_at, Request(insert_at, n, apps, call), valid)
    BY <1>0
  <1>2. PICK apps \in [1..n -> IF insert_at = "now" THEN NowApps ELSE QueueApps],
             call \in was_call, valid \in BOOLEAN :
               Dialplan(insert_at, Request(insert_at, n, apps, call), valid)
    BY <1>1
  <1> DEFINE cmds == Request(insert_at, n, apps, call)
  <1>3. /\ insert_at = "now" => cmds \in Seq(NowCommands)
        /\ insert_at # "now" => cmds \in Seq(QueueCommands)
        /\ Len(cmds) = n
    <2>1. n \in Nat \ {0}
      BY BoundAssumption
    <2> QED BY <1>1, <2>1, RequestTyped
  <1> HIDE DEF cmds
  <1> DEFINE q == insert_command(insert_at, cmds, valid)
  <1>4. q \in Seq(QueueCommands)
    BY <1>3, InsertTyped
  <1>5. PICK k \in NowCount(insert_at, cmds, valid) : \E es \in NowExecutions(cmds, k) :
          \/ current_app = "undefined" /\ ExecuteNext(q, es, {}, {})
          \/ /\ current_app # "undefined"
             /\ Execute(es, {}, {}) /\ command_q' = q
             /\ UNCHANGED <<current_app, started, outage>>
    BY <1>2 DEF Dialplan, cmds, q
  <1>6. PICK es \in NowExecutions(cmds, k) :
          \/ current_app = "undefined" /\ ExecuteNext(q, es, {}, {})
          \/ /\ current_app # "undefined"
             /\ Execute(es, {}, {}) /\ command_q' = q
             /\ UNCHANGED <<current_app, started, outage>>
    BY <1>5
  <1>7. es \in SUBSET Executions
    <2>1. CASE k = 0
      BY <2>1, <1>6 DEF NowExecutions
    <2>2. CASE k # 0
      <3>1. insert_at = "now" /\ cmds \in Seq(NowCommands) /\ k \in 0..Len(cmds)
        BY <2>2, <1>3, <1>5 DEF NowCount
      <3> QED BY <3>1, <1>6, NowTyped
    <2> QED BY <2>1, <2>2
  <1> HIDE DEF q
  <1>8. /\ running' \subseteq Tokens /\ completes' \subseteq Tokens /\ advances' \subseteq Advances
        /\ command_q' \in Seq(QueueCommands) /\ started' \in Seq(QueueCommands)
        /\ current_app' \in QueueApps \cup {"undefined"} /\ outage' \in BOOLEAN
    <2>1. CASE current_app = "undefined" /\ ExecuteNext(q, es, {}, {})
      BY <2>1, <1>4, <1>7, ExecuteNextTyped
    <2>2. CASE /\ current_app # "undefined"
               /\ Execute(es, {}, {}) /\ command_q' = q
               /\ UNCHANGED <<current_app, started, outage>>
      BY <2>2, <1>4, <1>7, ExecuteTyped DEF TypeOK
    <2> QED BY <1>6, <2>1, <2>2
  <1>9. keep_alive_ref' \in Nat /\ ka_running' \in BOOLEAN /\ expired' \subseteq Nat
    BY <1>2, KeepAliveTyped DEF Dialplan
  <1>10. /\ sent' = sent + Len(cmds)
         /\ UNCHANGED <<proc, is_node_up, legVars, destroys, fs_up, live>>
    BY <1>2 DEF Dialplan, cmds
  <1>11. sent' \in 0..MaxCmds
    BY <1>1, <1>3, <1>10, BoundAssumption DEF TypeOK
  <1> QED BY <1>8, <1>9, <1>10, <1>11 DEF TypeOK, legVars

LEMMA CompleteTyped ==
  ASSUME TypeOK, NEW t \in completes, EventExecuteComplete(t)
  PROVE  TypeOK'
  <1>1. command_q \in Seq(QueueCommands) /\ {} \in SUBSET Executions
    BY DEF TypeOK
  <1>2. CASE ExecuteNext(command_q, {}, {t}, {})
    <2>1. /\ running' \subseteq Tokens /\ completes' \subseteq Tokens /\ advances' \subseteq Advances
          /\ command_q' \in Seq(QueueCommands) /\ started' \in Seq(QueueCommands)
          /\ current_app' \in QueueApps \cup {"undefined"} /\ outage' \in BOOLEAN
      BY <1>1, <1>2, ExecuteNextTyped
    <2> QED BY <2>1 DEF EventExecuteComplete, TypeOK, kaVars, legVars
  <1>3. CASE completes' = completes \ {t} /\ UNCHANGED <<queueVars, running, advances>>
    BY <1>3 DEF EventExecuteComplete, TypeOK, queueVars, kaVars, legVars
  <1> QED BY <1>2, <1>3 DEF EventExecuteComplete

LEMMA AdvanceTyped ==
  ASSUME TypeOK, NEW a \in advances, ForceQueueAdvance(a)
  PROVE  TypeOK'
  <1>1. command_q \in Seq(QueueCommands) /\ {} \in SUBSET Executions
    BY DEF TypeOK
  <1>2. CASE ExecuteNext(command_q, {}, {}, {a})
    <2>1. /\ running' \subseteq Tokens /\ completes' \subseteq Tokens /\ advances' \subseteq Advances
          /\ command_q' \in Seq(QueueCommands) /\ started' \in Seq(QueueCommands)
          /\ current_app' \in QueueApps \cup {"undefined"} /\ outage' \in BOOLEAN
      BY <1>1, <1>2, ExecuteNextTyped
    <2> QED BY <2>1 DEF ForceQueueAdvance, TypeOK, kaVars, legVars
  <1>3. CASE advances' = advances \ {a} /\ UNCHANGED <<queueVars, running, completes>>
    BY <1>3 DEF ForceQueueAdvance, TypeOK, queueVars, kaVars, legVars
  <1> QED BY <1>2, <1>3 DEF ForceQueueAdvance

LEMMA DestroyedTyped ==
  ASSUME TypeOK, NEW c \in destroys, ChannelDestroyed(c)
  PROVE  TypeOK'
  <1>1. PICK f \in [post_hangup_commands -> UNION {execute_control_request(command_q[i]) :
                                                     i \in post_hangup_commands}] :
          /\ \A i \in post_hangup_commands : f[i] \in execute_control_request(command_q[i])
          /\ Execute({Execution(command_q[i], "hangup", f[i]) : i \in post_hangup_commands}, {}, {})
    BY DEF ChannelDestroyed
  <1>2. ASSUME NEW i \in post_hangup_commands
        PROVE  Execution(command_q[i], "hangup", f[i]) \in Executions
    <2>1. command_q[i] \in Commands
      BY <1>2 DEF post_hangup_commands, Commands, TypeOK
    <2>2. f[i] \in OutcomeType
      BY <1>1, <1>2, <2>1, ExecTyped
    <2> QED BY <2>1, <2>2 DEF Execution, Executions, Origin
  <1>3. running' \subseteq Tokens /\ completes' \subseteq Tokens /\ advances' \subseteq Advances
    <2> DEFINE es == {Execution(command_q[i], "hangup", f[i]) : i \in post_hangup_commands}
    <2>1. es \in SUBSET Executions
      BY <1>2
    <2>2. Execute(es, {}, {})
      BY <1>1
    <2> HIDE DEF es
    <2> QED BY <2>1, <2>2, ExecuteTyped
  <1>4. keep_alive_ref' \in Nat /\ ka_running' \in BOOLEAN /\ expired' \subseteq Nat
    <2>1. keep_alive_ref \in Nat /\ ka_running \in BOOLEAN /\ expired \subseteq Nat
      BY DEF TypeOK
    <2>2. CASE UNCHANGED kaVars
      BY <2>1, <2>2 DEF kaVars
    <2>3. CASE keep_alive_ref' = 1 /\ ka_running' = TRUE /\ UNCHANGED expired
      BY <2>1, <2>3
    <2> QED BY <2>2, <2>3 DEF ChannelDestroyed
  <1> QED BY <1>3, <1>4 DEF ChannelDestroyed, TypeOK, queueVars, legVars

LEMMA LegsTyped ==
  ASSUME TypeOK, NEW e \in CallEvents, CallEventReceived(e)
  PROVE  TypeOK'
  <1> USE DEF TypeOK, LegStep, queueVars, kaVars, mailVars
  <1>1. LegStep /\ e.leg \in CallIds
    BY DEF CallEventReceived, CallEvents
  <1>2. CASE AddLeg(e.leg)
    BY <1>1, <1>2 DEF AddLeg
  <1>3. CASE RmLeg(e.leg)
    BY <1>1, <1>3 DEF RmLeg
  <1>4. CASE Transferer
    BY <1>1, <1>4 DEF Transferer
  <1>5. CASE \E new \in live : Transferee(e.leg, new)
    BY <1>1, <1>5 DEF Transferee
  <1> QED BY <1>2, <1>3, <1>4, <1>5 DEF CallEventReceived

LEMMA InitTyped == Init => TypeOK
  <1> SUFFICES ASSUME Init PROVE TypeOK
    OBVIOUS
  <1>1. command_q \in Seq(QueueCommands) /\ started \in Seq(QueueCommands)
    BY DEF Init
  <1>2. sent \in 0..MaxCmds
    BY BoundAssumption DEF Init
  <1>3. keep_alive_ref \in Nat /\ ka_running \in BOOLEAN /\ expired \subseteq Nat
    BY DEF Init
  <1> QED BY <1>1, <1>2, <1>3, CallAssumption DEF Init, TypeOK

LEMMA StepTyped == TypeOK /\ [Next]_vars => TypeOK'
  <1> SUFFICES ASSUME TypeOK, [Next]_vars PROVE TypeOK'
    OBVIOUS
  <1> USE DEF queueVars, kaVars, legVars, mailVars
  <1>1. CASE CallCommandReceived
    BY <1>1, DialplanTyped
  <1>2. CASE \E t \in completes : EventExecuteComplete(t)
    BY <1>2, CompleteTyped
  <1>3. CASE \E a \in advances : ForceQueueAdvance(a)
    BY <1>3, AdvanceTyped
  <1>4. CASE \E c \in destroys : ChannelDestroyed(c)
    BY <1>4, DestroyedTyped
  <1>5. CASE KeepAliveFires
    BY <1>5 DEF KeepAliveFires, TypeOK
  <1>6. CASE KeepAliveExpired
    BY <1>6 DEF KeepAliveExpired, Stop, TypeOK
  <1>7. CASE SanityCheckFails
    BY <1>7 DEF SanityCheckFails, Stop, TypeOK
  <1>8. CASE \E q \in Controllers : ControllerQueue(q)
    BY <1>8 DEF ControllerQueue, LegStep, TypeOK
  <1>9. CASE \E e \in CallEvents : CallEventReceived(e)
    BY <1>9, LegsTyped
  <1>10. CASE NodeDown
    BY <1>10 DEF NodeDown, TypeOK
  <1>11. CASE IsNodeUp
    BY <1>11 DEF IsNodeUp, TypeOK
  <1>12. CASE \E t \in running : FsCompletes(t)
    BY <1>12 DEF FsCompletes, SwitchStep, TypeOK
  <1>13. CASE \E t \in running : FsCompletesUnheard(t)
    BY <1>13 DEF FsCompletesUnheard, SwitchStep, TypeOK
  <1>14. CASE \E c \in live : FsHangup(c)
    BY <1>14 DEF FsHangup, SwitchStep, TypeOK
  <1>15. CASE \E up \in BOOLEAN : FsConnection(up)
    BY <1>15 DEF FsConnection, SwitchStep, TypeOK
  <1>16. CASE UNCHANGED vars
    BY <1>16 DEF vars, TypeOK
  <1> QED BY <1>1, <1>2, <1>3, <1>4, <1>5, <1>6, <1>7, <1>8, <1>9, <1>10, <1>11,
             <1>12, <1>13, <1>14, <1>15, <1>16 DEF Next

\* Every variable of the listener keeps its type: in particular the queue only
\* ever holds commands published for the queue, and the current application is
\* one of theirs.
THEOREM TypeCorrect == Spec => []TypeOK
  BY InitTyped, StepTyped, PTL DEF Spec

-----------------------------------------------------------------------------
(* The command queue.  The argument is about one sequence, started \o      *)
(* command_q: the commands taken from the queue followed by those that     *)
(* still are in it.  Taking the next command does not change it, and an    *)
(* insertion only adds commands younger than any in it.                    *)

\* What ExactlyOnce and TailOrder ask of two commands, one ahead of the other.
Before(c, d) ==
  /\ c.id # d.id
  /\ c.pos = "tail" /\ d.pos = "tail" => c.id < d.id

InOrder(w) == \A i, j \in DOMAIN w : i < j => Before(w[i], w[j])
AllBefore(v, w) == \A i \in DOMAIN v, j \in DOMAIN w : Before(v[i], w[j])

Handed == InOrder(started \o command_q)
Upto(w, n) == \A i \in DOMAIN w : w[i].id <= n
Issued == Upto(started, sent) /\ Upto(command_q, sent)

LEMMA IdsAreNumbers ==
  ASSUME NEW q \in Seq(QueueCommands)
  PROVE  \A i \in DOMAIN q : q[i].id \in Nat
  <1>1. \A c \in QueueCommands : c.id \in Nat
    BY BoundAssumption DEF QueueCommands
  <1>2. \A i \in DOMAIN q : q[i] \in QueueCommands
    OBVIOUS
  <1> QED BY <1>1, <1>2

\* A concatenation is in order exactly if its parts are, and each command of
\* the first is before each of the second.
LEMMA ConcatInOrder ==
  ASSUME NEW v \in Seq(QueueCommands), NEW w \in Seq(QueueCommands)
  PROVE  InOrder(v \o w) <=> InOrder(v) /\ InOrder(w) /\ AllBefore(v, w)
  <1> DEFINE x == v \o w
  <1>1. /\ DOMAIN v = 1..Len(v) /\ DOMAIN w = 1..Len(w) /\ Len(v) \in Nat /\ Len(w) \in Nat
        /\ DOMAIN x = 1..(Len(v) + Len(w))
        /\ \A i \in DOMAIN v : x[i] = v[i]
        /\ \A i \in DOMAIN w : x[Len(v) + i] = w[i]
        /\ \A i \in DOMAIN x \ DOMAIN v : i - Len(v) \in DOMAIN w /\ x[i] = w[i - Len(v)]
    BY ConcatProperties, LenProperties
  <1> HIDE DEF x
  <1>2. ASSUME InOrder(x) PROVE InOrder(v) /\ InOrder(w) /\ AllBefore(v, w)
    <2>1. InOrder(v)
      BY <1>1, <1>2 DEF InOrder
    <2>2. ASSUME NEW i \in DOMAIN w, NEW j \in DOMAIN w, i < j
          PROVE  Before(w[i], w[j])
      <3>1. Len(v) + i \in DOMAIN x /\ Len(v) + j \in DOMAIN x /\ Len(v) + i < Len(v) + j
        BY <1>1, <2>2
      <3> QED BY <1>1, <1>2, <3>1 DEF InOrder
    <2>3. ASSUME NEW i \in DOMAIN v, NEW j \in DOMAIN w
          PROVE  Before(v[i], w[j])
      <3>1. i \in DOMAIN x /\ Len(v) + j \in DOMAIN x /\ i < Len(v) + j
        BY <1>1
      <3> QED BY <1>1, <1>2, <3>1 DEF InOrder
    <2> QED BY <2>1, <2>2, <2>3 DEF InOrder, AllBefore
  <1>3. ASSUME InOrder(v), InOrder(w), AllBefore(v, w),
               NEW i \in DOMAIN x, NEW j \in DOMAIN x, i < j
        PROVE  Before(x[i], x[j])
    <2>1. CASE i \in DOMAIN v /\ j \in DOMAIN v
      BY <1>1, <1>3, <2>1 DEF InOrder
    <2>2. CASE i \in DOMAIN v /\ j \notin DOMAIN v
      BY <1>1, <1>3, <2>2 DEF AllBefore
    <2>3. CASE i \notin DOMAIN v
      <3>1. j \notin DOMAIN v /\ i - Len(v) < j - Len(v)
        BY <1>1, <1>3, <2>3
      <3> QED BY <1>1, <1>3, <2>3, <3>1 DEF InOrder
    <2> QED BY <2>1, <2>2, <2>3
  <1> QED BY <1>2, <1>3 DEF InOrder, x

\* Taking the next command moves it from one part of the sequence to the other.
LEMMA NextHanded ==
  ASSUME NEW q \in Seq(QueueCommands), q # <<>>, NEW st \in Seq(QueueCommands)
  PROVE  Append(st, Head(q)) \o Tail(q) = st \o q
  <1>1. /\ Head(q) \in QueueCommands /\ Tail(q) \in Seq(QueueCommands)
        /\ Append(st, Head(q)) \in Seq(QueueCommands) /\ Len(q) \in Nat /\ Len(q) > 0
        /\ Len(Tail(q)) = Len(q) - 1 /\ Len(Append(st, Head(q))) = Len(st) + 1
        /\ Len(st) \in Nat
    BY HeadTailProperties, AppendProperties, EmptySeq
  <1>2. Len(Append(st, Head(q)) \o Tail(q)) = Len(st \o q)
    BY <1>1, ConcatProperties
  <1>3. ASSUME NEW i \in 1..Len(st \o q)
        PROVE  (Append(st, Head(q)) \o Tail(q))[i] = (st \o q)[i]
    BY <1>1, ConcatProperties, AppendProperties, HeadTailProperties
  <1> QED BY <1>1, <1>2, <1>3, ConcatProperties, SeqEqual

-----------------------------------------------------------------------------
(* Insertions.                                                             *)

LEMMA ConcatParts ==
  ASSUME NEW v \in Seq(QueueCommands), NEW w \in Seq(QueueCommands),
         NEW u \in Seq(QueueCommands), NEW n \in Nat
  PROVE  /\ AllBefore(u, v) /\ AllBefore(u, w) => AllBefore(u, v \o w)
         /\ Upto(v, n) /\ Upto(w, n) => Upto(v \o w, n)
  <1> DEFINE x == v \o w
  <1>0. /\ DOMAIN v = 1..Len(v) /\ DOMAIN w = 1..Len(w) /\ Len(v) \in Nat /\ Len(w) \in Nat
        /\ DOMAIN x = 1..(Len(v) + Len(w))
        /\ \A i \in DOMAIN x : x[i] = IF i <= Len(v) THEN v[i] ELSE w[i - Len(v)]
    BY ConcatProperties, LenProperties
  <1> HIDE DEF x
  <1>1. ASSUME NEW i \in DOMAIN x
        PROVE  \/ i \in DOMAIN v /\ x[i] = v[i]
               \/ i - Len(v) \in DOMAIN w /\ x[i] = w[i - Len(v)]
    <2>1. CASE i \in DOMAIN v
      BY <1>0, <2>1
    <2>2. CASE i \notin DOMAIN v
      BY <1>0, <2>2
    <2> QED BY <2>1, <2>2
  <1>2. AllBefore(u, v) /\ AllBefore(u, w) => AllBefore(u, x)
    BY <1>1 DEF AllBefore
  <1>3. Upto(v, n) /\ Upto(w, n) => Upto(x, n)
    BY <1>1 DEF Upto
  <1> QED BY <1>2, <1>3 DEF x

\* The commands of a request: younger than any before, the last one first.
Fresh(cmds, insert_at, n) ==
  /\ DOMAIN cmds = 1..n
  /\ \A i \in 1..n : cmds[i].id = sent + n + 1 - i
  /\ insert_at = "head" => \A i \in 1..n : cmds[i].pos = "head"

LEMMA RequestIds ==
  ASSUME NEW insert_at, NEW n \in Nat \ {0}, NEW apps, NEW call
  PROVE  Fresh(Request(insert_at, n, apps, call), insert_at, n)
  BY DEF Request, Fresh

LEMMA ReversedIds ==
  ASSUME TypeOK, NEW insert_at, NEW n \in Nat \ {0}, NEW cmds \in Seq(QueueCommands),
         Fresh(cmds, insert_at, n)
  PROVE  /\ DOMAIN Reverse(cmds) = 1..n /\ Reverse(cmds) \in Seq(QueueCommands)
         /\ \A i \in 1..n : Reverse(cmds)[i].id = sent + i
  <1>1. sent \in Nat /\ \A i \in 1..n : cmds[i].id = sent + n + 1 - i
    BY BoundAssumption DEF TypeOK, Fresh
  <1>2. Len(cmds) = n
    BY LenProperties DEF Fresh
  <1>3. Reverse(cmds) \in Seq(QueueCommands) /\ DOMAIN Reverse(cmds) = 1..n
    BY <1>2 DEF Reverse
  <1>4. ASSUME NEW i \in 1..n PROVE Reverse(cmds)[i].id = sent + i
    <2>1. Reverse(cmds)[i] = cmds[n - i + 1] /\ n - i + 1 \in 1..n
      BY <1>2 DEF Reverse
    <2> QED BY <1>1, <2>1
  <1> QED BY <1>3, <1>4

\* Whatever the position, an insertion keeps the sequence in order.
LEMMA InsertHanded ==
  ASSUME TypeOK, Handed, Issued, NEW insert_at \in Insertions \cup {"flush"},
         NEW n \in Nat \ {0}, NEW valid \in BOOLEAN,
         NEW cmds \in Seq(QueueCommands), Fresh(cmds, insert_at, n)
  PROVE  LET q == insert_command(insert_at, cmds, valid)
         IN  InOrder(started \o q) /\ Upto(q, sent + n)
  <1>1. /\ started \in Seq(QueueCommands) /\ command_q \in Seq(QueueCommands)
        /\ sent \in Nat /\ sent + n \in Nat
    BY BoundAssumption DEF TypeOK
  <1>2. InOrder(started) /\ InOrder(command_q) /\ AllBefore(started, command_q)
    BY <1>1, ConcatInOrder DEF Handed
  <1> DEFINE r == Reverse(cmds)
  <1>3. /\ DOMAIN cmds = 1..n /\ DOMAIN r = 1..n /\ r \in Seq(QueueCommands)
        /\ \A i \in 1..n : cmds[i].id = sent + n + 1 - i /\ r[i].id = sent + i
        /\ insert_at = "head" => \A i \in 1..n : cmds[i].pos = "head"
    <2>1. /\ DOMAIN r = 1..n /\ r \in Seq(QueueCommands)
          /\ \A i \in 1..n : r[i].id = sent + i
      BY ReversedIds
    <2> HIDE DEF r
    <2> QED BY <2>1 DEF Fresh
  <1> HIDE DEF r
  <1>4. /\ \A i \in DOMAIN started : started[i].id \in Nat /\ started[i].id <= sent
        /\ \A i \in DOMAIN command_q : command_q[i].id \in Nat /\ command_q[i].id <= sent
    BY <1>1, IdsAreNumbers DEF Issued, Upto
  <1>5. InOrder(r) /\ Upto(r, sent + n) /\ Upto(cmds, sent + n) /\ Upto(command_q, sent + n)
    <2>1. InOrder(r)
      BY <1>1, <1>3 DEF InOrder, Before
    <2>2. Upto(r, sent + n) /\ Upto(cmds, sent + n)
      BY <1>1, <1>3 DEF Upto
    <2>3. Upto(command_q, sent + n)
      BY <1>1, <1>4 DEF Upto
    <2> QED BY <2>1, <2>2, <2>3
  <1>6. AllBefore(started, r) /\ AllBefore(command_q, r) /\ AllBefore(started, cmds)
    <2>1. \A m \in Nat : m <= sent => \A j \in 1..n : m < sent + j /\ m < sent + n + 1 - j
      BY <1>1
    <2>2. AllBefore(started, r) /\ AllBefore(command_q, r)
      BY <1>3, <1>4, <2>1 DEF AllBefore, Before
    <2>3. AllBefore(started, cmds)
      BY <1>3, <1>4, <2>1 DEF AllBefore, Before
    <2> QED BY <2>2, <2>3
  <1>7. CASE insert_at = "now" \/ ~valid
    <2>1. insert_command(insert_at, cmds, valid) = command_q
      BY <1>7 DEF insert_command
    <2> QED BY <1>5, <2>1 DEF Handed
  <1>8. CASE valid /\ insert_at = "flush"
    <2>1. insert_command(insert_at, cmds, valid) = r
      BY <1>3, <1>8, ConcatEmptySeq DEF insert_command, insert_command_into_queue, r
    <2> QED BY <1>1, <1>2, <1>3, <1>5, <1>6, <2>1, ConcatInOrder
  <1>9. CASE valid /\ insert_at = "tail"
    <2>1. insert_command(insert_at, cmds, valid) = command_q \o r
      BY <1>9 DEF insert_command, insert_command_into_queue, r
    <2>2. InOrder(command_q \o r)
      BY <1>1, <1>2, <1>3, <1>5, <1>6, ConcatInOrder
    <2>3. AllBefore(started, command_q \o r) /\ Upto(command_q \o r, sent + n)
      BY <1>1, <1>2, <1>3, <1>5, <1>6, ConcatParts
    <2> QED BY <1>1, <1>2, <1>3, <2>1, <2>2, <2>3, ConcatInOrder, ConcatProperties
  <1>10. CASE valid /\ insert_at = "head"
    <2>1. insert_command(insert_at, cmds, valid) = cmds \o command_q
      BY <1>10 DEF insert_command, insert_command_into_queue
    <2>2. InOrder(cmds) /\ AllBefore(cmds, command_q)
      <3>1. \A i \in DOMAIN cmds : cmds[i].pos # "tail"
        BY <1>3, <1>10
      <3>2. \A i, j \in DOMAIN cmds : i < j => cmds[i].id # cmds[j].id
        BY <1>1, <1>3
      <3>3. \A i \in DOMAIN cmds, j \in DOMAIN command_q : cmds[i].id # command_q[j].id
        BY <1>1, <1>3, <1>4
      <3> QED BY <3>1, <3>2, <3>3 DEF InOrder, AllBefore, Before
    <2>3. InOrder(cmds \o command_q)
      BY <1>1, <1>2, <2>2, ConcatInOrder
    <2>4. AllBefore(started, cmds \o command_q) /\ Upto(cmds \o command_q, sent + n)
      BY <1>1, <1>2, <1>5, <1>6, ConcatParts
    <2> QED BY <1>1, <1>2, <2>1, <2>3, <2>4, ConcatInOrder, ConcatProperties
  <1> QED BY <1>7, <1>8, <1>9, <1>10 DEF Insertions

-----------------------------------------------------------------------------
(* The inductive invariant: the sequence is in order and made of commands  *)
(* already published, and a listener that waits knows why.                 *)

Waiting == ~is_node_up => outage

QueueInv == Handed /\ Issued /\ Waiting /\ WorkConserving

\* The listener's step over the queue q, when it takes the next command.
LEMMA ExecuteNextKeeps ==
  ASSUME TypeOK, Waiting, NEW q \in Seq(QueueCommands), NEW n \in Nat,
         InOrder(started \o q), Upto(started, n), Upto(q, n),
         NEW es, NEW doneC, NEW doneA, ExecuteNext(q, es, doneC, doneA), UNCHANGED is_node_up
  PROVE  /\ Handed' /\ Upto(started', n) /\ Upto(command_q', n)
         /\ Waiting' /\ WorkConserving'
  <1>1. started \in Seq(QueueCommands)
    BY DEF TypeOK
  <1>2. CASE /\ is_node_up /\ q # <<>>
             /\ command_q' = Tail(q) /\ current_app' = Head(q).app
             /\ started' = Append(started, Head(q)) /\ outage' = FALSE
    <2>1. Handed'
      BY <1>1, <1>2, NextHanded DEF Handed
    <2>2. Head(q) \in QueueCommands /\ Head(q) = q[1] /\ 1 \in DOMAIN q
      BY <1>2
    <2>3. Upto(command_q', n)
      <3>1. \A i \in DOMAIN command_q' : i + 1 \in DOMAIN q /\ command_q'[i] = q[i + 1]
        BY <1>2
      <3> QED BY <3>1 DEF Upto
    <2>4. Upto(started', n)
      <3>1. \A i \in DOMAIN started' : \/ (i \in DOMAIN started /\ started'[i] = started[i])
                                        \/ started'[i] = q[1]
        BY <1>1, <1>2, <2>2
      <3> QED BY <2>2, <3>1 DEF Upto
    <2>5. current_app' # "undefined"
      BY <1>2, <2>2, AppAssumption DEF QueueCommands
    <2> QED BY <1>2, <2>1, <2>3, <2>4, <2>5 DEF Waiting, WorkConserving
  <1>3. CASE /\ ~is_node_up \/ q = <<>>
             /\ command_q' = q /\ UNCHANGED <<started, outage>>
    BY <1>3 DEF Handed, Waiting, WorkConserving
  <1> QED BY <1>2, <1>3 DEF ExecuteNext

LEMMA QueueInvInit == Init => QueueInv
  <1> SUFFICES ASSUME Init PROVE QueueInv
    OBVIOUS
  <1>1. started \o command_q = <<>>
    BY DEF Init
  <1> QED BY <1>1 DEF Init, QueueInv, Handed, InOrder, Issued, Upto, Waiting, WorkConserving

LEMMA DialplanKeeps ==
  ASSUME TypeOK, QueueInv, CallCommandReceived
  PROVE  QueueInv'
  <1>0. PICK insert_at \in Insertions \cup {"flush", "now"} :
          \E n \in 1..(IF insert_at = "now" THEN MaxNow ELSE MaxGroup) :
            /\ sent + n <= MaxCmds
            /\ \E apps \in [1..n -> IF insert_at = "now" THEN NowApps ELSE QueueApps],
                  call \in was_call, valid \in BOOLEAN :
                 Dialplan(insert_at, Request(insert_at, n, apps, call), valid)
    BY DEF CallCommandReceived
  <1>1. PICK n \in 1..(IF insert_at = "now" THEN MaxNow ELSE MaxGroup) :
            /\ sent + n <= MaxCmds
            /\ \E apps \in [1..n -> IF insert_at = "now" THEN NowApps ELSE QueueApps],
                  call \in was_call, valid \in BOOLEAN :
                 Dialplan(insert_at, Request(insert_at, n, apps, call), valid)
    BY <1>0
  <1>2. PICK apps \in [1..n -> IF insert_at = "now" THEN NowApps ELSE QueueApps],
             call \in was_call, valid \in BOOLEAN :
               Dialplan(insert_at, Request(insert_at, n, apps, call), valid)
    BY <1>1
  <1> DEFINE cmds == Request(insert_at, n, apps, call)
             q == insert_command(insert_at, cmds, valid)
  <1>3. n \in Nat \ {0} /\ sent \in Nat /\ sent + n \in Nat
    BY BoundAssumption DEF TypeOK
  <1>4. /\ insert_at # "now" => cmds \in Seq(QueueCommands)
        /\ Len(cmds) = n
    BY <1>1, <1>3, RequestTyped
  <1>5. q \in Seq(QueueCommands)
    BY <1>4, InsertTyped
  <1>6. InOrder(started \o q) /\ Upto(q, sent + n)
    <2>1. CASE insert_at = "now"
      <3>1. q = command_q
        BY <2>1 DEF insert_command
      <3>2. Upto(command_q, sent + n)
        <4>1. \A i \in DOMAIN command_q : command_q[i].id \in Nat
          BY IdsAreNumbers DEF TypeOK
        <4> QED BY <1>3, <4>1 DEF QueueInv, Issued, Upto
      <3> QED BY <3>1, <3>2 DEF QueueInv, Handed
    <2>2. CASE insert_at # "now"
      <3>1. Fresh(cmds, insert_at, n)
        BY <1>3, RequestIds
      <3> HIDE DEF cmds
      <3> QED BY <1>3, <1>4, <2>2, <3>1, InsertHanded DEF QueueInv
    <2> QED BY <2>1, <2>2
  <1>7. Upto(started, sent + n)
    <2>1. \A i \in DOMAIN started : started[i].id \in Nat
      BY IdsAreNumbers DEF TypeOK
    <2> QED BY <1>3, <2>1 DEF QueueInv, Issued, Upto
  <1>8. sent' = sent + n /\ UNCHANGED is_node_up
    BY <1>2, <1>4 DEF Dialplan
  <1>9. \E es : \/ ExecuteNext(q, es, {}, {})
                \/ /\ current_app # "undefined" /\ command_q' = q
                   /\ UNCHANGED <<current_app, started, outage>>
    BY <1>2 DEF Dialplan
  <1> HIDE DEF q, cmds
  <1>10. CASE \E es : ExecuteNext(q, es, {}, {})
    BY <1>3, <1>5, <1>6, <1>7, <1>8, <1>10, ExecuteNextKeeps DEF QueueInv, Issued
  <1>11. CASE /\ current_app # "undefined" /\ command_q' = q
              /\ UNCHANGED <<current_app, started, outage>>
    BY <1>6, <1>7, <1>8, <1>11 DEF QueueInv, Handed, Issued, Waiting, WorkConserving
  <1> QED BY <1>9, <1>10, <1>11

LEMMA AdvanceKeeps ==
  ASSUME TypeOK, QueueInv, NEW doneC, NEW doneA,
         ExecuteNext(command_q, {}, doneC, doneA), UNCHANGED <<is_node_up, sent>>
  PROVE  QueueInv'
  <1>1. command_q \in Seq(QueueCommands) /\ sent \in Nat
    BY BoundAssumption DEF TypeOK
  <1> QED BY <1>1, ExecuteNextKeeps DEF QueueInv, Handed, Issued

LEMMA QueueInvStep ==
  ASSUME TypeOK, QueueInv, [Next]_vars
  PROVE  QueueInv'
  <1>1. ASSUME UNCHANGED <<queueVars, sent, is_node_up>>
        PROVE  QueueInv'
    BY <1>1 DEF queueVars, QueueInv, Handed, Issued, Waiting, WorkConserving
  <1>2. CASE CallCommandReceived
    BY <1>2, DialplanKeeps
  <1>3. CASE \E t \in completes : EventExecuteComplete(t)
    BY <1>1, <1>3, AdvanceKeeps DEF EventExecuteComplete
  <1>4. CASE \E a \in advances : ForceQueueAdvance(a)
    BY <1>1, <1>4, AdvanceKeeps DEF ForceQueueAdvance
  <1>5. CASE NodeDown
    BY <1>5 DEF NodeDown, QueueInv, Handed, Issued, Waiting, WorkConserving
  <1>6. CASE IsNodeUp
    BY <1>6 DEF IsNodeUp, queueVars, QueueInv, Handed, Issued, Waiting, WorkConserving
  <1>7. CASE \/ \E c \in destroys : ChannelDestroyed(c)
             \/ KeepAliveFires \/ KeepAliveExpired \/ SanityCheckFails
             \/ \E q \in Controllers : ControllerQueue(q)
             \/ \E e \in CallEvents : CallEventReceived(e)
             \/ \E t \in running : FsCompletes(t)
             \/ \E t \in running : FsCompletesUnheard(t)
             \/ \E c \in live : FsHangup(c)
             \/ \E up \in BOOLEAN : FsConnection(up)
    BY <1>1, <1>7 DEF ChannelDestroyed, KeepAliveFires, KeepAliveExpired, SanityCheckFails, Stop,
       ControllerQueue, CallEventReceived, LegStep, FsCompletes, FsCompletesUnheard, FsHangup,
       FsConnection, SwitchStep
  <1>8. CASE UNCHANGED vars
    BY <1>1, <1>8 DEF vars
  <1> QED BY <1>2, <1>3, <1>4, <1>5, <1>6, <1>7, <1>8 DEF Next

\* The invariant, read back as the properties of the queue.
LEMMA InOrderMeans ==
  ASSUME TypeOK, QueueInv
  PROVE  ExactlyOnce /\ TailOrder
  <1>1. command_q \in Seq(QueueCommands) /\ started \in Seq(QueueCommands)
    BY DEF TypeOK
  <1>2. InOrder(started) /\ InOrder(command_q) /\ AllBefore(started, command_q)
    BY <1>1, ConcatInOrder DEF QueueInv, Handed
  <1>3. \A i, j \in DOMAIN command_q : i < j \/ j < i \/ i = j
    BY <1>1
  <1>4. \A i, j \in DOMAIN started : i < j \/ j < i \/ i = j
    BY <1>1
  <1>5. ExactlyOnce
    BY <1>2, <1>3, <1>4 DEF ExactlyOnce, InOrder, AllBefore, Before
  <1>6. TailOrder
    BY <1>2 DEF TailOrder, InOrder, AllBefore, Before
  <1> QED BY <1>5, <1>6

\* Whatever inserts, flushes, completions, forced advances, outages and
\* hangups there were, a command is taken from the queue at most once.
THEOREM HandsOutOnce == Spec => []ExactlyOnce
  BY InitTyped, StepTyped, QueueInvInit, QueueInvStep, InOrderMeans, PTL DEF Spec

\* Commands published to the tail start in the order of their publication.
THEOREM KeepsTailOrder == Spec => []TailOrder
  BY InitTyped, StepTyped, QueueInvInit, QueueInvStep, InOrderMeans, PTL DEF Spec

\* Commands wait with nothing running only for the switch, or for the first
\* command started after it was lost.
THEOREM ConservesWork == Spec => []WorkConserving
  <1>1. QueueInv => WorkConserving
    BY DEF QueueInv
  <1> QED BY <1>1, InitTyped, StepTyped, QueueInvInit, QueueInvStep, PTL DEF Spec

-----------------------------------------------------------------------------
(* The queue that is promised.  It is made of sets, so what it takes next   *)
(* is a matter of ids; the listener takes the head of a sequence.  They     *)
(* agree because the sequence is sorted: the commands that were pushed in   *)
(* front, the youngest ahead, and then those of the tail, the oldest ahead. *)

Ahead(c, d) ==
  /\ c.pos = "head" /\ d.pos = "head" => d.id < c.id
  /\ c.pos = "tail" => d.pos = "tail" /\ c.id < d.id

Sorted(w) == \A i, j \in DOMAIN w : i < j => Ahead(w[i], w[j])
AllAhead(v, w) == \A i \in DOMAIN v, j \in DOMAIN w : Ahead(v[i], w[j])

QueueSorted == Sorted(command_q)

LEMMA ConcatSorted ==
  ASSUME NEW v \in Seq(QueueCommands), NEW w \in Seq(QueueCommands),
         Sorted(v), Sorted(w), AllAhead(v, w)
  PROVE  Sorted(v \o w)
  <1> DEFINE x == v \o w
  <1>1. /\ DOMAIN v = 1..Len(v) /\ DOMAIN w = 1..Len(w) /\ Len(v) \in Nat /\ Len(w) \in Nat
        /\ DOMAIN x = 1..(Len(v) + Len(w))
        /\ \A i \in DOMAIN v : x[i] = v[i]
        /\ \A i \in DOMAIN x \ DOMAIN v : i - Len(v) \in DOMAIN w /\ x[i] = w[i - Len(v)]
    BY ConcatProperties, LenProperties
  <1> HIDE DEF x
  <1>2. ASSUME NEW i \in DOMAIN x, NEW j \in DOMAIN x, i < j
        PROVE  Ahead(x[i], x[j])
    <2>1. CASE i \in DOMAIN v /\ j \in DOMAIN v
      BY <1>1, <1>2, <2>1 DEF Sorted
    <2>2. CASE i \in DOMAIN v /\ j \notin DOMAIN v
      BY <1>1, <1>2, <2>2 DEF AllAhead
    <2>3. CASE i \notin DOMAIN v
      <3>1. j \notin DOMAIN v /\ i - Len(v) < j - Len(v)
        BY <1>1, <1>2, <2>3
      <3> QED BY <1>1, <1>2, <2>3, <3>1 DEF Sorted
    <2> QED BY <2>1, <2>2, <2>3
  <1> QED BY <1>2 DEF Sorted, x

LEMMA TailSorted ==
  ASSUME NEW q \in Seq(QueueCommands), q # <<>>, Sorted(q)
  PROVE  Sorted(Tail(q))
  <1>1. \A i \in DOMAIN Tail(q) : i \in Nat /\ i + 1 \in DOMAIN q /\ Tail(q)[i] = q[i + 1]
    OBVIOUS
  <1> QED BY <1>1 DEF Sorted

\* The ids of a concatenation, of a longer list and of what the next command leaves.
LEMMA IdsOfConcat ==
  ASSUME NEW v \in Seq(QueueCommands), NEW w \in Seq(QueueCommands), NEW where
  PROVE  Ids(v \o w, where) = Ids(v, where) \cup Ids(w, where)
  <1> DEFINE x == v \o w
  <1>1. /\ \A i \in DOMAIN v : i \in DOMAIN x /\ x[i] = v[i]
        /\ \A i \in DOMAIN w : Len(v) + i \in DOMAIN x /\ x[Len(v) + i] = w[i]
        /\ \A i \in DOMAIN x : \/ i \in DOMAIN v /\ x[i] = v[i]
                               \/ i - Len(v) \in DOMAIN w /\ x[i] = w[i - Len(v)]
    BY ConcatProperties, LenProperties
  <1> HIDE DEF x
  <1>2. Ids(x, where) \subseteq Ids(v, where) \cup Ids(w, where)
    BY <1>1 DEF Ids
  <1>3. Ids(v, where) \subseteq Ids(x, where) /\ Ids(w, where) \subseteq Ids(x, where)
    BY <1>1 DEF Ids
  <1> QED BY <1>2, <1>3 DEF x

LEMMA IdsOfAppend ==
  ASSUME NEW st \in Seq(QueueCommands), NEW c \in QueueCommands
  PROVE  Ids(Append(st, c), Insertions) = Ids(st, Insertions) \cup {c.id}
  <1> DEFINE x == Append(st, c)
  <1>1. /\ Len(st) + 1 \in DOMAIN x /\ x[Len(st) + 1] = c
        /\ \A i \in DOMAIN st : i \in DOMAIN x /\ x[i] = st[i]
        /\ \A i \in DOMAIN x : i \in DOMAIN st \/ i = Len(st) + 1
    BY AppendProperties, LenProperties
  <1>2. c.pos \in Insertions
    BY DEF QueueCommands
  <1> HIDE DEF x
  <1>3. Ids(x, Insertions) \subseteq Ids(st, Insertions) \cup {c.id}
    BY <1>1 DEF Ids
  <1>4. Ids(st, Insertions) \subseteq Ids(x, Insertions) /\ c.id \in Ids(x, Insertions)
    BY <1>1, <1>2 DEF Ids
  <1> QED BY <1>3, <1>4 DEF x

LEMMA IdsOfTail ==
  ASSUME NEW q \in Seq(QueueCommands), q # <<>>, InOrder(q), NEW where
  PROVE  Ids(Tail(q), where) = Ids(q, where) \ {Head(q).id}
  <1>1. /\ Head(q) = q[1] /\ 1 \in DOMAIN q
        /\ \A i \in DOMAIN Tail(q) : i + 1 \in DOMAIN q /\ 1 < i + 1 /\ Tail(q)[i] = q[i + 1]
        /\ \A i \in DOMAIN q : i = 1 \/ (i - 1 \in DOMAIN Tail(q) /\ Tail(q)[i - 1] = q[i])
    OBVIOUS
  <1>2. \A i \in DOMAIN Tail(q) : Tail(q)[i].id # Head(q).id
    BY <1>1 DEF InOrder, Before
  <1>3. Ids(Tail(q), where) \subseteq Ids(q, where) \ {Head(q).id}
    BY <1>1, <1>2 DEF Ids
  <1>4. ASSUME NEW i \in DOMAIN q, q[i].pos \in where, q[i].id # Head(q).id
        PROVE  q[i].id \in Ids(Tail(q), where)
    <2>1. i - 1 \in DOMAIN Tail(q) /\ Tail(q)[i - 1] = q[i]
      BY <1>1, <1>4
    <2> QED BY <1>4, <2>1 DEF Ids
  <1>5. Ids(q, where) \ {Head(q).id} \subseteq Ids(Tail(q), where)
    BY <1>4 DEF Ids
  <1> QED BY <1>3, <1>5

\* The head of a sorted queue is the command whose turn it is.
LEMMA HeadIsNextUp ==
  ASSUME NEW q \in Seq(QueueCommands), q # <<>>, Sorted(q)
  PROVE  /\ Queue!NextUp(Head(q).id, Ids(q, {"head"}), Ids(q, {"tail"}))
         /\ Head(q).id \in Ids(q, {"head"}) \cup Ids(q, {"tail"})
  <1>1. Head(q) = q[1] /\ 1 \in DOMAIN q /\ \A i \in DOMAIN q : i \in Nat /\ (i = 1 \/ 1 < i)
    OBVIOUS
  <1>2. \A i \in DOMAIN q : q[i].id \in Nat /\ q[i].pos \in {"head", "tail"}
    <2>1. \A i \in DOMAIN q : q[i] \in QueueCommands
      OBVIOUS
    <2> QED BY <2>1, IdsAreNumbers DEF QueueCommands, Insertions
  <1>3. \A i \in DOMAIN q : i # 1 => Ahead(q[1], q[i])
    BY <1>1 DEF Sorted
  <1>4. CASE q[1].pos = "head"
    <2>1. q[1].id \in Ids(q, {"head"})
      BY <1>1, <1>4 DEF Ids
    <2>2. \A d \in Ids(q, {"head"}) : d <= q[1].id
      BY <1>2, <1>3, <1>4 DEF Ids, Ahead
    <2> QED BY <1>1, <2>1, <2>2 DEF Queue!NextUp
  <1>5. CASE q[1].pos = "tail"
    <2>1. q[1].id \in Ids(q, {"tail"})
      BY <1>1, <1>5 DEF Ids
    <2>2. Ids(q, {"head"}) = {}
      BY <1>2, <1>3, <1>5 DEF Ids, Ahead
    <2>3. \A d \in Ids(q, {"tail"}) : q[1].id <= d
      BY <1>2, <1>3, <1>5 DEF Ids, Ahead
    <2> QED BY <1>1, <2>1, <2>2, <2>3 DEF Queue!NextUp
  <1> QED BY <1>1, <1>2, <1>4, <1>5

\* The commands of a request: those for the front are sorted as they come,
\* those for the tail when they are reversed.
Numbered(w, where, n) == Ids(w, {where}) = (sent + 1)..(sent + n)

LEMMA FrontSorted ==
  ASSUME TypeOK, NEW n \in Nat \ {0}, NEW cmds \in Seq(QueueCommands),
         Fresh(cmds, "head", n)
  PROVE  Numbered(cmds, "head", n) /\ Ids(cmds, {"tail"}) = {} /\ Sorted(cmds)
  <1>1. /\ DOMAIN cmds = 1..n /\ sent \in Nat
        /\ \A i \in 1..n : cmds[i].id = sent + n + 1 - i /\ cmds[i].pos = "head"
    BY DEF Fresh, TypeOK
  <1>2. ASSUME NEW m \in (sent + 1)..(sent + n) PROVE m \in Ids(cmds, {"head"})
    <2>1. sent + n + 1 - m \in DOMAIN cmds /\ cmds[sent + n + 1 - m].id = m
      BY <1>1
    <2> QED BY <1>1, <2>1 DEF Ids
  <1>3. Ids(cmds, {"head"}) \subseteq (sent + 1)..(sent + n) /\ Ids(cmds, {"tail"}) = {}
    BY <1>1 DEF Ids
  <1>4. Sorted(cmds)
    BY <1>1 DEF Sorted, Ahead
  <1> QED BY <1>2, <1>3, <1>4 DEF Numbered

LEMMA BackSorted ==
  ASSUME TypeOK, NEW insert_at, NEW n \in Nat \ {0}, NEW cmds \in Seq(QueueCommands),
         Fresh(cmds, insert_at, n), \A i \in DOMAIN cmds : cmds[i].pos = "tail"
  PROVE  LET r == Reverse(cmds)
         IN  /\ Numbered(r, "tail", n) /\ Ids(r, {"head"}) = {} /\ Sorted(r)
             /\ \A i \in DOMAIN r : r[i].pos = "tail"
  <1> DEFINE r == Reverse(cmds)
  <1>1. DOMAIN r = 1..n /\ sent \in Nat /\ \A i \in 1..n : r[i].id = sent + i
    <2>1. DOMAIN r = 1..n /\ \A i \in 1..n : r[i].id = sent + i
      BY ReversedIds
    <2> HIDE DEF r
    <2> QED BY <2>1 DEF TypeOK
  <1>2. \A i \in 1..n : r[i].pos = "tail"
    <2>1. DOMAIN cmds = 1..n /\ Len(cmds) = n
      BY LenProperties DEF Fresh
    <2>2. \A i \in 1..n : n - i + 1 \in DOMAIN cmds /\ r[i] = cmds[n - i + 1]
      BY <2>1 DEF Reverse
    <2> QED BY <2>2
  <1> HIDE DEF r
  <1>3. ASSUME NEW m \in (sent + 1)..(sent + n) PROVE m \in Ids(r, {"tail"})
    <2>1. m - sent \in DOMAIN r /\ r[m - sent].id = m
      BY <1>1
    <2> QED BY <1>1, <1>2, <2>1 DEF Ids
  <1>4. Ids(r, {"tail"}) \subseteq (sent + 1)..(sent + n) /\ Ids(r, {"head"}) = {}
    BY <1>1, <1>2 DEF Ids
  <1>5. Sorted(r)
    BY <1>1, <1>2 DEF Sorted, Ahead
  <1> QED BY <1>1, <1>2, <1>3, <1>4, <1>5 DEF Numbered, r

\* A request leaves the queue sorted, and is an insertion of the promised queue.
LEMMA InsertSorted ==
  ASSUME TypeOK, QueueInv, QueueSorted, NEW insert_at \in Insertions \cup {"flush"},
         NEW n \in Nat \ {0}, NEW valid \in BOOLEAN,
         NEW cmds \in Seq(QueueCommands), Fresh(cmds, insert_at, n),
         \A i \in DOMAIN cmds :
           cmds[i].pos = IF insert_at = "flush" THEN "tail" ELSE insert_at
  PROVE  LET q == insert_command(insert_at, cmds, valid)
         IN  /\ Sorted(q)
             /\ <<Ids(q, {"head"}), Ids(q, {"tail"})>> \in Queue!Insertion((sent + 1)..(sent + n))
  <1> DEFINE r == Reverse(cmds)
             new == (sent + 1)..(sent + n)
             q == insert_command(insert_at, cmds, valid)
             H == Ids(command_q, {"head"})
             T == Ids(command_q, {"tail"})
  <1>1. DOMAIN r = 1..n /\ r \in Seq(QueueCommands) /\ \A i \in 1..n : r[i].id = sent + i
    BY ReversedIds
  <1>2. Queue!Insertion(new) = {<<H, T>>, <<H \cup new, T>>, <<H, T \cup new>>, <<{}, new>>}
    BY DEF Queue!Insertion
  <1>3. insert_at # "head" => /\ Ids(r, {"tail"}) = new /\ Ids(r, {"head"}) = {} /\ Sorted(r)
                              /\ \A i \in 1..n : r[i].pos = "tail"
    <2>1. CASE insert_at # "head"
      <3>1. \A i \in DOMAIN cmds : cmds[i].pos = "tail"
        BY <2>1 DEF Insertions
      <3>2. /\ Numbered(r, "tail", n) /\ Ids(r, {"head"}) = {} /\ Sorted(r)
            /\ \A i \in DOMAIN r : r[i].pos = "tail"
        BY <3>1, BackSorted
      <3> QED BY <1>1, <3>2 DEF Numbered
    <2> QED BY <2>1
  <1>4. insert_at = "head" => /\ Ids(cmds, {"head"}) = new /\ Ids(cmds, {"tail"}) = {}
                              /\ Sorted(cmds) /\ \A i \in DOMAIN cmds : cmds[i].pos = "head"
    BY FrontSorted DEF Numbered
  <1>5. /\ valid /\ insert_at = "head" => q = cmds \o command_q
        /\ valid /\ insert_at = "tail" => q = command_q \o r
        /\ valid /\ insert_at = "flush" => q = r
        /\ ~valid => q = command_q
    BY <1>1, ConcatEmptySeq DEF insert_command, insert_command_into_queue
  <1> HIDE DEF r, q
  <1>6. command_q \in Seq(QueueCommands) /\ sent \in Nat
    BY DEF TypeOK
  <1>7. \A i \in DOMAIN command_q : command_q[i].id \in Nat /\ command_q[i].id <= sent
    BY <1>6, IdsAreNumbers DEF QueueInv, Issued, Upto
  <1>8. CASE ~valid
    BY <1>2, <1>5, <1>8 DEF QueueSorted, q
  <1>9. CASE valid /\ insert_at = "flush"
    BY <1>2, <1>3, <1>5, <1>9 DEF q
  <1>10. CASE valid /\ insert_at = "tail"
    <2>1. AllAhead(command_q, r)
      <3>1. \A i \in 1..n : r[i].id \in Nat /\ sent < r[i].id
        BY <1>1, <1>6
      <3> QED BY <1>1, <1>3, <1>7, <1>6, <1>10, <3>1 DEF AllAhead, Ahead
    <2>2. Sorted(q)
      BY <1>1, <1>3, <1>5, <1>6, <1>10, <2>1, ConcatSorted DEF QueueSorted
    <2>3. Ids(q, {"head"}) = H \cup Ids(r, {"head"}) /\ Ids(q, {"tail"}) = T \cup Ids(r, {"tail"})
      <3>1. \A p : Ids(command_q \o r, p) = Ids(command_q, p) \cup Ids(r, p)
        BY <1>1, <1>6, IdsOfConcat
      <3> QED BY <1>5, <1>10, <3>1
    <2> HIDE DEF H, T, new
    <2>4. Ids(q, {"head"}) = H /\ Ids(q, {"tail"}) = T \cup new
      BY <1>3, <1>10, <2>3
    <2> QED BY <1>2, <2>2, <2>4 DEF q, new
  <1>11. CASE valid /\ insert_at = "head"
    <2>1. AllAhead(cmds, command_q)
      <3>1. \A i \in DOMAIN cmds : cmds[i].id \in Nat /\ sent < cmds[i].id
        BY <1>6 DEF Fresh
      <3> QED BY <1>4, <1>7, <1>6, <1>11, <3>1 DEF AllAhead, Ahead
    <2>2. Sorted(q)
      BY <1>4, <1>5, <1>6, <1>11, <2>1, ConcatSorted DEF QueueSorted
    <2>3. Ids(q, {"head"}) = Ids(cmds, {"head"}) \cup H /\ Ids(q, {"tail"}) = Ids(cmds, {"tail"}) \cup T
      <3>1. \A p : Ids(cmds \o command_q, p) = Ids(cmds, p) \cup Ids(command_q, p)
        BY <1>6, IdsOfConcat
      <3> QED BY <1>5, <1>11, <3>1
    <2> HIDE DEF H, T, new
    <2>4. Ids(q, {"head"}) = H \cup new /\ Ids(q, {"tail"}) = T
      BY <1>4, <1>11, <2>3
    <2> QED BY <1>2, <2>2, <2>4 DEF q, new
  <1> QED BY <1>8, <1>9, <1>10, <1>11 DEF Insertions

\* Taking the next command of a sorted queue q, or none, leaves it sorted and is
\* what the promised queue does with the commands of q.
LEMMA ExecuteNextHands ==
  ASSUME TypeOK, NEW q \in Seq(QueueCommands), Sorted(q), InOrder(q),
         NEW es, NEW doneC, NEW doneA, ExecuteNext(q, es, doneC, doneA)
  PROVE  /\ QueueSorted'
         /\ \/ Queue!Wait(Ids(q, {"head"}), Ids(q, {"tail"}))
            \/ Queue!Hand(Ids(q, {"head"}), Ids(q, {"tail"}))
  <1>1. CASE q # <<>> /\ command_q' = Tail(q) /\ started' = Append(started, Head(q))
    <2>1. QueueSorted'
      BY <1>1, TailSorted DEF QueueSorted
    <2>2. /\ Queue!NextUp(Head(q).id, Ids(q, {"head"}), Ids(q, {"tail"}))
          /\ Head(q).id \in Ids(q, {"head"}) \cup Ids(q, {"tail"})
      BY <1>1, HeadIsNextUp
    <2>3. \A p \in {"head", "tail"} : Ids(command_q', {p}) = Ids(q, {p}) \ {Head(q).id}
      BY <1>1, IdsOfTail
    <2>4. Ids(started', Insertions) = Ids(started, Insertions) \cup {Head(q).id}
      <3>1. started \in Seq(QueueCommands) /\ Head(q) \in QueueCommands
        BY <1>1 DEF TypeOK
      <3> QED BY <1>1, <3>1, IdsOfAppend
    <2> QED BY <2>1, <2>2, <2>3, <2>4 DEF Queue!Hand
  <1>2. CASE command_q' = q /\ UNCHANGED started
    BY <1>2 DEF QueueSorted, Queue!Wait
  <1> QED BY <1>1, <1>2 DEF ExecuteNext

LEMMA QueueUnchanged ==
  ASSUME QueueSorted, UNCHANGED <<proc, sent, command_q, started>>
  PROVE  QueueSorted' /\ UNCHANGED Queue!queueVars
  BY DEF QueueSorted, Queue!queueVars

\* A request, with what it starts, is one step of the promised queue.
LEMMA DialplanPublishes ==
  ASSUME TypeOK, QueueInv, QueueSorted, CallCommandReceived
  PROVE  QueueSorted' /\ \E n \in 1..(MaxCmds - sent) : Queue!Publish(n)
  <1>0. PICK insert_at \in Insertions \cup {"flush", "now"} :
          \E n \in 1..(IF insert_at = "now" THEN MaxNow ELSE MaxGroup) :
            /\ sent + n <= MaxCmds
            /\ \E apps \in [1..n -> IF insert_at = "now" THEN NowApps ELSE QueueApps],
                  call \in was_call, valid \in BOOLEAN :
                 Dialplan(insert_at, Request(insert_at, n, apps, call), valid)
    BY DEF CallCommandReceived
  <1>1. PICK n \in 1..(IF insert_at = "now" THEN MaxNow ELSE MaxGroup) :
            /\ sent + n <= MaxCmds
            /\ \E apps \in [1..n -> IF insert_at = "now" THEN NowApps ELSE QueueApps],
                  call \in was_call, valid \in BOOLEAN :
                 Dialplan(insert_at, Request(insert_at, n, apps, call), valid)
    BY <1>0
  <1>2. PICK apps \in [1..n -> IF insert_at = "now" THEN NowApps ELSE QueueApps],
             call \in was_call, valid \in BOOLEAN :
               Dialplan(insert_at, Request(insert_at, n, apps, call), valid)
    BY <1>1
  <1> DEFINE cmds == Request(insert_at, n, apps, call)
             q == insert_command(insert_at, cmds, valid)
             new == (sent + 1)..(sent + n)
  <1>3. n \in Nat \ {0} /\ sent \in Nat /\ n \in 1..(MaxCmds - sent)
    BY <1>1, BoundAssumption DEF TypeOK
  <1>4. /\ insert_at # "now" => cmds \in Seq(QueueCommands)
        /\ Len(cmds) = n
    BY <1>1, <1>3, RequestTyped
  <1>5. q \in Seq(QueueCommands)
    BY <1>4, InsertTyped
  <1>6. Sorted(q) /\ <<Ids(q, {"head"}), Ids(q, {"tail"})>> \in Queue!Insertion(new)
    <2>1. CASE insert_at = "now"
      <3>1. q = command_q
        BY <2>1 DEF insert_command
      <3> QED BY <3>1 DEF QueueSorted, Queue!Insertion
    <2>2. CASE insert_at # "now"
      <3>1. Fresh(cmds, insert_at, n)
        BY <1>3, RequestIds
      <3>2. \A i \in DOMAIN cmds : cmds[i].pos = IF insert_at = "flush" THEN "tail" ELSE insert_at
        BY DEF Request
      <3> HIDE DEF cmds
      <3> QED BY <1>3, <1>4, <2>2, <3>1, <3>2, InsertSorted
    <2> QED BY <2>1, <2>2
  <1>7. InOrder(q)
    <2>1. InOrder(started \o q)
      <3>1. CASE insert_at = "now"
        BY <3>1 DEF insert_command, QueueInv, Handed
      <3>2. CASE insert_at # "now"
        <4>1. Fresh(cmds, insert_at, n)
          BY <1>3, RequestIds
        <4> HIDE DEF cmds
        <4> QED BY <1>3, <1>4, <3>2, <4>1, InsertHanded DEF QueueInv
      <3> QED BY <3>1, <3>2
    <2> HIDE DEF q
    <2> QED BY <1>5, <2>1, ConcatInOrder DEF TypeOK
  <1>8. sent' = sent + n /\ proc = "up" /\ UNCHANGED proc
    BY <1>2, <1>4 DEF Dialplan
  <1>9. \E es : \/ ExecuteNext(q, es, {}, {})
                \/ command_q' = q /\ UNCHANGED started
    BY <1>2 DEF Dialplan
  <1> HIDE DEF q, cmds
  <1>10. /\ QueueSorted'
         /\ \/ Queue!Wait(Ids(q, {"head"}), Ids(q, {"tail"}))
            \/ Queue!Hand(Ids(q, {"head"}), Ids(q, {"tail"}))
    <2>1. CASE \E es : ExecuteNext(q, es, {}, {})
      BY <1>5, <1>6, <1>7, <2>1, ExecuteNextHands
    <2>2. CASE command_q' = q /\ UNCHANGED started
      BY <1>6, <2>2 DEF QueueSorted, Queue!Wait
    <2> QED BY <1>9, <2>1, <2>2
  <1>11. Queue!Publish(n)
    <2> DEFINE w == <<Ids(q, {"head"}), Ids(q, {"tail"})>>
    <2>1. w \in Queue!Insertion(new) /\ (Queue!Wait(w[1], w[2]) \/ Queue!Hand(w[1], w[2]))
      BY <1>6, <1>10
    <2> QED BY <1>8, <2>1 DEF Queue!Publish
  <1> QED BY <1>3, <1>10, <1>11

\* The continuation of a completion or a forced advance is one, or nothing.
LEMMA AdvanceProceeds ==
  ASSUME TypeOK, QueueInv, QueueSorted, proc = "up", NEW doneC, NEW doneA,
         ExecuteNext(command_q, {}, doneC, doneA), UNCHANGED <<proc, sent>>
  PROVE  QueueSorted' /\ [Queue!QueueNext]_Queue!queueVars
  <1>1. command_q \in Seq(QueueCommands) /\ started \in Seq(QueueCommands)
    BY DEF TypeOK
  <1>2. InOrder(command_q)
    BY <1>1, ConcatInOrder DEF QueueInv, Handed
  <1>3. /\ QueueSorted'
        /\ \/ Queue!Wait(Ids(command_q, {"head"}), Ids(command_q, {"tail"}))
           \/ Queue!Hand(Ids(command_q, {"head"}), Ids(command_q, {"tail"}))
    BY <1>1, <1>2, ExecuteNextHands DEF QueueSorted
  <1>4. CASE Queue!Wait(Ids(command_q, {"head"}), Ids(command_q, {"tail"}))
    BY <1>3, <1>4 DEF Queue!Wait, Queue!queueVars
  <1>5. CASE Queue!Hand(Ids(command_q, {"head"}), Ids(command_q, {"tail"}))
    BY <1>3, <1>5 DEF Queue!Proceed, Queue!QueueNext
  <1> QED BY <1>3, <1>4, <1>5

LEMMA QueueSteps ==
  ASSUME TypeOK, QueueInv, QueueSorted, [Next]_vars
  PROVE  QueueSorted' /\ [Queue!QueueNext]_Queue!queueVars
  <1>1. CASE CallCommandReceived
    BY <1>1, DialplanPublishes DEF Queue!QueueNext
  <1>2. CASE \E t \in completes : EventExecuteComplete(t)
    BY <1>2, AdvanceProceeds, QueueUnchanged DEF EventExecuteComplete, queueVars
  <1>3. CASE \E a \in advances : ForceQueueAdvance(a)
    BY <1>3, AdvanceProceeds, QueueUnchanged DEF ForceQueueAdvance, queueVars
  <1>4. ASSUME proc = "up", proc' # "up", UNCHANGED <<sent, command_q, started>>
        PROVE  QueueSorted' /\ Queue!QueueNext
    BY <1>4 DEF QueueSorted, Queue!Close, Queue!QueueNext
  <1>5. CASE KeepAliveExpired \/ SanityCheckFails
    BY <1>4, <1>5 DEF KeepAliveExpired, SanityCheckFails, Stop, queueVars
  <1>6. CASE \E e \in CallEvents : CallEventReceived(e)
    <2>1. UNCHANGED <<sent, command_q, started>> /\ proc = "up" /\ proc' \in {"up", "transferred"}
      BY <1>6 DEF CallEventReceived, LegStep, queueVars, AddLeg, RmLeg, Transferer, Transferee
    <2> QED BY <1>4, <2>1, QueueUnchanged
  <1>7. CASE \/ \E c \in destroys : ChannelDestroyed(c)
             \/ KeepAliveFires \/ NodeDown \/ IsNodeUp
             \/ \E q \in Controllers : ControllerQueue(q)
             \/ \E t \in running : FsCompletes(t)
             \/ \E t \in running : FsCompletesUnheard(t)
             \/ \E c \in live : FsHangup(c)
             \/ \E up \in BOOLEAN : FsConnection(up)
    <2>1. UNCHANGED <<proc, sent, command_q, started>>
      BY <1>7 DEF ChannelDestroyed, KeepAliveFires, NodeDown, IsNodeUp, ControllerQueue, LegStep,
         FsCompletes, FsCompletesUnheard, FsHangup, FsConnection, SwitchStep, queueVars
    <2> QED BY <2>1, QueueUnchanged
  <1>8. CASE UNCHANGED vars
    BY <1>8, QueueUnchanged DEF vars, queueVars
  <1> QED BY <1>1, <1>2, <1>3, <1>5, <1>6, <1>7, <1>8 DEF Next

\* The listener hands out exactly the commands the applications are promised, in
\* the promised order, for every number of commands, lists and calls.
THEOREM QueueIsAsPromised == Spec => ImplementsQueue
  <1>1. Init => QueueSorted /\ Queue!QueueInit
    <2> SUFFICES ASSUME Init PROVE QueueSorted /\ Queue!QueueInit
      OBVIOUS
    <2>1. QueueSorted
      BY DEF Init, QueueSorted, Sorted
    <2>2. Queue!QueueInit
      BY DEF Init, Queue!QueueInit, Ids
    <2> QED BY <2>1, <2>2
  <1> QED BY <1>1, InitTyped, StepTyped, QueueInvInit, QueueInvStep, QueueSteps, PTL
          DEF Spec, ImplementsQueue, Queue!QueueSpec
=============================================================================
