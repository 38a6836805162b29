---------------------- MODULE CallControlExecutionProofs ----------------------
(***************************************************************************)
(* Theorems about the call control listener: queued commands run one at a  *)
(* time, and no keep-alive timer ends it while its call is up.             *)
(***************************************************************************)
EXTENDS CallControlProofs

-----------------------------------------------------------------------------
(* One queued command at a time.  Of what a queued command left behind and *)
(* the queue listens to there is a single token on the switch, a single    *)
(* completion, or a single advance, and as long as it is there the         *)
(* listener has a current application.                                     *)

Single(o) ==
  /\ \A m, n \in (o.fs \cup o.cast) \cap QueueNames : m = n
  /\ o.fs \cap o.cast \cap QueueNames = {}
  /\ o.raise => (o.fs \cup o.cast) \cap QueueNames = {}

Quiet(o) == ~o.raise /\ (o.fs \cup o.cast) \cap QueueNames = {}

OfQueue(S) == {x \in S : x.by = "queue" /\ x.name \in QueueNames}

Pending == OfQueue(running) \cup OfQueue(completes) \cup advances

OneInv ==
  /\ \A t, u \in OfQueue(running) \cup OfQueue(completes) : t = u
  /\ OfQueue(running) \cap OfQueue(completes) = {}
  /\ advances # {} => OfQueue(running) = {} /\ OfQueue(completes) = {}
  /\ \A a, b \in advances : a = b /\ a.by = "queue"
  /\ Pending # {} => current_app # "undefined"
  /\ \A t \in running \cup completes : t.by # "queue" => t.name \notin QueueNames

\* A queued command completes once or raises, whatever happens to the switch.
LEMMA QueuedIsSingle ==
  ASSUME NamesTellApart, NEW c \in QueueCommands, NEW o \in execute_control_request(c)
  PROVE  Single(o)
  <1>1. \A p \in get_fs_app(c.app) : Single(p)
    BY DEF NamesTellApart, QueueCommands, Single
  <1>2. Single(Returned) /\ Single(Raised)
    BY DEF Single, Returned, Raised, Outcome
  <1>3. get_fs_app(c.app) \subseteq OutcomeType
    BY OutcomesTyped DEF QueueCommands, Apps
  <1>4. ASSUME NEW p \in get_fs_app(c.app)
        PROVE  Single(Unreached(c.app, p))
    <2>1. Single([p EXCEPT !.fs = {}])
      BY <1>1, <1>3 DEF Single, OutcomeType
    <2> QED BY <1>2, <2>1 DEF Unreached
  <1> QED BY <1>1, <1>2, <1>4 DEF execute_control_request, exec_cmd

\* An immediate command never advances the queue.
LEMMA ImmediateIsQuiet ==
  ASSUME NamesTellApart, NEW c \in NowCommands, NEW o \in execute_control_request(c)
  PROVE  Quiet(o)
  <1>1. \A p \in get_fs_app(c.app) : Quiet(p)
    BY DEF NamesTellApart, NowCommands, Quiet
  <1>2. Quiet(Returned)
    BY DEF Quiet, Returned, Outcome
  <1>3. get_fs_app(c.app) \subseteq OutcomeType
    BY OutcomesTyped DEF NowCommands, Apps
  <1>4. c.app \notin XFEREXT
    <2>1. ASSUME c.app \in XFEREXT
          PROVE  \E p \in get_fs_app(c.app) : p.raise
      <3>1. \A n : TimedOut(n).raise
        BY DEF TimedOut, Outcome
      <3>2. \E n : TimedOut(n) \in get_fs_app(c.app)
        BY <2>1 DEF XFEREXT, get_fs_app
      <3> QED BY <3>1, <3>2
    <2> QED BY <1>1, <2>1 DEF Quiet
  <1>5. ASSUME NEW p \in get_fs_app(c.app)
        PROVE  Quiet(Unreached(c.app, p))
    <2>1. Quiet([p EXCEPT !.fs = {}])
      BY <1>1, <1>3 DEF Quiet, OutcomeType
    <2> QED BY <1>4, <2>1 DEF Unreached
  <1> QED BY <1>1, <1>2, <1>5 DEF execute_control_request, exec_cmd

\* The names of what is not the queue's tell nothing to the queue.
Silent(S) == \A t \in S : t.by # "queue" => t.name \notin QueueNames

QuietOnes(es) == \A e \in es : e.by # "queue" /\ Quiet(e.out)

\* What the executions es add to the switch and to the mailbox.
FsOf(es)    == UNION {TokensOf(e, e.out.fs) : e \in es}
CastOf(es)  == UNION {TokensOf(e, e.out.cast) : e \in es}
RaiseOf(es) == UNION {Raises(e) : e \in es}

\* Executions on behalf of no queued command add nothing that concerns the queue.
LEMMA QuietTokens ==
  ASSUME NEW es, QuietOnes(es)
  PROVE  /\ OfQueue(FsOf(es)) = {} /\ OfQueue(CastOf(es)) = {} /\ RaiseOf(es) = {}
         /\ Silent(FsOf(es)) /\ Silent(CastOf(es))
  <1>1. ASSUME NEW e \in es, NEW names, names \subseteq e.out.fs \cup e.out.cast,
               NEW t \in TokensOf(e, names)
        PROVE  t.by # "queue" /\ t.name \notin QueueNames
    <2>1. t.by = e.by /\ t.name \in names
      BY <1>1 DEF TokensOf
    <2> QED BY <1>1, <2>1 DEF QuietOnes, Quiet
  <1>2. \A e \in es : Raises(e) = {}
    BY DEF QuietOnes, Quiet, Raises
  <1>3. RaiseOf(es) = {}
    BY <1>2 DEF RaiseOf
  <1>4. OfQueue(FsOf(es)) = {} /\ Silent(FsOf(es))
    BY <1>1 DEF OfQueue, Silent, FsOf
  <1>5. OfQueue(CastOf(es)) = {} /\ Silent(CastOf(es))
    BY <1>1 DEF OfQueue, Silent, CastOf
  <1> QED BY <1>3, <1>4, <1>5

LEMMA QuietExecutes ==
  ASSUME NEW es, QuietOnes(es), NEW doneC, NEW doneA, Execute(es, doneC, doneA),
         Silent(running \cup completes)
  PROVE  /\ OfQueue(running') = OfQueue(running)
         /\ OfQueue(completes') = OfQueue(completes) \ doneC
         /\ advances' = advances \ doneA
         /\ Silent(running' \cup completes')
  <1>1. /\ running' = running \cup FsOf(es)
        /\ completes' = (completes \ doneC) \cup CastOf(es)
        /\ advances' = (advances \ doneA) \cup RaiseOf(es)
    BY DEF Execute, FsOf, CastOf, RaiseOf
  <1>2. /\ OfQueue(FsOf(es)) = {} /\ OfQueue(CastOf(es)) = {} /\ RaiseOf(es) = {}
        /\ Silent(FsOf(es)) /\ Silent(CastOf(es))
    BY QuietTokens
  <1>3. OfQueue(running') = OfQueue(running) /\ OfQueue(completes') = OfQueue(completes) \ doneC
    BY <1>1, <1>2 DEF OfQueue
  <1>4. Silent(running' \cup completes')
    BY <1>1, <1>2 DEF Silent
  <1> QED BY <1>1, <1>2, <1>3, <1>4

\* Taking the next command when nothing of the queue is pending.
LEMMA NextIsOne ==
  ASSUME TypeOK, NamesTellApart, NEW q \in Seq(QueueCommands), NEW es, QuietOnes(es),
         NEW doneC, NEW doneA, ExecuteNext(q, es, doneC, doneA),
         Silent(running \cup completes),
         OfQueue(running) = {}, OfQueue(completes) \ doneC = {}, advances \ doneA = {}
  PROVE  OneInv'
  <1>1. CASE /\ ~is_node_up \/ q = <<>>
             /\ Execute(es, doneC, doneA)
    <2>1. /\ OfQueue(running') = {} /\ OfQueue(completes') = {} /\ advances' = {}
          /\ Silent(running' \cup completes')
      BY <1>1, QuietExecutes
    <2> QED BY <2>1 DEF OneInv, Pending, Silent
  <1>2. CASE /\ is_node_up /\ q # <<>>
             /\ \E o \in execute_control_request(Head(q)) :
                  Execute(es \cup {Execution(Head(q), "queue", o)}, doneC, doneA)
             /\ command_q' = Tail(q) /\ current_app' = Head(q).app
    <2>1. PICK o \in execute_control_request(Head(q)) :
            Execute(es \cup {Execution(Head(q), "queue", o)}, doneC, doneA)
      BY <1>2
    <2>2. Head(q) \in QueueCommands
      BY <1>2
    <2>3. Single(o)
      BY <2>2, QueuedIsSingle
    <2>4. current_app' # "undefined"
      BY <1>2, <2>2, AppAssumption DEF QueueCommands
    <2> DEFINE x == Execution(Head(q), "queue", o)
               R == TokensOf(x, o.fs)
               C == TokensOf(x, o.cast)
    <2>5. /\ \A t \in R \cup C : t.by = "queue" /\ t.name \in o.fs \cup o.cast
          /\ \A t, u \in R \cup C : t.name = u.name => t = u
          /\ \A t \in R : t.name \in o.fs
          /\ \A t \in C : t.name \in o.cast
          /\ x.out = o
      BY DEF TokensOf, Execution
    <2>6. \A t, u \in OfQueue(R) \cup OfQueue(C) : t = u
      <3>1. \A t \in OfQueue(R) \cup OfQueue(C) :
              t \in R \cup C /\ t.name \in (o.fs \cup o.cast) \cap QueueNames
        BY <2>5 DEF OfQueue
      <3> HIDE DEF R, C
      <3> QED BY <2>3, <2>5, <3>1 DEF Single
    <2>7. OfQueue(R) \cap OfQueue(C) = {}
      <3>1. \A t \in OfQueue(R) \cap OfQueue(C) : t.name \in o.fs \cap o.cast \cap QueueNames
        BY <2>5 DEF OfQueue
      <3> QED BY <2>3, <3>1 DEF Single
    <2>8. /\ \A a, b \in Raises(x) : a = b /\ a.by = "queue"
          /\ Raises(x) # {} => OfQueue(R) = {} /\ OfQueue(C) = {}
      <3>1. Raises(x) # {} => o.raise
        BY <2>5 DEF Raises
      <3>2. o.raise => OfQueue(R) = {} /\ OfQueue(C) = {}
        <4>1. \A t \in OfQueue(R) \cup OfQueue(C) : t.name \in (o.fs \cup o.cast) \cap QueueNames
          BY <2>5 DEF OfQueue
        <4> HIDE DEF R, C
        <4> QED BY <2>3, <4>1 DEF Single
      <3>3. \A a, b \in Raises(x) : a = b /\ a.by = "queue"
        BY DEF Raises, Execution
      <3> QED BY <3>1, <3>2, <3>3
    <2> DEFINE run == running \cup FsOf(es)
               com == (completes \ doneC) \cup CastOf(es)
    <2>9. FsOf({x}) = R /\ CastOf({x}) = C /\ RaiseOf({x}) = Raises(x)
      BY <2>5 DEF FsOf, CastOf, RaiseOf
    <2> HIDE DEF x, R, C
    <2>10. running' = run \cup R /\ completes' = com \cup C
           /\ advances' = (advances \ doneA) \cup RaiseOf(es) \cup Raises(x)
      <3>1. Execute(es \cup {x}, doneC, doneA)
        BY <2>1 DEF x
      <3>2. /\ FsOf(es \cup {x}) = FsOf(es) \cup FsOf({x})
            /\ CastOf(es \cup {x}) = CastOf(es) \cup CastOf({x})
            /\ RaiseOf(es \cup {x}) = RaiseOf(es) \cup RaiseOf({x})
        BY DEF FsOf, CastOf, RaiseOf
      <3>3. /\ running' = running \cup FsOf(es \cup {x})
            /\ completes' = (completes \ doneC) \cup CastOf(es \cup {x})
            /\ advances' = (advances \ doneA) \cup RaiseOf(es \cup {x})
        BY <3>1 DEF Execute, FsOf, CastOf, RaiseOf
      <3> QED BY <2>9, <3>2, <3>3
    <2>11. OfQueue(run) = {} /\ OfQueue(com) = {} /\ RaiseOf(es) = {} /\ Silent(run \cup com)
      <3>1. /\ OfQueue(FsOf(es)) = {} /\ OfQueue(CastOf(es)) = {} /\ RaiseOf(es) = {}
            /\ Silent(FsOf(es)) /\ Silent(CastOf(es))
        BY QuietTokens
      <3>2. OfQueue(run) = {} /\ OfQueue(com) = {}
        BY <3>1 DEF OfQueue
      <3>3. Silent(run \cup com)
        BY <3>1 DEF Silent
      <3> QED BY <3>1, <3>2, <3>3
    <2> HIDE DEF run, com
    <2>12. /\ OfQueue(running') = OfQueue(R) /\ OfQueue(completes') = OfQueue(C)
           /\ advances' = Raises(x)
      BY <2>5, <2>10, <2>11 DEF OfQueue
    <2>13. Silent(running' \cup completes')
      BY <2>5, <2>10, <2>11 DEF Silent
    <2> QED BY <2>4, <2>6, <2>7, <2>8, <2>12, <2>13 DEF OneInv, Pending, Silent
  <1> QED BY <1>1, <1>2 DEF ExecuteNext

\* A request finds nothing of the queue pending, or leaves the queue waiting.
LEMMA DialplanIsOne ==
  ASSUME TypeOK, NamesTellApart, OneInv, CallCommandReceived
  PROVE  OneInv'
  <1>0. PICK insert_at \in Insertions \cup {"flush", "now"} :
          \E n \in 1..(IF insert_at = "now" THEN MaxNow ELSE MaxGroup) :
            /\ sent + n <= MaxCmds
            /\ \E apps \in [1..n -> IF insert_at = "now" THEN NowApps ELSE QueueApps],
                  call \in was_call, valid \in BOOLEAN :
                 Dialplan(insert_at, Request(insert_at, n, apps, call), valid)
    BY DEF CallCommandReceived
  <1>1. PICK n \in 1..(IF insert_at = "now" THEN MaxNow ELSE MaxGroup) :
            /\ sent + n <= MaxCmds
            /\ \E apps \in [1..n -> IF insert_at = "now" THEN NowApps ELSE QueueApps],
                  call \in was_call, valid \in BOOLEAN :
                 Dialplan(insert_at, Request(insert_at, n, apps, call), valid)
    BY <1>0
  <1>2. PICK apps \in [1..n -> IF insert_at = "now" THEN NowApps ELSE QueueApps],
             call \in was_call, valid \in BOOLEAN :
               Dialplan(insert_at, Request(insert_at, n, apps, call), valid)
    BY <1>1
  <1> DEFINE cmds == Request(insert_at, n, apps, call)
             q == insert_command(insert_at, cmds, valid)
  <1>3. n \in Nat \ {0}
    BY BoundAssumption
  <1>4. /\ insert_at = "now" => cmds \in Seq(NowCommands)
        /\ insert_at # "now" => cmds \in Seq(QueueCommands)
        /\ Len(cmds) = n
    BY <1>1, <1>3, RequestTyped
  <1>5. insert_at = "now" => n = 1
    BY DEF NamesTellApart
  <1> HIDE DEF cmds
  <1>6. q \in Seq(QueueCommands)
    BY <1>4, InsertTyped
  <1>7. PICK k \in NowCount(insert_at, cmds, valid) : \E es \in NowExecutions(cmds, k) :
          \/ current_app = "undefined" /\ ExecuteNext(q, es, {}, {})
          \/ /\ current_app # "undefined"
             /\ Execute(es, {}, {}) /\ UNCHANGED current_app
    BY <1>2 DEF Dialplan, cmds
  <1>8. PICK es \in NowExecutions(cmds, k) :
          \/ current_app = "undefined" /\ ExecuteNext(q, es, {}, {})
          \/ /\ current_app # "undefined"
             /\ Execute(es, {}, {}) /\ UNCHANGED current_app
    BY <1>7
  <1>9. QuietOnes(es)
    <2>1. CASE k = 0
      BY <2>1 DEF NowExecutions, QuietOnes
    <2>2. CASE k # 0
      <3>1. insert_at = "now"
        BY <2>2 DEF NowCount
      <3>2. k = 1 /\ Len(cmds) = 1 /\ cmds[1] \in NowCommands
        <4>1. cmds \in Seq(NowCommands) /\ Len(cmds) = 1
          BY <3>1, <1>4, <1>5
        <4>2. k = 1
          BY <2>2, <3>1, <4>1 DEF NowCount
        <4>3. cmds[1] \in NowCommands
          BY <4>1
        <4> QED BY <4>1, <4>2, <4>3
      <3>3. NowOutcomes(cmds, 1) = execute_control_request(cmds[1])
        BY <3>2 DEF NowOutcomes
      <3>4. \A e \in es : e.by = "now" /\ e.out \in execute_control_request(cmds[1])
        BY <3>2, <3>3 DEF NowExecutions, Execution
      <3> QED BY <3>2, <3>4, ImmediateIsQuiet DEF QuietOnes
    <2> QED BY <2>1, <2>2
  <1>10. Silent(running \cup completes)
    BY DEF OneInv, Silent
  <1> HIDE DEF q
  <1>11. CASE current_app = "undefined" /\ ExecuteNext(q, es, {}, {})
    <2>1. OfQueue(running) = {} /\ OfQueue(completes) = {} /\ advances = {}
      BY <1>11 DEF OneInv, Pending
    <2>3. OfQueue(completes) \ {} = {} /\ advances \ {} = {}
      BY <2>1
    <2> QED BY <1>6, <1>9, <1>10, <1>11, <2>1, <2>3, NextIsOne
  <1>12. CASE /\ current_app # "undefined"
              /\ Execute(es, {}, {}) /\ UNCHANGED current_app
    <2>1. /\ OfQueue(running') = OfQueue(running)
          /\ OfQueue(completes') = OfQueue(completes) \ {}
          /\ advances' = advances \ {}
          /\ Silent(running' \cup completes')
      BY <1>9, <1>10, <1>12, QuietExecutes
    <2>2. OfQueue(completes') = OfQueue(completes) /\ advances' = advances
      BY <2>1
    <2> QED BY <1>12, <2>1, <2>2 DEF OneInv, Pending, Silent
  <1> QED BY <1>8, <1>11, <1>12

LEMMA NobodyExecutes == QuietOnes({})
  BY DEF QuietOnes

\* A completion only advances the queue when it is the pending one.
LEMMA CompleteIsOne ==
  ASSUME TypeOK, NamesTellApart, OneInv, NEW t \in completes, EventExecuteComplete(t)
  PROVE  OneInv'
  <1>1. CASE /\ t.name \in convert_whistle_app_name(current_app)
             /\ ExecuteNext(command_q, {}, {t}, {})
    <2>1. current_app \in QueueApps
      <3>1. convert_whistle_app_name("undefined") = {}
        BY DEF convert_whistle_app_name, FS_APPLICATION_NAMES
      <3> QED BY <1>1, <3>1 DEF TypeOK
    <2>2. t.name \in QueueNames
      BY <1>1, <2>1 DEF QueueNames
    <2>3. t \in OfQueue(completes)
      BY <2>2 DEF OneInv, OfQueue
    <2>4. OfQueue(running) = {} /\ OfQueue(completes) \ {t} = {}
      BY <2>3 DEF OneInv
    <2>5. advances \ {} = {}
      BY <2>3 DEF OneInv
    <2>6. command_q \in Seq(QueueCommands) /\ Silent(running \cup completes)
      BY DEF TypeOK, OneInv, Silent
    <2> QED BY <1>1, <2>4, <2>5, <2>6, NobodyExecutes, NextIsOne
  <1>2. CASE completes' = completes \ {t} /\ UNCHANGED <<queueVars, running, advances>>
    <2>1. OfQueue(completes') \subseteq OfQueue(completes) /\ UNCHANGED current_app
      BY <1>2 DEF OfQueue, queueVars
    <2> QED BY <1>2, <2>1 DEF OneInv, Pending, OfQueue
  <1> QED BY <1>1, <1>2 DEF EventExecuteComplete

\* The only exceptions are those of queued commands, which leave nothing else.
LEMMA AdvanceIsOne ==
  ASSUME TypeOK, NamesTellApart, OneInv, NEW a \in advances, ForceQueueAdvance(a)
  PROVE  OneInv'
  <1>1. CASE ExecuteNext(command_q, {}, {}, {a})
    <2>1. OfQueue(running) = {} /\ OfQueue(completes) \ {} = {} /\ advances \ {a} = {}
      BY DEF OneInv
    <2>2. command_q \in Seq(QueueCommands) /\ Silent(running \cup completes)
      BY DEF TypeOK, OneInv, Silent
    <2> QED BY <1>1, <2>1, <2>2, NobodyExecutes, NextIsOne
  <1>2. CASE advances' = advances \ {a} /\ UNCHANGED <<queueVars, running, completes>>
    BY <1>2 DEF OneInv, Pending, OfQueue, queueVars
  <1> QED BY <1>1, <1>2 DEF ForceQueueAdvance

\* No queued application is one that runs after a hangup.
LEMMA DestroyedIsOne ==
  ASSUME TypeOK, NamesTellApart, OneInv, NEW c \in destroys, ChannelDestroyed(c)
  PROVE  OneInv'
  <1>1. post_hangup_commands = {}
    <2>1. \A i \in DOMAIN command_q : command_q[i].app \in QueueApps
      <3>1. \A x \in QueueCommands : x.app \in QueueApps
        BY DEF QueueCommands
      <3>2. \A i \in DOMAIN command_q : command_q[i] \in QueueCommands
        BY DEF TypeOK
      <3> QED BY <3>1, <3>2
    <2> QED BY <2>1 DEF NamesTellApart, post_hangup_commands
  <1>2. Execute({}, {}, {})
    BY <1>1 DEF ChannelDestroyed
  <1>3. UNCHANGED <<running, completes, advances>>
    BY <1>2 DEF Execute
  <1> QED BY <1>3 DEF ChannelDestroyed, queueVars, OneInv, Pending, OfQueue

LEMMA OneStep ==
  ASSUME TypeOK, NamesTellApart, OneInv, [Next]_vars
  PROVE  OneInv'
  <1>1. ASSUME UNCHANGED <<current_app, running, completes, advances>>
        PROVE  OneInv'
    BY <1>1 DEF OneInv, Pending, OfQueue
  <1>2. CASE CallCommandReceived
    BY <1>2, DialplanIsOne
  <1>3. CASE \E t \in completes : EventExecuteComplete(t)
    BY <1>3, CompleteIsOne
  <1>4. CASE \E a \in advances : ForceQueueAdvance(a)
    BY <1>4, AdvanceIsOne
  <1>5. CASE \E c \in destroys : ChannelDestroyed(c)
    BY <1>5, DestroyedIsOne
  <1>6. ASSUME NEW t \in running, FsCompletes(t)
        PROVE  OneInv'
    <2>1. running' = running \ {t} /\ completes' = completes \cup {t}
          /\ UNCHANGED <<current_app, advances>>
      BY <1>6 DEF FsCompletes, SwitchStep, queueVars
    <2>2. /\ OfQueue(running') = OfQueue(running) \ {t}
          /\ OfQueue(running') \cup OfQueue(completes') = OfQueue(running) \cup OfQueue(completes)
      BY <2>1 DEF OfQueue
    <2>3. OfQueue(running') \cap OfQueue(completes') = {}
      BY <2>1 DEF OneInv, OfQueue
    <2>4. running' \cup completes' = running \cup completes
      BY <2>1
    <2>5. Pending' = Pending
      BY <2>1, <2>2 DEF Pending, OfQueue
    <2> QED BY <2>1, <2>2, <2>3, <2>4, <2>5 DEF OneInv
  <1>7. ASSUME NEW t \in running, FsCompletesUnheard(t)
        PROVE  OneInv'
    <2>1. running' = running \ {t} /\ UNCHANGED <<completes, current_app, advances>>
      BY <1>7 DEF FsCompletesUnheard, SwitchStep, queueVars
    <2>2. OfQueue(running') \subseteq OfQueue(running)
      BY <2>1 DEF OfQueue
    <2> QED BY <2>1, <2>2 DEF OneInv, Pending, OfQueue
  <1>8. CASE \/ KeepAliveFires \/ KeepAliveExpired \/ SanityCheckFails
             \/ \E q \in Controllers : ControllerQueue(q)
             \/ \E e \in CallEvents : CallEventReceived(e)
             \/ NodeDown \/ IsNodeUp
             \/ \E c \in live : FsHangup(c)
             \/ \E up \in BOOLEAN : FsConnection(up)
    BY <1>1, <1>8 DEF KeepAliveFires, KeepAliveExpired, SanityCheckFails, Stop, ControllerQueue,
       CallEventReceived, LegStep, NodeDown, IsNodeUp, FsHangup, FsConnection, SwitchStep,
       queueVars, mailVars
  <1>9. CASE UNCHANGED vars
    BY <1>1, <1>9 DEF vars, queueVars, mailVars
  <1> QED BY <1>2, <1>3, <1>4, <1>5, <1>6, <1>7, <1>8, <1>9 DEF Next

\* Queued commands run one at a time: the next one is started only when the
\* previous one has completed or raised, wherever the names of completions tell
\* the commands apart.
THEOREM RunsOneAtATime == Spec => []OneAtATime
  <1>1. Init => OneInv
    BY DEF Init, OneInv, Pending, OfQueue
  <1>2. CASE NamesTellApart
    <2>1. TypeOK /\ OneInv /\ [Next]_vars => OneInv'
      BY <1>2, OneStep
    <2>2. OneInv => OneAtATime
      BY DEF OneInv, OneAtATime, OfQueue
    <2> QED BY <1>1, <2>1, <2>2, InitTyped, StepTyped, PTL DEF Spec
  <1>3. CASE ~NamesTellApart
    <2>1. OneAtATime
      BY <1>3 DEF OneAtATime
    <2> QED BY <2>1, PTL
  <1> QED BY <1>2, <1>3

-----------------------------------------------------------------------------
(* The end of the listener.  Until the call takes another id, a keep-alive *)
(* is started only for the end of its channel, and only then can one       *)
(* expire.                                                                 *)

GoneInv ==
  /\ callid \in was_call
  /\ ka_running \/ expired # {} => keep_alive_ref # 0
  /\ was_call = {callid} => (destroys # {} \/ keep_alive_ref # 0 => callid \notin live)

\* A step that leaves the call, its channels and its timers alone.
LEMMA GoneSame ==
  ASSUME GoneInv, StopOnlyWhenGone,
         UNCHANGED <<proc, callid, was_call, live, destroys, kaVars>>
  PROVE  GoneInv' /\ StopOnlyWhenGone'
BY DEF GoneInv, StopOnlyWhenGone, kaVars

LEMMA GoneStep ==
  ASSUME TypeOK, GoneInv, StopOnlyWhenGone, [Next]_vars
  PROVE  GoneInv' /\ StopOnlyWhenGone'
  <1>0. keep_alive_ref \in Nat /\ keep_alive_ref + 1 # 0
    BY DEF TypeOK
  <1>1. CASE CallCommandReceived
    <2>1. /\ UNCHANGED <<proc, callid, was_call, live, destroys>> /\ proc = "up"
          /\ get_keep_alive_ref
      BY <1>1 DEF CallCommandReceived, Dialplan, legVars
    <2>2. /\ keep_alive_ref' = 0 <=> keep_alive_ref = 0
          /\ ka_running' \/ expired' # {} => keep_alive_ref' # 0
      BY <1>0, <2>1 DEF get_keep_alive_ref, kaVars, GoneInv
    <2> QED BY <2>1, <2>2 DEF GoneInv, StopOnlyWhenGone
  <1>2. ASSUME NEW c \in destroys, ChannelDestroyed(c)
        PROVE  GoneInv' /\ StopOnlyWhenGone'
    <2>1. /\ UNCHANGED <<proc, callid, was_call, live>> /\ proc = "up" /\ destroys # {}
      BY <1>2 DEF ChannelDestroyed, legVars
    <2>2. /\ ka_running' \/ expired' # {} => keep_alive_ref' # 0
      BY <1>2 DEF ChannelDestroyed, kaVars, GoneInv
    <2> QED BY <2>1, <2>2 DEF GoneInv, StopOnlyWhenGone
  <1>3. CASE KeepAliveFires
    BY <1>3 DEF KeepAliveFires, legVars, GoneInv, StopOnlyWhenGone
  <1>4. CASE KeepAliveExpired
    <2>1. /\ UNCHANGED <<callid, was_call, live, destroys, kaVars>>
          /\ proc' = "expired" /\ expired # {}
      BY <1>4 DEF KeepAliveExpired, Stop, legVars
    <2> QED BY <2>1 DEF GoneInv, StopOnlyWhenGone, kaVars
  <1>5. CASE SanityCheckFails
    <2>1. UNCHANGED <<callid, was_call, live, destroys, kaVars>> /\ proc' = "insane"
      BY <1>5 DEF SanityCheckFails, Stop, legVars
    <2> QED BY <2>1 DEF GoneInv, StopOnlyWhenGone, kaVars
  <1>6. ASSUME NEW e \in CallEvents, CallEventReceived(e)
        PROVE  GoneInv' /\ StopOnlyWhenGone'
    <2>1. UNCHANGED <<live, destroys, kaVars>> /\ proc = "up"
      BY <1>6 DEF CallEventReceived, LegStep
    <2>2. CASE AddLeg(e.leg) \/ RmLeg(e.leg)
      <3>1. UNCHANGED <<proc, callid, was_call>>
        BY <2>2 DEF AddLeg, RmLeg
      <3> QED BY <2>1, <3>1, GoneSame
    <2>3. CASE Transferer
      <3>1. UNCHANGED <<callid, was_call>> /\ proc' = "transferred"
        BY <2>3 DEF Transferer
      <3> QED BY <2>1, <3>1 DEF GoneInv, StopOnlyWhenGone, kaVars
    <2>4. ASSUME NEW new \in live, Transferee(e.leg, new)
          PROVE  GoneInv' /\ StopOnlyWhenGone'
      <3>1. callid' = new /\ was_call' = was_call \cup {new} /\ proc' = proc
        BY <2>4 DEF Transferee
      <3>2. was_call' = {callid'} => was_call = {callid} /\ callid' = callid
        BY <3>1 DEF GoneInv
      <3> QED BY <2>1, <3>1, <3>2 DEF GoneInv, StopOnlyWhenGone, kaVars
    <2> QED BY <1>6, <2>2, <2>3, <2>4 DEF CallEventReceived
  <1>7. ASSUME NEW c \in live, FsHangup(c)
        PROVE  GoneInv' /\ StopOnlyWhenGone'
    <2>1. /\ UNCHANGED <<proc, callid, was_call, kaVars>> /\ proc = "up"
          /\ live' = live \ {c}
          /\ destroys' = destroys \/ c = callid
      BY <1>7 DEF FsHangup, SwitchStep, legVars
    <2> QED BY <2>1 DEF GoneInv, StopOnlyWhenGone, kaVars
  <1>8. CASE \/ \E t \in completes : EventExecuteComplete(t)
             \/ \E a \in advances : ForceQueueAdvance(a)
             \/ \E q \in Controllers : ControllerQueue(q)
             \/ NodeDown \/ IsNodeUp
             \/ \E t \in running : FsCompletes(t)
             \/ \E t \in running : FsCompletesUnheard(t)
             \/ \E up \in BOOLEAN : FsConnection(up)
    <2>1. UNCHANGED <<proc, callid, was_call, live, destroys, kaVars>>
      BY <1>8 DEF EventExecuteComplete, ForceQueueAdvance, ControllerQueue, LegStep, NodeDown,
         IsNodeUp, FsCompletes, FsCompletesUnheard, FsConnection, SwitchStep, legVars
    <2> QED BY <2>1, GoneSame
  <1>9. CASE UNCHANGED vars
    BY <1>9, GoneSame DEF vars, legVars
  <1> QED BY <1>1, <1>2, <1>3, <1>4, <1>5, <1>6, <1>7, <1>8, <1>9 DEF Next

\* The keep-alive that follows a hangup never ends the listener of a call that
\* is up and still has the id it was started with (ecallmgr_call_control.erl
\* handle_info, keep_alive_expired).  The sanity check has no such theorem: a
\* switch that answers late makes it end the listener of any call.
THEOREM StaysWithItsCall == Spec => []StopOnlyWhenGone
  <1>1. Init => GoneInv /\ StopOnlyWhenGone
    BY DEF Init, GoneInv, StopOnlyWhenGone
  <1> QED BY <1>1, GoneStep, InitTyped, StepTyped, PTL DEF Spec
=============================================================================
