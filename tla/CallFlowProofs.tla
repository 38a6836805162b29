---------------------------- MODULE CallFlowProofs ----------------------------
(***************************************************************************)
(* Theorems about the call flow executor: its types, that the flow is in   *)
(* one hand and a decision is applied where it was made, that no module    *)
(* outlives it, that it follows the id of its call and hangs it up, that   *)
(* it walks the flow as FlowWalk says, and that its checks go on.  The     *)
(* ground of the flow's theorems is in whose hand it is (InHand), of those *)
(* of the call's id where the news of a transfer are (News).               *)
(***************************************************************************)
EXTENDS CallFlow, SequenceTheorems, TLAPS

-----------------------------------------------------------------------------
(* Messages and mailboxes. *)

LEMMA Kinds ==
    ASSUME NEW x \in Messages
    PROVE  /\ x.t \in {"stop", "transfer", "exit", "continue", "attempt", "branch", "call_id_update",
                       "rebind", "timeout", "channel_status_resp", "call_sanity_check"}
           /\ x.t \in {"stop", "exit", "continue", "attempt", "branch"} =>
                "by" \in DOMAIN x /\ x.by \in Pids
           /\ x.t \in {"continue", "attempt"} => x.key \in Keys
           /\ x.t = "branch" => x.flow \in Branches
           /\ x.t = "call_id_update" => x.id \in CallIds
           /\ x.t = "rebind" => x.rm \in CallIds /\ x.add \in CallIds
<1>1. CASE x \in [t : {"stop", "transfer", "exit"}, by : Pids]  BY <1>1
<1>2. CASE x \in [t : {"continue", "attempt"}, key : Keys, by : Pids]  BY <1>2
<1>3. CASE x \in [t : {"branch"}, flow : Branches, by : Pids]  BY <1>3
<1>4. CASE x \in [t : {"call_id_update"}, id : CallIds]  BY <1>4
<1>5. CASE x \in [t : {"rebind"}, rm : CallIds, add : CallIds]  BY <1>5
<1>6. CASE x \in [t : {"timeout", "channel_status_resp", "call_sanity_check", "transfer"}]  BY <1>6
<1> QED  BY <1>1, <1>2, <1>3, <1>4, <1>5, <1>6 DEF Messages

LEMMA MadeOf ==
    /\ \A p \in Pids, k \in Keys : ContinueBy(p, k) \in Messages /\ AttemptBy(p, k) \in Messages
    /\ \A p \in Pids, f \in Branches : BranchBy(p, f) \in Messages
    /\ \A p \in Pids : StopBy(p) \in Messages /\ TransferBy(p) \in Messages /\ ExitOf(p) \in Messages
    /\ \A id \in CallIds : UpdateTo(id) \in Messages
    /\ \A r, a \in CallIds : [t |-> "rebind", rm |-> r, add |-> a] \in Messages
    /\ \A t \in {"timeout", "channel_status_resp", "call_sanity_check", "transfer"} : Msg(t) \in Messages
BY DEF Messages, ContinueBy, AttemptBy, BranchBy, StopBy, TransferBy, ExitOf, UpdateTo, Msg

LEMMA TailIs ==
    ASSUME NEW S, NEW s \in Seq(S), s # <<>>
    PROVE  /\ Head(s) = s[1] /\ s[1] \in S /\ Len(s) >= 1 /\ Len(s) \in Nat
           /\ Tail(s) \in Seq(S) /\ Len(Tail(s)) = Len(s) - 1
           /\ \A i \in 1 .. Len(Tail(s)) : Tail(s)[i] = s[i + 1] /\ i + 1 \in 2 .. Len(s)
OBVIOUS

LEMMA AppendIs ==
    ASSUME NEW S, NEW s \in Seq(S), NEW x \in S
    PROVE  /\ Append(s, x) \in Seq(S) /\ Len(Append(s, x)) = Len(s) + 1
           /\ Len(s) \in Nat
           /\ \A i \in 1 .. Len(s) : Append(s, x)[i] = s[i]
           /\ Append(s, x)[Len(s) + 1] = x
OBVIOUS

LEMMA PostIs ==
    ASSUME NEW S, NEW s \in Seq(S), NEW x \in S
    PROVE  s \o <<>> = s /\ s \o <<x>> = Append(s, x)
OBVIOUS

-----------------------------------------------------------------------------
(* In whose hand the flow is, of a mailbox s, the modules m and the        *)
(* executor's present module p.                                            *)

Moving(x, p) ==
    \/ x.t \in {"timeout", "continue", "branch", "stop"}
    \/ x.t = "transfer" /\ x # Msg("transfer")
    \/ x.t = "exit" /\ x.by = p
Tries(x) == x.t = "attempt"

Quiet(s, p) == \A i \in 1 .. Len(s) : ~Moving(s[i], p)
OneMove(s, p, j) ==
    /\ j \in 1 .. Len(s) /\ Moving(s[j], p)
    /\ \A i \in 1 .. Len(s) : Moving(s[i], p) => i = j
NoTry(s) == \A i \in 1 .. Len(s) : ~Tries(s[i])
OneTry(s, a) ==
    /\ a \in 1 .. Len(s) /\ Tries(s[a])
    /\ \A i \in 1 .. Len(s) : Tries(s[i]) => i = a
Only(m, p, state) ==
    p \in Pids /\ \A q \in Pids : m[q] = IF q = p THEN state ELSE "none"

Running(s, m, p) == Only(m, p, "run") /\ Quiet(s, p) /\ NoTry(s)
Waiting(s, m, p) ==
    Only(m, p, "wait") /\ Quiet(s, p) /\ \E a \in 1 .. Len(s) : OneTry(s, a)
(* The module has decided, or failed; in the latter case also after an     *)
(* attempt the executor has not taken yet.                                 *)
Decided(s, m, p) ==
    /\ \A q \in Pids : m[q] = "none"
    /\ \E j \in 1 .. Len(s) :
          /\ OneMove(s, p, j)
          /\ NoTry(s) \/ (s[j].t = "exit" /\ \E a \in 1 .. j - 1 : OneTry(s, a))
Ours(s, p) ==
    \A i \in 1 .. Len(s) : s[i].t \in {"continue", "branch", "stop", "attempt"} => s[i].by = p

InHand(s, m, p) ==
    Ours(s, p) /\ (Running(s, m, p) \/ Waiting(s, m, p) \/ Decided(s, m, p))

LEMMA FailedTrying ==
    ASSUME NEW s, NEW m, NEW p, \A q \in Pids : m[q] = "none",
           NEW j \in 1 .. Len(s), OneMove(s, p, j), s[j].t = "exit",
           NEW a \in 1 .. j - 1, OneTry(s, a)
    PROVE  Decided(s, m, p)
BY Zenon DEF Decided

(* A message that neither moves nor tries changes nothing when it goes ... *)
LEMMA DropOther ==
    ASSUME NEW S, NEW s \in Seq(S), s # <<>>, NEW m, NEW p, InHand(s, m, p),
           ~Moving(s[1], p), ~Tries(s[1])
    PROVE  InHand(Tail(s), m, p)
<1> DEFINE u == Tail(s)
<1>1. Len(s) \in Nat /\ Len(u) = Len(s) - 1 /\ \A i \in 1 .. Len(u) : u[i] = s[i + 1] /\ i + 1 \in 1 .. Len(s)
  BY TailIs
<1> HIDE DEF u
<1>2. Ours(u, p)  BY <1>1 DEF Ours, InHand
<1>3. CASE Running(s, m, p)
  <2>1. Quiet(u, p) /\ NoTry(u)  BY <1>1, <1>3 DEF Running, Quiet, NoTry
  <2> QED  BY <1>2, <1>3, <2>1 DEF Running, InHand, u
<1>4. CASE Waiting(s, m, p)
  <2>1. PICK a \in 1 .. Len(s) : OneTry(s, a)  BY <1>4 DEF Waiting
  <2>2. a # 1  BY <2>1 DEF OneTry
  <2>3. a - 1 \in 1 .. Len(u) /\ u[a - 1] = s[a]  BY <1>1, <2>1, <2>2 DEF OneTry
  <2>5. \A i \in 1 .. Len(u) : Tries(u[i]) => i = a - 1  BY <1>1, <2>1 DEF OneTry
  <2>6. OneTry(u, a - 1)  BY <2>1, <2>3, <2>5 DEF OneTry
  <2>4. Quiet(u, p)  BY <1>1, <1>4 DEF Waiting, Quiet
  <2> QED  BY <1>2, <1>4, <2>3, <2>4, <2>6 DEF Waiting, InHand, u
<1>5. CASE Decided(s, m, p)
  <2>1. PICK j \in 1 .. Len(s) :
            OneMove(s, p, j) /\ (NoTry(s) \/ (s[j].t = "exit" /\ \E a \in 1 .. j - 1 : OneTry(s, a)))
    BY <1>5 DEF Decided
  <2>2. j # 1  BY <2>1 DEF OneMove
  <2>3. j - 1 \in 1 .. Len(u) /\ OneMove(u, p, j - 1) /\ u[j - 1] = s[j]
    BY <1>1, <2>1, <2>2 DEF OneMove
  <2>4. CASE NoTry(s)
    <3>1. NoTry(u)  BY <1>1, <2>4 DEF NoTry
    <3>2. Decided(u, m, p)  BY <1>5, <2>3, <3>1 DEF Decided
    <3> QED  BY <1>2, <3>2 DEF InHand, u
  <2>5. CASE s[j].t = "exit" /\ \E a \in 1 .. j - 1 : OneTry(s, a)
    <3>1. PICK a \in 1 .. j - 1 : OneTry(s, a)  BY <2>5
    <3>2. a # 1  BY <3>1 DEF OneTry
    <3>3. a \in 1 .. Len(s) /\ a - 1 \in 1 .. (j - 1) - 1 /\ a - 1 \in 1 .. Len(u) /\ u[a - 1] = s[a]
      BY <1>1, <2>1, <3>1, <3>2
    <3>4. \A i \in 1 .. Len(u) : Tries(u[i]) => i = a - 1  BY <1>1, <3>1 DEF OneTry
    <3>5. OneTry(u, a - 1)  BY <3>1, <3>3, <3>4 DEF OneTry
    <3>6. u[j - 1].t = "exit" /\ \A q \in Pids : m[q] = "none"  BY <1>5, <2>3, <2>5 DEF Decided
    <3>7. Decided(u, m, p)  BY <2>3, <3>3, <3>5, <3>6, FailedTrying
    <3> QED  BY <1>2, <3>7 DEF InHand, u
  <2> QED  BY <2>1, <2>4, <2>5
<1> QED  BY <1>3, <1>4, <1>5 DEF InHand

(* ... nor when it comes. *)
LEMMA AddOther ==
    ASSUME NEW S, NEW s \in Seq(S), NEW x \in S, NEW m, NEW p, InHand(s, m, p),
           ~Moving(x, p), ~Tries(x)
    PROVE  InHand(Append(s, x), m, p)
<1> DEFINE u == Append(s, x)
<1>1. Len(s) \in Nat /\ Len(u) = Len(s) + 1 /\ (\A i \in 1 .. Len(s) : u[i] = s[i]) /\ u[Len(s) + 1] = x
  BY AppendIs
<1> HIDE DEF u
<1>2. \A i \in 1 .. Len(u) : i \in 1 .. Len(s) \/ i = Len(s) + 1  BY <1>1
<1>3. Ours(u, p)
  <2>1. x.t \notin {"continue", "branch", "stop", "attempt"}  BY DEF Moving, Tries
  <2> QED  BY <1>1, <1>2, <2>1 DEF Ours, InHand
<1>4. CASE Running(s, m, p)
  <2>1. Quiet(u, p) /\ NoTry(u)  BY <1>1, <1>2, <1>4 DEF Running, Quiet, NoTry
  <2> QED  BY <1>3, <1>4, <2>1 DEF Running, InHand, u
<1>5. CASE Waiting(s, m, p)
  <2>1. PICK a \in 1 .. Len(s) : OneTry(s, a)  BY <1>5 DEF Waiting
  <2>2. a \in 1 .. Len(u) /\ OneTry(u, a)  BY <1>1, <1>2, <2>1 DEF OneTry
  <2>3. Quiet(u, p)  BY <1>1, <1>2, <1>5 DEF Waiting, Quiet
  <2> QED  BY <1>3, <1>5, <2>2, <2>3 DEF Waiting, InHand, u
<1>6. CASE Decided(s, m, p)
  <2>1. PICK j \in 1 .. Len(s) :
            OneMove(s, p, j) /\ (NoTry(s) \/ (s[j].t = "exit" /\ \E a \in 1 .. j - 1 : OneTry(s, a)))
    BY <1>6 DEF Decided
  <2>2. j \in 1 .. Len(u) /\ OneMove(u, p, j) /\ u[j] = s[j]  BY <1>1, <1>2, <2>1 DEF OneMove
  <2>3. CASE NoTry(s)
    <3>1. NoTry(u)  BY <1>1, <1>2, <2>3 DEF NoTry
    <3>2. Decided(u, m, p)  BY <1>6, <2>2, <3>1 DEF Decided
    <3> QED  BY <1>3, <3>2 DEF InHand, u
  <2>4. CASE s[j].t = "exit" /\ \E a \in 1 .. j - 1 : OneTry(s, a)
    <3>1. PICK a \in 1 .. j - 1 : OneTry(s, a)  BY <2>4
    <3>2. a \in 1 .. Len(s) /\ OneTry(u, a)  BY <1>1, <1>2, <2>1, <3>1 DEF OneTry
    <3>3. u[j].t = "exit" /\ \A q \in Pids : m[q] = "none"  BY <1>6, <2>2, <2>4 DEF Decided
    <3>4. Decided(u, m, p)  BY <2>2, <3>1, <3>2, <3>3, FailedTrying
    <3> QED  BY <1>3, <3>4 DEF InHand, u
  <2> QED  BY <2>1, <2>3, <2>4
<1> QED  BY <1>4, <1>5, <1>6 DEF InHand

(* When the next message moves the flow, every module is done and nothing  *)
(* else moves or tries. *)
LEMMA AtMove ==
    ASSUME NEW S, NEW s \in Seq(S), s # <<>>, NEW m, NEW p, InHand(s, m, p), Moving(s[1], p)
    PROVE  (\A q \in Pids : m[q] = "none") /\ Quiet(Tail(s), p) /\ NoTry(Tail(s))
<1>1. Len(s) \in Nat /\ Len(s) >= 1 /\ Len(Tail(s)) = Len(s) - 1
      /\ \A i \in 1 .. Len(Tail(s)) : Tail(s)[i] = s[i + 1] /\ i + 1 \in 2 .. Len(s)
  BY TailIs
<1>2. 1 \in 1 .. Len(s)  BY <1>1
<1>3. ~Quiet(s, p)  BY <1>2 DEF Quiet
<1>4. Decided(s, m, p)  BY <1>3 DEF InHand, Running, Waiting
<1>5. PICK j \in 1 .. Len(s) :
          OneMove(s, p, j) /\ (NoTry(s) \/ (s[j].t = "exit" /\ \E a \in 1 .. j - 1 : OneTry(s, a)))
  BY <1>4 DEF Decided
<1>6. j = 1  BY <1>2, <1>5 DEF OneMove
<1>7. NoTry(s)  BY <1>5, <1>6
<1>8. Quiet(Tail(s), p)  BY <1>1, <1>5, <1>6 DEF OneMove, Quiet
<1>9. NoTry(Tail(s))  BY <1>1, <1>7 DEF NoTry
<1> QED  BY <1>4, <1>8, <1>9 DEF Decided

(* The last module has decided, or failed: what comes is the one move. *)
LEMMA Moved ==
    ASSUME NEW S, NEW s \in Seq(S), NEW x \in S, NEW m, NEW p,
           Quiet(s, p), NoTry(s), Ours(s, p), \A q \in Pids : m[q] = "none",
           Moving(x, p), ~Tries(x), x.t \in {"continue", "branch", "stop"} => x.by = p
    PROVE  InHand(Append(s, x), m, p)
<1> DEFINE u == Append(s, x)
<1>1. Len(s) \in Nat /\ Len(u) = Len(s) + 1 /\ (\A i \in 1 .. Len(s) : u[i] = s[i]) /\ u[Len(s) + 1] = x
  BY AppendIs
<1> HIDE DEF u
<1>2. \A i \in 1 .. Len(u) : i \in 1 .. Len(s) \/ i = Len(s) + 1  BY <1>1
<1>3. Ours(u, p)  BY <1>1, <1>2 DEF Ours, Tries
<1>4. Len(u) \in 1 .. Len(u) /\ OneMove(u, p, Len(u))  BY <1>1, <1>2 DEF OneMove, Quiet
<1>5. NoTry(u)  BY <1>1, <1>2 DEF NoTry
<1>6. Decided(u, m, p)  BY <1>4, <1>5 DEF Decided
<1> QED  BY <1>3, <1>6 DEF InHand, u

LEMMA Replaced ==
    ASSUME NEW S, NEW s \in Seq(S), s # <<>>, NEW x \in S, NEW m, NEW p,
           InHand(s, m, p), Moving(s[1], p), x.t = "continue", x.by = p
    PROVE  InHand(Append(Tail(s), x), m, p)
<1>1. Tail(s) \in Seq(S) /\ Len(s) \in Nat
      /\ \A i \in 1 .. Len(Tail(s)) : Tail(s)[i] = s[i + 1] /\ i + 1 \in 1 .. Len(s)
  BY TailIs
<1>2. (\A q \in Pids : m[q] = "none") /\ Quiet(Tail(s), p) /\ NoTry(Tail(s))  BY AtMove
<1>3. Ours(Tail(s), p)  BY <1>1 DEF InHand, Ours
<1>4. Moving(x, p) /\ ~Tries(x)  BY DEF Moving, Tries
<1> QED  BY <1>1, <1>2, <1>3, <1>4, Moved

LEMMA Asked ==
    ASSUME NEW S, NEW s \in Seq(S), NEW x \in S, NEW m, NEW p,
           Quiet(s, p), NoTry(s), Ours(s, p), Only(m, p, "wait"), Tries(x), x.by = p
    PROVE  InHand(Append(s, x), m, p)
<1> DEFINE u == Append(s, x)
<1>1. Len(s) \in Nat /\ Len(u) = Len(s) + 1 /\ (\A i \in 1 .. Len(s) : u[i] = s[i]) /\ u[Len(s) + 1] = x
  BY AppendIs
<1> HIDE DEF u
<1>2. \A i \in 1 .. Len(u) : i \in 1 .. Len(s) \/ i = Len(s) + 1  BY <1>1
<1>3. Ours(u, p)  BY <1>1, <1>2 DEF Ours
<1>4. Len(u) \in 1 .. Len(u) /\ OneTry(u, Len(u))  BY <1>1, <1>2 DEF OneTry, NoTry
<1>5. ~Moving(x, p)  BY DEF Moving, Tries
<1>6. Quiet(u, p)  BY <1>1, <1>2, <1>5 DEF Quiet
<1> QED  BY <1>3, <1>4, <1>6 DEF Waiting, InHand, u

LEMMA FailsInTry ==
    ASSUME NEW S, NEW s \in Seq(S), NEW x \in S, NEW m, NEW n, NEW p,
           Waiting(s, m, p), Ours(s, p), \A q \in Pids : n[q] = "none", x.t = "exit", x.by = p
    PROVE  InHand(Append(s, x), n, p)
<1> DEFINE u == Append(s, x)
<1>1. Len(s) \in Nat /\ Len(u) = Len(s) + 1 /\ (\A i \in 1 .. Len(s) : u[i] = s[i]) /\ u[Len(s) + 1] = x
  BY AppendIs
<1> HIDE DEF u
<1>2. \A i \in 1 .. Len(u) : i \in 1 .. Len(s) \/ i = Len(s) + 1  BY <1>1
<1>3. Ours(u, p)  BY <1>1, <1>2 DEF Ours
<1>4. Moving(x, p) /\ ~Tries(x)  BY DEF Moving, Tries
<1>5. Len(u) \in 1 .. Len(u) /\ OneMove(u, p, Len(u)) /\ u[Len(u)].t = "exit"
  BY <1>1, <1>2, <1>4 DEF OneMove, Quiet, Waiting
<1>6. PICK a \in 1 .. Len(s) : OneTry(s, a)  BY DEF Waiting
<1>7. a \in 1 .. Len(u) - 1 /\ OneTry(u, a)  BY <1>1, <1>2, <1>4, <1>6 DEF OneTry
<1>8. Decided(u, n, p)  BY <1>5, <1>7, FailedTrying
<1> QED  BY <1>3, <1>8 DEF InHand, u

(* Nothing in a mailbox that is the business of a module yet to be started. *)
Plain(s) ==
    \A i \in 1 .. Len(s) :
        /\ s[i].t \notin {"timeout", "continue", "branch", "stop", "attempt"}
        /\ s[i].t = "transfer" => s[i] = Msg("transfer")

LEMMA PlainTail ==
    ASSUME NEW s, NEW p, Quiet(s, p), NoTry(s)
    PROVE  Plain(s)
BY DEF Quiet, NoTry, Moving, Tries, Plain

LEMMA Launched ==
    ASSUME NEW s, NEW m, NEW p, Plain(s), Only(m, p, "run"),
           \A i \in 1 .. Len(s) : s[i].t = "exit" => s[i].by # p
    PROVE  InHand(s, m, p)
<1>1. Ours(s, p)  BY DEF Plain, Ours
<1>2. Quiet(s, p)  BY DEF Plain, Quiet, Moving
<1>3. NoTry(s)  BY DEF Plain, NoTry, Tries
<1> QED  BY <1>1, <1>2, <1>3 DEF InHand, Running

(* When the next message is an attempt, its module waits, or has failed.   *)
LEMMA AtTry ==
    ASSUME NEW S, NEW s \in Seq(S), s # <<>>, NEW m, NEW p, InHand(s, m, p), Tries(s[1])
    PROVE  /\ s[1].by = p /\ Plain(Tail(s)) /\ NoTry(Tail(s)) /\ Ours(Tail(s), p)
           /\ \/ Only(m, p, "wait") /\ Quiet(Tail(s), p)
              \/ Decided(Tail(s), m, p)
<1> DEFINE u == Tail(s)
<1>1. Len(s) \in Nat /\ Len(s) >= 1 /\ Len(u) = Len(s) - 1
      /\ \A i \in 1 .. Len(u) : u[i] = s[i + 1] /\ i + 1 \in 2 .. Len(s)
  BY TailIs
<1> HIDE DEF u
<1>2. 1 \in 1 .. Len(s)  BY <1>1
<1>3. s[1].by = p /\ Ours(u, p)  BY <1>1, <1>2 DEF InHand, Ours, Tries
<1>4. ~NoTry(s)  BY <1>2 DEF NoTry
<1>5. CASE Waiting(s, m, p)
  <2>1. PICK a \in 1 .. Len(s) : OneTry(s, a)  BY <1>5 DEF Waiting
  <2>2. NoTry(u)  BY <1>1, <1>2, <2>1 DEF OneTry, NoTry
  <2>3. Quiet(u, p)  BY <1>1, <1>5 DEF Waiting, Quiet
  <2> QED  BY <1>3, <1>5, <2>2, <2>3, PlainTail DEF Waiting, u
<1>6. CASE Decided(s, m, p)
  <2>1. PICK j \in 1 .. Len(s) :
            OneMove(s, p, j) /\ s[j].t = "exit" /\ \E a \in 1 .. j - 1 : OneTry(s, a)
    BY <1>4, <1>6 DEF Decided
  <2>2. PICK a \in 1 .. j - 1 : OneTry(s, a)  BY <2>1
  <2>3. NoTry(u)  BY <1>1, <1>2, <2>2 DEF OneTry, NoTry
  <2>4. j # 1  BY <2>2
  <2>5. j - 1 \in 1 .. Len(u) /\ OneMove(u, p, j - 1) /\ u[j - 1] = s[j]
    <3>1. j - 1 \in 1 .. Len(u) /\ u[j - 1] = s[j]  BY <1>1, <2>4
    <3>2. ASSUME NEW i \in 1 .. Len(u), Moving(u[i], p)  PROVE i = j - 1
      <4>1. i + 1 \in 1 .. Len(s) /\ s[i + 1] = u[i]  BY <1>1
      <4>2. i + 1 = j  BY <2>1, <3>2, <4>1 DEF OneMove
      <4> QED  BY <4>2
    <3> QED  BY <2>1, <3>1, <3>2 DEF OneMove
  <2>6. Decided(u, m, p)  BY <1>6, <2>3, <2>5 DEF Decided
  <2>7. Plain(u)
    <3>1. ASSUME NEW i \in 1 .. Len(u)
          PROVE  u[i].t \notin {"timeout", "continue", "branch", "stop", "attempt"}
                 /\ (u[i].t = "transfer" => u[i] = Msg("transfer"))
      <4>1. u[i].t # "attempt"  BY <2>3 DEF NoTry, Tries
      <4>2. CASE i = j - 1  BY <2>1, <2>5, <4>2
      <4>3. CASE i # j - 1
        <5>1. ~Moving(u[i], p)  BY <2>5, <4>3 DEF OneMove
        <5> QED  BY <4>1, <5>1 DEF Moving
      <4> QED  BY <4>2, <4>3
    <3> QED  BY <3>1 DEF Plain
  <2> QED  BY <1>3, <2>3, <2>6, <2>7 DEF u
<1> QED  BY <1>4, <1>5, <1>6 DEF InHand, Running

-----------------------------------------------------------------------------
(* The invariant: types, and the flow is in one hand while the executor is *)
(* up; afterwards there is nothing left.                                   *)
Hand ==
    IF proc = "up" THEN InHand(mail, mods, module)
                   ELSE mail = <<>> /\ \A q \in Pids : mods[q] = "none"
Inv == TypeOK /\ Hand

LEMMA InitHand == Init => Inv
<1> SUFFICES ASSUME Init PROVE Inv  OBVIOUS
<1>1. TypeOK
  <2>1. mail \in Seq(Messages)  BY MadeOf DEF Init
  <2>2. 0 \in CallIds /\ 0 \in 0 .. MaxStrays /\ 0 \in 0 .. MaxAsks  BY BoundAssumption DEF CallIds
  <2>3. Root \in Nodes  BY FlowAssumption
  <2>4. mods \in [Pids -> {"none", "run", "wait"}]  BY DEF Init
  <2> QED  BY <2>1, <2>2, <2>3, <2>4 DEF Init, TypeOK
<1>2. Len(mail) = 1 /\ mail[1] = Msg("timeout") /\ mail[1].t = "timeout"  BY DEF Init, Msg
<1>3. Ours(mail, module)  BY <1>2 DEF Ours
<1>4. 1 \in 1 .. Len(mail) /\ OneMove(mail, module, 1)  BY <1>2 DEF OneMove, Moving
<1>5. NoTry(mail)  BY <1>2 DEF NoTry, Tries
<1>6. Decided(mail, mods, module)  BY <1>4, <1>5 DEF Decided, Init
<1> QED  BY <1>1, <1>3, <1>6 DEF Inv, Hand, InHand, Init

LEMMA EndStep ==
    ASSUME TypeOK, NEW reason \in {"normal", "transfer", "insane", "badarg"}, End(reason),
           reason = "normal" => \A q \in Pids : mods[q] = "none"
    PROVE  Inv'
<1>1. \A q \in Pids : mods'[q] = "none"  BY DEF End
<1>2. mods' \in [Pids -> {"none", "run", "wait"}]  BY DEF End, TypeOK
<1>3. mail' = <<>> /\ mail' \in Seq(Messages)  BY DEF End
<1>4. TypeOK'  BY <1>2, <1>3 DEF End, TypeOK, timers, world
<1> QED  BY <1>1, <1>3, <1>4 DEF Inv, Hand, End

LEMMA LaunchStep ==
    ASSUME TypeOK, proc = "up", mail # <<>>, NEW f \in Nodes \cup {Empty}, NEW others,
           Launch(f, others), others \in [Pids -> {"none", "run", "wait"}],
           \A q \in Pids : others[q] = "none", Plain(Tail(mail))
    PROVE  Inv'
<1>1. CASE f = Empty /\ End("badarg")  BY <1>1, EndStep
<1>2. CASE f \in Nodes /\ \E p \in Pids : Free(p)
  <2>1. /\ flow' = f /\ module' = NewPid /\ mods' = [others EXCEPT ![NewPid] = "run"]
        /\ Post(<<>>) /\ UNCHANGED <<proc, asks, asked, hangup, timers, names, world>>
    BY <1>2, FlowAssumption DEF Launch
  <2>2. NewPid \in Pids /\ Free(NewPid)  BY <1>2 DEF NewPid
  <2>3. mail \in Seq(Messages)  BY DEF TypeOK
  <2>4. Tail(mail) \in Seq(Messages) /\ Len(mail) \in Nat
        /\ \A i \in 1 .. Len(Tail(mail)) : Tail(mail)[i] = mail[i + 1] /\ i + 1 \in 2 .. Len(mail)
    BY <2>3, TailIs
  <2>5. mail' = Tail(mail)  BY <2>1, <2>4 DEF Post
  <2>6. \A i \in 1 .. Len(Tail(mail)) : Tail(mail)[i].t = "exit" => Tail(mail)[i].by # NewPid
    <3>1. SUFFICES ASSUME NEW i \in 1 .. Len(Tail(mail)), Tail(mail)[i].t = "exit"
                   PROVE  Tail(mail)[i].by # NewPid
      OBVIOUS
    <3>2. Tail(mail)[i] \in Messages  BY <2>4
    <3>3. "by" \in DOMAIN Tail(mail)[i]  BY <3>1, <3>2, Kinds
    <3>4. ~From(Tail(mail)[i], NewPid)  BY <2>2, <2>4 DEF Free
    <3> QED  BY <3>3, <3>4 DEF From
  <2>7. Only(mods', NewPid, "run") /\ mods' \in [Pids -> {"none", "run", "wait"}]
    BY <2>1, <2>2 DEF Only
  <2>8. InHand(mail', mods', NewPid)  BY <2>5, <2>6, <2>7, Launched
  <2>9. TypeOK'
    BY <1>2, <2>1, <2>2, <2>4, <2>5, <2>7 DEF TypeOK, timers, names, world
  <2> QED  BY <2>1, <2>8, <2>9 DEF Inv, Hand
<1> QED  BY <1>1, <1>2 DEF Launch

(* A move of the executor leads to a node, to the next message, or ends.   *)
LEMMA MoveTaken ==
    ASSUME Inv, proc = "up", mail # <<>>, Moving(mail[1], module)
    PROVE  (\A q \in Pids : mods[q] = "none") /\ Plain(Tail(mail))
<1>1. mail \in Seq(Messages) /\ InHand(mail, mods, module)  BY DEF Inv, TypeOK, Hand
<1> QED  BY <1>1, AtMove, PlainTail

LEMMA HandleStep == Inv /\ Handle => Inv'
<1> SUFFICES ASSUME Inv, Handle PROVE Inv'  OBVIOUS
<1>0. /\ TypeOK /\ proc = "up" /\ mail # <<>> /\ mail \in Seq(Messages)
      /\ InHand(mail, mods, module) /\ Head(mail) = mail[1] /\ mail[1] \in Messages
      /\ Tail(mail) \in Seq(Messages)
  <2>1. proc = "up" /\ mail # <<>>
    BY DEF Handle, Start, Continue, Branch, Stop, Transfer, Attempt, Exit, ChannelStatus,
           SanityCheck, CallIdUpdate, Rebind, Next_
  <2> QED  BY <2>1, TailIs DEF Inv, TypeOK, Hand
<1>1. mods \in [Pids -> {"none", "run", "wait"}] /\ flow \in Nodes  BY <1>0 DEF TypeOK
<1>2. \A k \in Keys : Child[flow][k] \in Nodes \cup {Undefined, Empty}  BY <1>1, FlowAssumption
(* The executor keeps its place and its modules, and posts at most another *)
(* message that is no move; or a move in the place of one. *)
<1>3. ASSUME Post(<<>>), UNCHANGED <<proc, module, mods>>, ~Moving(mail[1], module), ~Tries(mail[1])
      PROVE  mail' \in Seq(Messages) /\ Hand'
  <2>1. mail' = Tail(mail)  BY <1>0, <1>3 DEF Post
  <2>2. InHand(Tail(mail), mods, module)  BY <1>0, <1>3, DropOther
  <2> QED  BY <1>0, <1>3, <2>1, <2>2 DEF Hand
<1>4. ASSUME NEW x \in Messages, Post(<<x>>), UNCHANGED <<proc, module, mods>>,
             Moving(mail[1], module), x.t = "continue", x.by = module
      PROVE  mail' \in Seq(Messages) /\ Hand'
  <2>1. mail' = Append(Tail(mail), x)  BY <1>0, <1>4, PostIs DEF Post
  <2>2. InHand(Append(Tail(mail), x), mods, module)  BY <1>0, <1>4, Replaced
  <2>3. mail' \in Seq(Messages)  BY <1>0, <2>1, AppendIs
  <2> QED  BY <1>0, <1>4, <2>1, <2>2, <2>3 DEF Hand
<1>5. CASE Start
  <2>1. Moving(mail[1], module) /\ Launch(flow, mods)  BY <1>0, <1>5 DEF Start, Next_, Moving
  <2>2. (\A q \in Pids : mods[q] = "none") /\ Plain(Tail(mail))  BY <1>0, <2>1, MoveTaken
  <2> QED  BY <1>0, <1>1, <2>1, <2>2, LaunchStep
<1>6. CASE Continue
  <2>1. mail[1].t = "continue" /\ mail[1].key \in Keys  BY <1>0, <1>6, Kinds DEF Continue, Next_
  <2>2. Moving(mail[1], module)  BY <2>1 DEF Moving
  <2>3. (\A q \in Pids : mods[q] = "none") /\ Plain(Tail(mail))  BY <1>0, <2>2, MoveTaken
  <2>4. CASE End("normal")  BY <1>0, <2>3, <2>4, EndStep
  <2>5. CASE /\ Post(<<ContinueBy(module, Wild)>>)
             /\ UNCHANGED <<proc, flow, module, mods, asks, asked, hangup, timers, names, world>>
    <3>1. mail[1].by = module /\ mail[1].by \in Pids
      <4>1. 1 \in 1 .. Len(mail)  BY <1>0, TailIs
      <4> QED  BY <1>0, <2>1, <4>1, Kinds DEF InHand, Ours
    <3>2. ContinueBy(module, Wild) \in Messages /\ ContinueBy(module, Wild).t = "continue"
          /\ ContinueBy(module, Wild).by = module
      BY <3>1, MadeOf, FlowAssumption DEF ContinueBy
    <3>3. mail' \in Seq(Messages) /\ Hand'  BY <1>4, <2>2, <2>5, <3>2
    <3> QED  BY <1>0, <2>5, <3>3 DEF Inv, TypeOK, timers, names, world
  <2>6. CASE Child[flow][mail[1].key] \in Nodes /\ Launch(Child[flow][mail[1].key], mods)
    BY <1>0, <1>1, <2>3, <2>6, LaunchStep
  <2> QED  BY <1>0, <1>6, <2>4, <2>5, <2>6 DEF Continue
<1>7. CASE Branch
  <2>1. mail[1].t = "branch" /\ mail[1].flow \in Nodes \cup {Empty} /\ Launch(mail[1].flow, mods)
    BY <1>0, <1>7, Kinds, FlowAssumption DEF Branch, Next_
  <2>2. Moving(mail[1], module)  BY <2>1 DEF Moving
  <2>3. (\A q \in Pids : mods[q] = "none") /\ Plain(Tail(mail))  BY <1>0, <2>2, MoveTaken
  <2> QED  BY <1>0, <1>1, <2>1, <2>3, LaunchStep
<1>8. CASE Stop
  <2>1. Moving(mail[1], module) /\ End("normal")  BY <1>0, <1>8 DEF Stop, Next_, Moving
  <2>2. \A q \in Pids : mods[q] = "none"  BY <1>0, <2>1, MoveTaken
  <2> QED  BY <1>0, <2>1, <2>2, EndStep
<1>9. CASE Transfer
  <2>1. End("transfer")  BY <1>9 DEF Transfer
  <2> QED  BY <1>0, <2>1, EndStep
<1>10. CASE Attempt
  <2>1. Tries(mail[1])  BY <1>0, <1>10 DEF Attempt, Next_, Tries
  <2>2. mail[1].key \in Keys /\ mail[1].by \in Pids  BY <1>0, <2>1, Kinds DEF Tries
  <2>3. /\ mail[1].by = module /\ Plain(Tail(mail)) /\ NoTry(Tail(mail)) /\ Ours(Tail(mail), module)
        /\ \/ Only(mods, module, "wait") /\ Quiet(Tail(mail), module)
           \/ Decided(Tail(mail), mods, module)
    BY <1>0, <2>1, AtTry
  <2>4. module \in Pids  BY <2>2, <2>3
  <2>5. CASE /\ Child[flow][mail[1].key] \in Nodes
             /\ Launch(Child[flow][mail[1].key], [mods EXCEPT ![module] = "none"])
    <3> DEFINE others == [mods EXCEPT ![module] = "none"]
    <3>1. others \in [Pids -> {"none", "run", "wait"}] /\ \A q \in Pids : others[q] = "none"
      BY <1>1, <2>3 DEF Only, Decided
    <3>2. Launch(Child[flow][mail[1].key], others)  BY <2>5
    <3> HIDE DEF others
    <3> QED  BY <1>0, <2>3, <2>5, <3>1, <3>2, LaunchStep
  <2>6. CASE /\ mods' = [mods EXCEPT ![module] = IF Alive(module) THEN "run" ELSE "none"]
             /\ Post(<<>>)
             /\ UNCHANGED <<proc, flow, module, asks, asked, hangup, timers, names, world>>
    <3>1. mail' = Tail(mail) /\ mail' \in Seq(Messages)  BY <1>0, <2>6 DEF Post
    <3>2. mods' \in [Pids -> {"none", "run", "wait"}]  BY <1>1, <2>6
    <3>3. CASE Only(mods, module, "wait") /\ Quiet(Tail(mail), module)
      <4>1. Only(mods', module, "run")  BY <1>1, <2>4, <2>6, <3>3 DEF Only, Alive
      <4> QED  BY <2>3, <3>3, <4>1, <3>1, <3>2, <1>0, <2>6
               DEF InHand, Running, Hand, Inv, TypeOK, timers, names, world
    <3>4. CASE Decided(Tail(mail), mods, module)
      <4>1. \A q \in Pids : mods'[q] = "none"  BY <1>1, <2>4, <2>6, <3>4 DEF Decided, Alive
      <4>2. Decided(Tail(mail), mods', module)  BY <3>4, <4>1 DEF Decided
      <4>3. Hand'  BY <1>0, <2>3, <2>6, <3>1, <4>2 DEF InHand, Hand
      <4> QED  BY <3>1, <3>2, <4>3, <1>0, <2>6 DEF Inv, TypeOK, timers, names, world
    <3> QED  BY <2>3, <3>3, <3>4
  <2> QED  BY <1>0, <1>10, <2>3, <2>5, <2>6 DEF Attempt
<1>11. CASE Exit
  <2>1. mail[1].t = "exit" /\ mail[1].by \in Pids  BY <1>0, <1>11, Kinds DEF Exit, Next_
  <2>2. mail' \in Seq(Messages) /\ Hand'
    <3>1. CASE mail[1].by = module
      <4>1. Moving(mail[1], module)  BY <2>1, <3>1 DEF Moving
      <4>2. ContinueBy(module, Wild) \in Messages /\ ContinueBy(module, Wild).t = "continue"
            /\ ContinueBy(module, Wild).by = module
        BY <2>1, <3>1, MadeOf, FlowAssumption DEF ContinueBy
      <4> QED  BY <1>0, <1>4, <1>11, <3>1, <4>1, <4>2 DEF Exit
    <3>2. CASE mail[1].by # module
      <4>1. ~Moving(mail[1], module) /\ ~Tries(mail[1])  BY <2>1, <3>2 DEF Moving, Tries
      <4> QED  BY <1>0, <1>3, <1>11, <3>2, <4>1 DEF Exit
    <3> QED  BY <3>1, <3>2
  <2> QED  BY <1>0, <1>11, <2>2 DEF Exit, Inv, TypeOK, timers, names, world
<1>12. CASE ChannelStatus
  <2>1. ~Moving(mail[1], module) /\ ~Tries(mail[1])
    BY <1>0, <1>12 DEF ChannelStatus, Next_, Moving, Tries
  <2>2. mail' \in Seq(Messages) /\ Hand'  BY <1>3, <1>12, <2>1 DEF ChannelStatus
  <2> QED  BY <1>0, <1>12, <2>2 DEF ChannelStatus, Inv, TypeOK, names, world
<1>13. CASE SanityCheck
  <2>1. ~Moving(mail[1], module) /\ ~Tries(mail[1])
    BY <1>0, <1>13 DEF SanityCheck, Next_, Moving, Tries
  <2>2. CASE End("insane")  BY <1>0, <2>2, EndStep
  <2>3. CASE ~End("insane")
    <3>1. mail' \in Seq(Messages) /\ Hand'  BY <1>3, <1>13, <2>1, <2>3 DEF SanityCheck
    <3>2. strays' \in 0 .. MaxStrays  BY <1>0, <1>13, <2>3, BoundAssumption DEF SanityCheck, TypeOK
    <3> QED  BY <1>0, <1>13, <2>3, <3>1, <3>2 DEF SanityCheck, Inv, TypeOK, names, world
  <2> QED  BY <2>2, <2>3
<1>14. CASE CallIdUpdate
  <2>1. mail[1].t = "call_id_update" /\ mail[1].id \in CallIds
    BY <1>0, <1>14, Kinds DEF CallIdUpdate, Next_
  <2> DEFINE x == [t |-> "rebind", rm |-> call_id, add |-> mail[1].id]
  <2>2. x \in Messages /\ x.t = "rebind"  BY <1>0, <2>1, MadeOf DEF TypeOK
  <2>3. Post(<<x>>)  BY <1>0, <1>14 DEF CallIdUpdate
  <2> HIDE DEF x
  <2>4. mail' = Append(Tail(mail), x)  BY <1>0, <2>2, <2>3, PostIs DEF Post
  <2>5. InHand(Tail(mail), mods, module)  BY <1>0, <2>1, DropOther DEF Moving, Tries
  <2>6. InHand(Append(Tail(mail), x), mods, module)  BY <1>0, <2>2, <2>5, AddOther DEF Moving, Tries
  <2>7. Hand'  BY <1>0, <1>14, <2>4, <2>6 DEF Hand, CallIdUpdate
  <2>8. mail' \in Seq(Messages)  BY <1>0, <2>2, <2>4, AppendIs
  <2> QED  BY <1>0, <1>14, <2>1, <2>7, <2>8 DEF CallIdUpdate, Inv, TypeOK, timers, world
<1>15. CASE Rebind
  <2>1. mail[1].t = "rebind" /\ mail[1].add \in CallIds  BY <1>0, <1>15, Kinds DEF Rebind, Next_
  <2>2. ~Moving(mail[1], module) /\ ~Tries(mail[1])  BY <2>1 DEF Moving, Tries
  <2>3. mail' \in Seq(Messages) /\ Hand'  BY <1>3, <1>15, <2>2 DEF Rebind
  <2> QED  BY <1>0, <1>15, <2>1, <2>3 DEF Rebind, Inv, TypeOK, timers, world
<1> QED  BY <1>5, <1>6, <1>7, <1>8, <1>9, <1>10, <1>11, <1>12, <1>13, <1>14, <1>15 DEF Handle

(* The modules and the world.                                              *)
LEMMA OtherStep ==
    ASSUME Inv, \/ ModuleStep \/ SanityTimer \/ StatusResp \/ UpdateArrives
                \/ ControlTransfer \/ HangUp \/ Transferred
    PROVE  Inv'
<1>0. TypeOK /\ mail \in Seq(Messages) /\ mods \in [Pids -> {"none", "run", "wait"}]
  BY DEF Inv, TypeOK
<1>1. ASSUME NEW x \in Messages, Arrives(x), UNCHANGED <<module, mods>>,
             ~Moving(x, module), ~Tries(x), proc' = proc
      PROVE  mail' \in Seq(Messages) /\ Hand'
  <2>1. proc = "up" /\ mail' = Append(mail, x)  BY <1>1 DEF Arrives
  <2>2. InHand(mail, mods, module)  BY <2>1 DEF Inv, Hand
  <2>3. InHand(Append(mail, x), mods, module)  BY <1>0, <1>1, <2>2, AddOther
  <2> QED  BY <1>0, <1>1, <2>1, <2>3, AppendIs DEF Hand
<1>2. ASSUME UNCHANGED <<proc, module, mods, mail>>
      PROVE  Hand'
  BY <1>2 DEF Inv, Hand, InHand, Ours, Running, Waiting, Decided, Only, Quiet, OneMove, NoTry, OneTry, Moving, Tries
<1>3. ASSUME NEW p \in Pids, Decide(p)  PROVE Inv'
  <2>1. proc = "up" /\ mods[p] = "run" /\ mods' = [mods EXCEPT ![p] = "none"]
    BY <1>3 DEF Decide, Arrives
  <2>2. p = module /\ Running(mail, mods, module) /\ Ours(mail, module)
    BY <2>1 DEF Inv, Hand, InHand, Running, Waiting, Decided, Only
  <2>3. PICK d \in Decision(p) : Arrives(d)  BY <1>3 DEF Decide
  <2>4. d \in Messages  BY <2>3, MadeOf, FlowAssumption DEF Decision
  <2>5. Moving(d, module) /\ ~Tries(d) /\ (d.t \in {"continue", "branch", "stop"} => d.by = module)
    BY <2>2, <2>3 DEF Decision, ContinueBy, BranchBy, StopBy, TransferBy, Moving, Tries, Msg
  <2>6. \A q \in Pids : mods'[q] = "none"  BY <1>0, <2>1, <2>2 DEF Running, Only
  <2>7. mail' = Append(mail, d)  BY <2>3 DEF Arrives
  <2>8. InHand(Append(mail, d), mods', module)
    BY <1>0, <2>2, <2>4, <2>5, <2>6, Moved DEF Running
  <2>9. mail' \in Seq(Messages) /\ mods' \in [Pids -> {"none", "run", "wait"}]
    BY <1>0, <2>1, <2>4, <2>7, AppendIs
  <2>10. Hand'  BY <1>3, <2>1, <2>7, <2>8 DEF Decide, Hand
  <2> QED  BY <1>0, <1>3, <2>9, <2>10 DEF Decide, Inv, TypeOK, timers, names, world
<1>4. ASSUME NEW p \in Pids, AskAttempt(p)  PROVE Inv'
  <2>1. proc = "up" /\ mods[p] = "run" /\ mods' = [mods EXCEPT ![p] = "wait"]
    BY <1>4 DEF AskAttempt, Arrives
  <2>2. p = module /\ Running(mail, mods, module) /\ Ours(mail, module)
    BY <2>1 DEF Inv, Hand, InHand, Running, Waiting, Decided, Only
  <2>3. PICK key \in Keys : Arrives(AttemptBy(p, key))  BY <1>4 DEF AskAttempt
  <2> DEFINE x == AttemptBy(p, key)
  <2>4. x \in Messages /\ Tries(x) /\ x.by = module  BY <2>2, MadeOf DEF AttemptBy, Tries
  <2>5. mail' = Append(mail, x)  BY <2>3 DEF Arrives
  <2> HIDE DEF x
  <2>6. Only(mods', module, "wait")  BY <1>0, <2>1, <2>2 DEF Running, Only
  <2>7. InHand(Append(mail, x), mods', module)  BY <1>0, <2>2, <2>4, <2>6, Asked DEF Running
  <2>8. mail' \in Seq(Messages) /\ mods' \in [Pids -> {"none", "run", "wait"}]
    BY <1>0, <2>1, <2>4, <2>5, AppendIs
  <2>9. Hand'  BY <1>4, <2>1, <2>5, <2>7 DEF AskAttempt, Hand
  <2> QED  BY <1>0, <1>4, <2>8, <2>9 DEF AskAttempt, Inv, TypeOK, timers, names, world
<1>5. ASSUME NEW p \in Pids, Fail(p)  PROVE Inv'
  <2>1. proc = "up" /\ mods[p] # "none" /\ mods' = [mods EXCEPT ![p] = "none"]
    BY <1>5 DEF Fail, Arrives, Alive
  <2>2. p = module /\ Ours(mail, module)
        /\ (Running(mail, mods, module) \/ Waiting(mail, mods, module))
    BY <2>1 DEF Inv, Hand, InHand, Running, Waiting, Decided, Only
  <2> DEFINE x == ExitOf(p)
  <2>3. x \in Messages /\ x.t = "exit" /\ x.by = module  BY <2>2, MadeOf DEF ExitOf
  <2>4. mail' = Append(mail, x)  BY <1>5 DEF Fail, Arrives
  <2> HIDE DEF x
  <2>5. \A q \in Pids : mods'[q] = "none"  BY <1>0, <2>1, <2>2 DEF Running, Waiting, Only
  <2>6. InHand(Append(mail, x), mods', module)
    <3>1. CASE Running(mail, mods, module)
      <4>1. Moving(x, module) /\ ~Tries(x) /\ x.t \notin {"continue", "branch", "stop"}
        BY <2>3 DEF Moving, Tries
      <4> QED  BY <1>0, <2>2, <2>3, <2>5, <3>1, <4>1, Moved DEF Running
    <3>2. CASE Waiting(mail, mods, module)  BY <1>0, <2>2, <2>3, <2>5, <3>2, FailsInTry
    <3> QED  BY <2>2, <3>1, <3>2
  <2>7. mail' \in Seq(Messages) /\ mods' \in [Pids -> {"none", "run", "wait"}]
    BY <1>0, <2>1, <2>3, <2>4, AppendIs
  <2>8. Hand'  BY <1>5, <2>1, <2>4, <2>6 DEF Fail, Hand
  <2> QED  BY <1>0, <1>5, <2>7, <2>8 DEF Fail, Inv, TypeOK, timers, names, world
<1>6. ASSUME NEW p \in Pids, AskStatus(p)  PROVE Inv'
  <2>1. Hand'  BY <1>2, <1>6 DEF AskStatus
  <2>2. asks' \in 0 .. MaxAsks  BY <1>0, <1>6, BoundAssumption DEF AskStatus, TypeOK
  <2> QED  BY <1>0, <1>6, <2>1, <2>2 DEF AskStatus, Inv, TypeOK, timers, names, world
<1>7. CASE SanityTimer
  <2>1. Msg("call_sanity_check") \in Messages /\ ~Moving(Msg("call_sanity_check"), module)
        /\ ~Tries(Msg("call_sanity_check"))
    BY MadeOf DEF Msg, Moving, Tries
  <2>2. mail' \in Seq(Messages) /\ Hand'  BY <1>1, <1>7, <2>1 DEF SanityTimer
  <2>3. timer' \in {"running", "fired"} /\ strays' \in 0 .. MaxStrays
    BY <1>0, <1>7, BoundAssumption DEF SanityTimer, TypeOK
  <2> QED  BY <1>0, <1>7, <2>2, <2>3 DEF SanityTimer, Inv, TypeOK, names, world
<1>8. CASE StatusResp
  <2>1. Msg("channel_status_resp") \in Messages /\ ~Moving(Msg("channel_status_resp"), module)
        /\ ~Tries(Msg("channel_status_resp"))
    BY MadeOf DEF Msg, Moving, Tries
  <2>2. mail' \in Seq(Messages) /\ Hand'  BY <1>1, <1>8, <2>1 DEF StatusResp, Delivered
  <2> QED  BY <1>0, <1>8, <2>2 DEF StatusResp, Inv, TypeOK, timers, names, world
<1>9. CASE UpdateArrives
  <2>1. PICK id \in updates :
            /\ Delivered(UpdateTo(id)) /\ updates' = updates \ {id}
            /\ UNCHANGED <<proc, flow, module, mods, asks, asked, hangup, timers, call_id,
                           bound, missed, world>>
    BY <1>9 DEF UpdateArrives
  <2>2. id \in CallIds  BY <1>0, <2>1 DEF TypeOK
  <2>3. UpdateTo(id) \in Messages /\ ~Moving(UpdateTo(id), module) /\ ~Tries(UpdateTo(id))
    BY <2>2, MadeOf DEF UpdateTo, Moving, Tries
  <2>4. mail' \in Seq(Messages) /\ Hand'  BY <1>1, <2>1, <2>3 DEF Delivered
  <2> QED  BY <1>0, <2>1, <2>4 DEF Inv, TypeOK, timers, world
<1>10. CASE ControlTransfer
  <2>1. Msg("transfer") \in Messages /\ ~Moving(Msg("transfer"), module) /\ ~Tries(Msg("transfer"))
    BY MadeOf DEF Msg, Moving, Tries
  <2>2. mail' \in Seq(Messages) /\ Hand'  BY <1>1, <1>10, <2>1 DEF ControlTransfer, Delivered
  <2> QED  BY <1>0, <1>10, <2>2 DEF ControlTransfer, Inv, TypeOK, timers, names, world
<1>11. CASE HangUp
  <2>1. Hand'  BY <1>2, <1>11 DEF HangUp
  <2> QED  BY <1>0, <1>11, <2>1 DEF HangUp, Inv, TypeOK, timers, names
<1>12. CASE Transferred
  <2>1. Hand'  BY <1>2, <1>12 DEF Transferred
  <2>2. call' \in CallIds  BY <1>0, <1>12, BoundAssumption DEF Transferred, TypeOK, CallIds
  <2>3. updates' \subseteq CallIds /\ missed' \in BOOLEAN
    BY <1>0, <1>12, <2>2 DEF Transferred, TypeOK
  <2> QED  BY <1>0, <1>12, <2>1, <2>2, <2>3 DEF Transferred, Inv, TypeOK, timers
<1> QED  BY <1>3, <1>4, <1>5, <1>6, <1>7, <1>8, <1>9, <1>10, <1>11, <1>12 DEF ModuleStep

LEMMA StutterStep == Inv /\ UNCHANGED vars => Inv'
BY DEF Inv, TypeOK, Hand, InHand, Ours, Running, Waiting, Decided, Only, Quiet, OneMove, NoTry,
       OneTry, Moving, Tries, vars, timers, names, world

LEMMA InvHolds == Spec => []Inv
<1>1. Init => Inv  BY InitHand
<1>2. Inv /\ [Next]_vars => Inv'  BY HandleStep, OtherStep, StutterStep DEF Next
<1> QED  BY <1>1, <1>2, PTL DEF Spec

(* Every variable keeps the type its code gives it, in every execution of  *)
(* any flow: the executor takes no message it has no clause for, and names *)
(* a module when it continues for it (cf_exe.erl, #state{}).               *)
THEOREM TypesHold == Spec => []TypeOK
<1>1. Inv => TypeOK  BY DEF Inv
<1> QED  BY <1>1, InvHolds, PTL

(* The flow is in one hand at any time, whatever modules fail, wait or     *)
(* decide: either one module is to decide, or one message moves the flow   *)
(* (cf_exe.erl:208-222, 286-301).                                          *)
THEOREM OneHandMovesIt == Spec => []OneDecider
<1>1. Inv => OneDecider
  <2> SUFFICES ASSUME Inv, proc = "up"
               PROVE  \/ Undecided = {module} /\ Movers = {}
                      \/ Undecided = {} /\ \E i \in Movers : Movers = {i}
    BY DEF OneDecider
  <2>1. InHand(mail, mods, module)  BY DEF Inv, Hand
  <2>2. \A x : Moves(x) <=> Moving(x, module)  BY DEF Moves, Moving
  <2>3. CASE Running(mail, mods, module) \/ Waiting(mail, mods, module)
    <3>1. Movers = {}  BY <2>2, <2>3 DEF Running, Waiting, Quiet, Movers
    <3>2. Undecided = {module}  BY <2>3 DEF Running, Waiting, Only, Undecided, Alive
    <3> QED  BY <3>1, <3>2
  <2>4. CASE Decided(mail, mods, module)
    <3>1. Undecided = {}  BY <2>4 DEF Decided, Undecided, Alive
    <3>2. PICK j \in 1 .. Len(mail) : OneMove(mail, module, j)  BY <2>4 DEF Decided
    <3>3. Movers = {j}  BY <2>2, <3>2 DEF OneMove, Movers
    <3> QED  BY <3>1, <3>3
  <2> QED  BY <2>1, <2>3, <2>4 DEF InHand
<1> QED  BY <1>1, InvHolds, PTL

(* Decisions and attempts in the mailbox are of the module the executor    *)
(* stands at, so they are applied to the node they were made at            *)
(* (cf_exe.erl:208-258).                                                   *)
THEOREM DecisionsAreFresh == Spec => []DecidedHere
<1>1. Inv => DecidedHere
  <2> SUFFICES ASSUME Inv PROVE DecidedHere  OBVIOUS
  <2>1. CASE proc = "up"  BY <2>1 DEF Inv, Hand, InHand, Ours, DecidedHere
  <2>2. CASE proc # "up"
    <3>1. mail = <<>>  BY <2>2 DEF Inv, Hand
    <3> QED  BY <3>1 DEF DecidedHere
  <2> QED  BY <2>1, <2>2
<1> QED  BY <1>1, InvHolds, PTL

(* An executor that ends, also with reason normal, leaves no module        *)
(* (cf_exe.erl:240-253).                                                   *)
THEOREM LeavesNoModule == Spec => []NoOrphans
<1>1. Inv => NoOrphans  BY DEF Inv, Hand, NoOrphans, Undecided, Alive
<1> QED  BY <1>1, InvHolds, PTL

-----------------------------------------------------------------------------
(* Where the news of a transfer are: not made, on their way, in the        *)
(* mailbox, or in the mailbox as the change of the bindings.  There are    *)
(* never two, since the queue is bound to one id.                          *)
Tells(x) == x.t \in {"call_id_update", "rebind"}
NoNews(s) == \A i \in 1 .. Len(s) : ~Tells(s[i])
OneNews(s, x) ==
    \E n \in 1 .. Len(s) : s[n] = x /\ \A i \in 1 .. Len(s) : Tells(s[i]) => i = n
Change(from, to) == [t |-> "rebind", rm |-> from, add |-> to]

Settled == NoNews(mail) /\ updates = {} /\ call_id = call /\ bound = {call}
Published ==
    call > 0 /\ NoNews(mail) /\ updates = {call} /\ call_id = call - 1 /\ bound = {call - 1}
Queued ==
    /\ call > 0 /\ OneNews(mail, UpdateTo(call)) /\ updates = {}
    /\ call_id = call - 1 /\ bound = {call - 1}
Changing ==
    /\ call > 0 /\ OneNews(mail, Change(call - 1, call)) /\ updates = {}
    /\ call_id = call /\ bound = {call - 1}

News ==
    /\ proc = "up" => hangup = {} /\ (~missed => Settled \/ Published \/ Queued \/ Changing)
    /\ HangsUpItsCall

LEMMA NewsTail ==
    ASSUME NEW S, NEW s \in Seq(S), s # <<>>
    PROVE  /\ NoNews(s) => NoNews(Tail(s)) /\ ~Tells(s[1])
           /\ \A x : OneNews(s, x) /\ ~Tells(s[1]) /\ Tells(x) => OneNews(Tail(s), x)
           /\ \A x : OneNews(s, x) /\ Tells(s[1]) => s[1] = x /\ NoNews(Tail(s))
<1> DEFINE u == Tail(s)
<1>1. Len(s) \in Nat /\ Len(s) >= 1 /\ Len(u) = Len(s) - 1
      /\ \A i \in 1 .. Len(u) : u[i] = s[i + 1] /\ i + 1 \in 2 .. Len(s)
  BY TailIs
<1> HIDE DEF u
<1>2. 1 \in 1 .. Len(s) /\ \A i \in 1 .. Len(u) : i + 1 \in 1 .. Len(s) /\ i + 1 # 1  BY <1>1
<1>3. NoNews(s) => NoNews(u) /\ ~Tells(s[1])  BY <1>1, <1>2 DEF NoNews
<1>4. ASSUME NEW x, OneNews(s, x), ~Tells(s[1]), Tells(x)  PROVE OneNews(u, x)
  <2>1. PICK n \in 1 .. Len(s) : s[n] = x /\ \A i \in 1 .. Len(s) : Tells(s[i]) => i = n
    BY <1>4 DEF OneNews
  <2>2. n # 1  BY <1>4, <2>1
  <2>3. n - 1 \in 1 .. Len(u) /\ u[n - 1] = x  BY <1>1, <2>1, <2>2
  <2>4. ASSUME NEW i \in 1 .. Len(u), Tells(u[i])  PROVE i = n - 1
    <3>1. i + 1 = n  BY <1>1, <1>2, <2>1, <2>4
    <3> QED  BY <3>1
  <2> QED  BY <2>3, <2>4 DEF OneNews
<1>5. ASSUME NEW x, OneNews(s, x), Tells(s[1])  PROVE s[1] = x /\ NoNews(u)
  <2>1. PICK n \in 1 .. Len(s) : s[n] = x /\ \A i \in 1 .. Len(s) : Tells(s[i]) => i = n
    BY <1>5 DEF OneNews
  <2>2. n = 1  BY <1>2, <1>5, <2>1
  <2> QED  BY <1>1, <1>2, <2>1, <2>2 DEF NoNews
<1> QED  BY <1>3, <1>4, <1>5 DEF u

LEMMA NewsAppend ==
    ASSUME NEW S, NEW s \in Seq(S), NEW y \in S
    PROVE  /\ NoNews(s) /\ ~Tells(y) => NoNews(Append(s, y))
           /\ \A x : OneNews(s, x) /\ ~Tells(y) => OneNews(Append(s, y), x)
           /\ NoNews(s) => OneNews(Append(s, y), y)
<1> DEFINE u == Append(s, y)
<1>1. Len(s) \in Nat /\ Len(u) = Len(s) + 1 /\ (\A i \in 1 .. Len(s) : u[i] = s[i]) /\ u[Len(s) + 1] = y
  BY AppendIs
<1> HIDE DEF u
<1>2. /\ \A i \in 1 .. Len(u) : i \in 1 .. Len(s) \/ i = Len(s) + 1
      /\ \A i \in 1 .. Len(s) : i \in 1 .. Len(u)
      /\ Len(s) + 1 \in 1 .. Len(u)
  BY <1>1
<1>3. NoNews(s) /\ ~Tells(y) => NoNews(u)  BY <1>1, <1>2 DEF NoNews
<1>4. ASSUME NEW x, OneNews(s, x), ~Tells(y)  PROVE OneNews(u, x)
  <2>1. PICK n \in 1 .. Len(s) : s[n] = x /\ \A i \in 1 .. Len(s) : Tells(s[i]) => i = n
    BY <1>4 DEF OneNews
  <2>2. n \in 1 .. Len(u) /\ u[n] = x /\ \A i \in 1 .. Len(u) : Tells(u[i]) => i = n
    BY <1>1, <1>2, <1>4, <2>1
  <2> QED  BY <2>2 DEF OneNews
<1>5. NoNews(s) => OneNews(u, y)
  <2>1. NoNews(s) => \A i \in 1 .. Len(u) : Tells(u[i]) => i = Len(s) + 1
    BY <1>1, <1>2 DEF NoNews
  <2> QED  BY <1>1, <1>2, <2>1 DEF OneNews
<1> QED  BY <1>3, <1>4, <1>5 DEF u

LEMMA TellsOfNews ==
    /\ \A id : Tells(UpdateTo(id)) /\ UpdateTo(id).t = "call_id_update"
    /\ \A r, a : Tells(Change(r, a)) /\ Change(r, a).t = "rebind"
BY DEF Tells, UpdateTo, Change

(* News stay where they are when the mailbox changes by other messages.    *)
LEMMA NewsKept ==
    ASSUME News, UNCHANGED <<proc, names, call, hangup>>,
           NoNews(mail) => NoNews(mail'),
           \A x : OneNews(mail, x) /\ Tells(x) => OneNews(mail', x)
    PROVE  News'
<1>1. HangsUpItsCall'  BY DEF News, HangsUpItsCall, names
<1>2. proc' = "up" => hangup' = {}  BY DEF News
<1>3. ASSUME proc' = "up", ~missed'
      PROVE  Settled' \/ Published' \/ Queued' \/ Changing'
  <2>1. Settled \/ Published \/ Queued \/ Changing  BY <1>3 DEF News, names
  <2>2. CASE Settled  BY <2>2 DEF Settled, names
  <2>3. CASE Published  BY <2>3 DEF Published, names
  <2>4. CASE Queued
    <3>1. OneNews(mail', UpdateTo(call))  BY <2>4, TellsOfNews DEF Queued
    <3> QED  BY <2>4, <3>1 DEF Queued, names, UpdateTo
  <2>5. CASE Changing
    <3>1. OneNews(mail', Change(call - 1, call))  BY <2>5, TellsOfNews DEF Changing
    <3> QED  BY <2>5, <3>1 DEF Changing, names, Change
  <2> QED  BY <2>1, <2>2, <2>3, <2>4, <2>5
<1> QED  BY <1>1, <1>2, <1>3 DEF News

LEMMA NewsEnd ==
    ASSUME News, TypeOK, proc = "up", NEW reason, reason # "up", End(reason)
    PROVE  News'
<1>1. hangup = {} /\ call' = call /\ proc' = reason
  BY DEF News, End, world
<1>2. ASSUME ~missed', reason # "transfer"  PROVE call \in hangup'
  <2>1. ~missed /\ ~Updating /\ hangup' = {call_id}  BY <1>1, <1>2 DEF End
  <2>2. ~Published  BY <2>1 DEF Published, Updating
  <2>3. ~Queued  BY <2>1, TellsOfNews DEF Queued, OneNews, Updating
  <2>4. call_id = call  BY <2>1, <2>2, <2>3 DEF News, Settled, Changing
  <2> QED  BY <2>1, <2>4
<1>3. reason = "transfer" => hangup' = {}  BY <1>1 DEF End
<1>4. HangsUpItsCall'  BY <1>1, <1>2, <1>3 DEF HangsUpItsCall
<1> QED  BY <1>1, <1>4 DEF News

LEMMA NewsStep == Inv /\ News /\ [Next]_vars => News'
<1> SUFFICES ASSUME Inv, News, [Next]_vars PROVE News'  OBVIOUS
<1>0. TypeOK /\ mail \in Seq(Messages) /\ call \in Nat /\ call_id \in Nat
  BY BoundAssumption DEF Inv, TypeOK, CallIds
<1>1. ASSUME mail # <<>>, Post(<<>>), ~Tells(mail[1]), UNCHANGED <<proc, names, call, hangup>>
      PROVE  News'
  <2>1. mail' = Tail(mail)  BY <1>0, <1>1, TailIs DEF Post
  <2> QED  BY <1>0, <1>1, <2>1, NewsTail, NewsKept
<1>2. ASSUME NEW y \in Messages, Arrives(y), ~Tells(y), UNCHANGED <<proc, names, call, hangup>>
      PROVE  News'
  <2>1. mail' = Append(mail, y)  BY <1>2 DEF Arrives
  <2> QED  BY <1>0, <1>2, <2>1, NewsAppend, NewsKept
<1>3. ASSUME NEW p, mail # <<>>, p \in Pids, Post(<<ContinueBy(p, Wild)>>), ~Tells(mail[1]),
             UNCHANGED <<proc, names, call, hangup>>
      PROVE  News'
  <2> DEFINE y == ContinueBy(p, Wild)
  <2>1. y \in Messages /\ ~Tells(y)  BY <1>3, MadeOf, FlowAssumption DEF ContinueBy, Tells
  <2> HIDE DEF y
  <2>2. Tail(mail) \in Seq(Messages)  BY <1>0, <1>3, TailIs
  <2>3. mail' = Append(Tail(mail), y)  BY <1>3, <2>1, <2>2, PostIs DEF Post, y
  <2>4. NoNews(mail) => NoNews(mail')
    <3>1. NoNews(mail) => NoNews(Tail(mail))  BY <1>0, <1>3, NewsTail
    <3>2. NoNews(Tail(mail)) => NoNews(Append(Tail(mail), y))  BY <2>1, <2>2, NewsAppend
    <3> QED  BY <2>3, <3>1, <3>2
  <2>5. ASSUME NEW x, OneNews(mail, x), Tells(x)  PROVE OneNews(mail', x)
    <3>1. OneNews(Tail(mail), x)  BY <1>0, <1>3, <2>5, NewsTail
    <3> QED  BY <2>1, <2>2, <2>3, <3>1, NewsAppend
  <2> QED  BY <1>3, <2>4, <2>5, NewsKept
<1>4. ASSUME mail = mail', UNCHANGED <<proc, names, call, hangup>>  PROVE News'
  BY <1>4, NewsKept
<1>5. ASSUME NEW f, NEW others, Launch(f, others), proc = "up", mail # <<>>, ~Tells(mail[1])
      PROVE  News'
  <2>1. CASE End("badarg")  BY <1>0, <1>5, <2>1, NewsEnd
  <2>2. CASE Post(<<>>) /\ UNCHANGED <<proc, asks, asked, hangup, timers, names, world>>
    BY <1>1, <1>5, <2>2 DEF world
  <2> QED  BY <1>5, <2>1, <2>2 DEF Launch
<1>6. CASE Handle
  <2>0. /\ proc = "up" /\ mail # <<>> /\ Head(mail) = mail[1] /\ mail[1] \in Messages
        /\ InHand(mail, mods, module) /\ 1 \in 1 .. Len(mail)
    <3>1. proc = "up" /\ mail # <<>>
      BY <1>6 DEF Handle, Start, Continue, Branch, Stop, Transfer, Attempt, Exit, ChannelStatus,
                  SanityCheck, CallIdUpdate, Rebind, Next_
    <3> QED  BY <1>0, <3>1, TailIs DEF Inv, Hand
  <2>1. CASE Start  BY <1>5, <2>0, <2>1 DEF Start, Next_, Tells
  <2>2. CASE Continue
    <3>1. mail[1].t = "continue" /\ ~Tells(mail[1])  BY <2>0, <2>2 DEF Continue, Next_, Tells
    <3>2. module \in Pids  BY <2>0, <3>1, Kinds DEF InHand, Ours
    <3>3. CASE End("normal")  BY <1>0, <2>0, <3>3, NewsEnd
    <3>4. CASE /\ Post(<<ContinueBy(module, Wild)>>)
               /\ UNCHANGED <<proc, flow, module, mods, asks, asked, hangup, timers, names, world>>
      BY <1>3, <2>0, <3>1, <3>2, <3>4 DEF world
    <3>5. CASE Launch(Child[flow][mail[1].key], mods)  BY <1>5, <2>0, <3>1, <3>5
    <3> QED  BY <2>0, <2>2, <3>3, <3>4, <3>5 DEF Continue
  <2>3. CASE Branch  BY <1>5, <2>0, <2>3 DEF Branch, Next_, Tells
  <2>4. CASE Stop  BY <1>0, <2>0, <2>4, NewsEnd DEF Stop
  <2>5. CASE Transfer  BY <1>0, <2>0, <2>5, NewsEnd DEF Transfer
  <2>6. CASE Attempt
    <3>1. ~Tells(mail[1])  BY <2>0, <2>6 DEF Attempt, Next_, Tells
    <3>2. CASE \E f, others : Launch(f, others)  BY <1>5, <2>0, <3>1, <3>2
    <3>3. CASE Post(<<>>) /\ UNCHANGED <<proc, flow, module, asks, asked, hangup, timers, names, world>>
      BY <1>1, <2>0, <3>1, <3>3 DEF world
    <3> QED  BY <2>6, <3>2, <3>3 DEF Attempt
  <2>7. CASE Exit
    <3>1. mail[1].t = "exit" /\ ~Tells(mail[1]) /\ mail[1].by \in Pids
      BY <2>0, <2>7, Kinds DEF Exit, Next_, Tells
    <3>2. UNCHANGED <<proc, names, call, hangup>>  BY <2>7 DEF Exit, world
    <3>3. CASE mail[1].by = module
      <4>1. Post(<<ContinueBy(module, Wild)>>)  BY <2>0, <2>7, <3>3 DEF Exit
      <4> QED  BY <1>3, <2>0, <3>1, <3>2, <3>3, <4>1
    <3>4. CASE mail[1].by # module
      <4>1. Post(<<>>)  BY <2>0, <2>7, <3>4 DEF Exit
      <4> QED  BY <1>1, <2>0, <3>1, <3>2, <4>1
    <3> QED  BY <3>3, <3>4
  <2>8. CASE ChannelStatus  BY <1>1, <2>0, <2>8 DEF ChannelStatus, Next_, Tells, world
  <2>9. CASE SanityCheck
    <3>1. ~Tells(mail[1])  BY <2>0, <2>9 DEF SanityCheck, Next_, Tells
    <3>2. CASE End("insane")  BY <1>0, <2>0, <3>2, NewsEnd
    <3>3. CASE Post(<<>>) /\ UNCHANGED <<proc, flow, module, mods, asks, hangup, names, world>>
      BY <1>1, <2>0, <3>1, <3>3 DEF world
    <3> QED  BY <2>9, <3>2, <3>3 DEF SanityCheck
  <2>10. CASE CallIdUpdate
    <3>1. mail[1].t = "call_id_update" /\ Tells(mail[1]) /\ mail[1].id \in CallIds
      BY <2>0, <2>10, Kinds DEF CallIdUpdate, Next_, Tells
    <3>2. hangup' = hangup /\ proc' = "up"  BY <2>0, <2>10 DEF CallIdUpdate
    <3>3. ASSUME ~missed'  PROVE Changing'
      <4>1. ~NoNews(mail) /\ ~missed  BY <1>0, <2>0, <2>10, <3>1, <3>3, NewsTail DEF CallIdUpdate
      <4>2. ~Changing  BY <1>0, <2>0, <3>1, NewsTail, TellsOfNews DEF Changing
      <4>3. Queued  BY <2>0, <4>1, <4>2 DEF News, Settled, Published
      <4>4. mail[1] = UpdateTo(call) /\ NoNews(Tail(mail))
        BY <1>0, <2>0, <3>1, <4>3, NewsTail DEF Queued
      <4>5. mail[1].id = call  BY <4>4 DEF UpdateTo
      <4> DEFINE y == Change(call - 1, call)
      <4>6. y \in Messages
        <5>1. call - 1 \in CallIds /\ call \in CallIds  BY <1>0, <4>3 DEF Queued, TypeOK
        <5> QED  BY <5>1, MadeOf DEF Change
      <4>7. Post(<<y>>)  BY <2>0, <2>10, <4>3, <4>5 DEF CallIdUpdate, Queued, Change
      <4> HIDE DEF y
      <4>8. Tail(mail) \in Seq(Messages)  BY <1>0, <2>0, TailIs
      <4>9. mail' = Append(Tail(mail), y)  BY <4>6, <4>7, <4>8, PostIs DEF Post
      <4>10. OneNews(mail', y)  BY <4>4, <4>6, <4>8, <4>9, NewsAppend
      <4>11. /\ call' = call /\ call_id' = call /\ updates' = updates /\ bound' = bound
        BY <2>0, <2>10, <4>5 DEF CallIdUpdate, world
      <4> QED  BY <4>3, <4>10, <4>11 DEF Queued, Changing, y, Change
    <3> QED  BY <2>0, <3>2, <3>3 DEF News, HangsUpItsCall
  <2>11. CASE Rebind
    <3>1. mail[1].t = "rebind" /\ Tells(mail[1])  BY <2>0, <2>11 DEF Rebind, Next_, Tells
    <3>2. hangup' = hangup /\ proc' = "up"  BY <2>0, <2>11 DEF Rebind
    <3>3. ASSUME ~missed'  PROVE Settled'
      <4>1. ~NoNews(mail) /\ ~missed  BY <1>0, <2>0, <2>11, <3>1, <3>3, NewsTail DEF Rebind
      <4>2. ~Queued  BY <1>0, <2>0, <3>1, NewsTail, TellsOfNews DEF Queued
      <4>3. Changing  BY <2>0, <4>1, <4>2 DEF News, Settled, Published
      <4>4. mail[1] = Change(call - 1, call) /\ NoNews(Tail(mail))
        BY <1>0, <2>0, <3>1, <4>3, NewsTail DEF Changing
      <4>5. mail[1].rm = call - 1 /\ mail[1].add = call  BY <4>4 DEF Change
      <4>6. bound' = {call}  BY <2>0, <2>11, <4>3, <4>5 DEF Rebind, Changing
      <4>7. Tail(mail) \in Seq(Messages)  BY <1>0, <2>0, TailIs
      <4>8. mail' = Tail(mail)  BY <2>11, <4>7 DEF Rebind, Post
      <4>9. call' = call /\ call_id' = call_id /\ updates' = updates  BY <2>11 DEF Rebind, world
      <4> QED  BY <4>3, <4>4, <4>6, <4>8, <4>9 DEF Changing, Settled
    <3> QED  BY <2>0, <3>2, <3>3 DEF News, HangsUpItsCall
  <2> QED  BY <1>6, <2>1, <2>2, <2>3, <2>4, <2>5, <2>6, <2>7, <2>8, <2>9, <2>10, <2>11 DEF Handle
<1>7. CASE ModuleStep
  <2>1. ASSUME NEW p \in Pids, Decide(p)  PROVE News'
    <3>1. PICK d \in Decision(p) : Arrives(d)  BY <2>1 DEF Decide
    <3>2. d \in Messages  BY <3>1, MadeOf, FlowAssumption DEF Decision
    <3>3. ~Tells(d)  BY <3>1 DEF Decision, ContinueBy, BranchBy, StopBy, TransferBy, Tells
    <3> QED  BY <1>2, <2>1, <3>1, <3>2, <3>3 DEF Decide, world
  <2>2. ASSUME NEW p \in Pids, AskAttempt(p)  PROVE News'
    <3>1. PICK key \in Keys : Arrives(AttemptBy(p, key))  BY <2>2 DEF AskAttempt
    <3>2. AttemptBy(p, key) \in Messages /\ ~Tells(AttemptBy(p, key))
      BY MadeOf DEF AttemptBy, Tells
    <3> QED  BY <1>2, <2>2, <3>1, <3>2 DEF AskAttempt, world
  <2>3. ASSUME NEW p \in Pids, Fail(p)  PROVE News'
    <3>1. ExitOf(p) \in Messages /\ ~Tells(ExitOf(p))  BY MadeOf DEF ExitOf, Tells
    <3> QED  BY <1>2, <2>3, <3>1 DEF Fail, world
  <2>4. ASSUME NEW p \in Pids, AskStatus(p)  PROVE News'
    BY <1>4, <2>4 DEF AskStatus, world
  <2> QED  BY <1>7, <2>1, <2>2, <2>3, <2>4 DEF ModuleStep
<1>8. CASE SanityTimer \/ StatusResp \/ ControlTransfer
  <2>1. \A t \in {"call_sanity_check", "channel_status_resp", "transfer"} :
            Msg(t) \in Messages /\ ~Tells(Msg(t))
    BY MadeOf DEF Msg, Tells
  <2> QED  BY <1>2, <1>8, <2>1 DEF SanityTimer, StatusResp, ControlTransfer, Delivered, world
<1>9. CASE UpdateArrives
  <2>1. PICK id \in updates : Delivered(UpdateTo(id)) /\ updates' = updates \ {id}
                              /\ UNCHANGED <<proc, hangup, call_id, bound, missed, call>>
    BY <1>9 DEF UpdateArrives, world
  <2>2. UpdateTo(id) \in Messages  BY <1>0, <2>1, MadeOf DEF TypeOK
  <2>3. mail' = Append(mail, UpdateTo(id)) /\ proc = "up"  BY <2>1 DEF Delivered, Arrives
  <2>4. ASSUME ~missed'  PROVE Queued'
    <3>1. Published  BY <2>1, <2>3, <2>4 DEF News, Settled, Queued, Changing
    <3>2. id = call /\ updates' = {}  BY <2>1, <3>1 DEF Published
    <3>3. OneNews(mail', UpdateTo(call))
      BY <1>0, <2>2, <2>3, <3>1, <3>2, NewsAppend DEF Published
    <3> QED  BY <2>1, <3>1, <3>2, <3>3 DEF Published, Queued, UpdateTo
  <2> QED  BY <2>1, <2>3, <2>4 DEF News, HangsUpItsCall
<1>10. CASE HangUp  BY <1>4, <1>10 DEF HangUp
<1>11. CASE Transferred
  <2>1. /\ proc = "up" /\ call' = call + 1 /\ (~missed' => ~missed /\ call \in bound)
        /\ UNCHANGED <<proc, hangup, mail, call_id, bound>>
        /\ call \in bound => updates' = updates \cup {call + 1}
    BY <1>11 DEF Transferred
  <2>2. ASSUME ~missed'  PROVE Published'
    <3>1. Settled  BY <1>0, <2>1, <2>2 DEF News, Settled, Published, Queued, Changing
    <3> QED  BY <1>0, <2>1, <2>2, <3>1 DEF Settled, Published
  <2> QED  BY <2>1, <2>2 DEF News, HangsUpItsCall
<1>12. CASE UNCHANGED vars  BY <1>4, <1>12 DEF vars, world
<1> QED  BY <1>6, <1>7, <1>8, <1>9, <1>10, <1>11, <1>12 DEF Next

LEMMA NewsHolds == Spec => []News
<1>1. Init => News
  <2> SUFFICES ASSUME Init PROVE News  OBVIOUS
  <2>1. Len(mail) = 1 /\ mail[1].t = "timeout"  BY DEF Init, Msg
  <2>2. NoNews(mail)  BY <2>1 DEF NoNews, Tells
  <2> QED  BY <2>2 DEF Init, News, Settled, HangsUpItsCall
<1>2. Inv /\ News /\ [Next]_vars => News'  BY NewsStep
<1> QED  BY <1>1, <1>2, InvHolds, PTL DEF Spec

(* The executor has the id of its call and is bound to it, or what will    *)
(* tell it so is on its way, unless an update was published when no queue  *)
(* of it was bound to the old id (cf_exe.erl:264-272).                     *)
THEOREM IdIsFollowed == Spec => []FollowsItsCall
<1>1. News => FollowsItsCall
  <2> SUFFICES ASSUME News, proc = "up", ~missed
               PROVE  \/ Updating
                      \/ /\ call_id = call
                         /\ \/ call \in bound
                            \/ \E i \in 1 .. Len(mail) : mail[i].t = "rebind" /\ mail[i].add = call
    BY DEF FollowsItsCall
  <2>1. CASE Settled  BY <2>1 DEF Settled
  <2>2. CASE Published  BY <2>2 DEF Published, Updating
  <2>3. CASE Queued  BY <2>3, TellsOfNews DEF Queued, OneNews, Updating
  <2>4. CASE Changing
    <3>1. PICK n \in 1 .. Len(mail) : mail[n] = Change(call - 1, call)  BY <2>4 DEF Changing, OneNews
    <3>2. mail[n].t = "rebind" /\ mail[n].add = call  BY <3>1 DEF Change
    <3> QED  BY <2>4, <3>2 DEF Changing
  <2> QED  BY <2>1, <2>2, <2>3, <2>4 DEF News
<1> QED  BY <1>1, NewsHolds, PTL

(* An executor that ends hangs up its call by its present id, unless it    *)
(* gave the call away (cf_exe.erl:368-379).                                *)
THEOREM CallIsHungUp == Spec => []HangsUpItsCall
<1>1. News => HangsUpItsCall  BY DEF News
<1> QED  BY <1>1, NewsHolds, PTL
-----------------------------------------------------------------------------
(* The walk that is promised.  Handed, of a mailbox s, the modules m and   *)
(* the present module p.                                                   *)

HandOf(s, m, p) ==
    IF p # None /\ m[p] # "none" THEN
        IF m[p] = "run" THEN By("module", Undefined)
        ELSE By("attempt", s[CHOOSE i \in 1 .. Len(s) : s[i].t = "attempt"].key)
    ELSE IF \E i \in 1 .. Len(s) : s[i].t = "attempt" THEN
        By("given up", s[CHOOSE i \in 1 .. Len(s) : s[i].t = "attempt"].key)
    ELSE Meant(s[CHOOSE i \in 1 .. Len(s) : Moving(s[i], p)])

(* Whatever is found in the mailbox says whose hand it is. *)
Says(s, m, p, h) ==
    /\ p # None /\ m[p] = "run" => h = By("module", Undefined)
    /\ p # None /\ m[p] = "wait" =>
          \A a \in 1 .. Len(s) : Tries(s[a]) => h = By("attempt", s[a].key)
    /\ p = None \/ m[p] = "none" =>
          /\ \A a \in 1 .. Len(s) : Tries(s[a]) => h = By("given up", s[a].key)
          /\ NoTry(s) => \A j \in 1 .. Len(s) : Moving(s[j], p) => h = Meant(s[j])

HandRead == Handed = IF proc = "up" THEN HandOf(mail, mods, module) ELSE By("over", Undefined)

LEMMA HandedIs == HandRead
<1>1. Mover = mail[CHOOSE i \in 1 .. Len(mail) : Moving(mail[i], module)]
  BY Zenon DEF Mover, Moves, Moving
<1>2. Tried = mail[CHOOSE i \in 1 .. Len(mail) : mail[i].t = "attempt"]  BY Zenon DEF Tried
<1>3. Trying <=> \E i \in 1 .. Len(mail) : mail[i].t = "attempt"  BY DEF Trying
<1>4. Alive(module) <=> mods[module] # "none"  BY DEF Alive
<1>5. Handed =
        IF proc # "up" THEN By("over", Undefined)
        ELSE IF module # None /\ Alive(module) THEN
            IF mods[module] = "run" THEN By("module", Undefined) ELSE By("attempt", Tried.key)
        ELSE IF Trying THEN By("given up", Tried.key)
        ELSE Meant(Mover)
  BY Zenon DEF Handed
<1> DEFINE tried == mail[CHOOSE i \in 1 .. Len(mail) : mail[i].t = "attempt"]
           mover == mail[CHOOSE i \in 1 .. Len(mail) : Moving(mail[i], module)]
           trying == \E i \in 1 .. Len(mail) : mail[i].t = "attempt"
<1>6. HandOf(mail, mods, module) =
        IF module # None /\ mods[module] # "none" THEN
            IF mods[module] = "run" THEN By("module", Undefined) ELSE By("attempt", tried.key)
        ELSE IF trying THEN By("given up", tried.key)
        ELSE Meant(mover)
  BY Zenon DEF HandOf
<1>7. Tried = tried /\ Mover = mover /\ (Trying <=> trying)  BY <1>1, <1>2, <1>3
<1> HIDE DEF tried, mover, trying
<1> QED  BY <1>4, <1>5, <1>6, <1>7 DEF HandRead

LEMMA NextHandedIs ==
    Handed' = IF proc' = "up" THEN HandOf(mail', mods', module') ELSE By("over", Undefined)
<1>1. HandRead'  BY HandedIs, PTL
<1> QED  BY <1>1 DEF HandRead

LEMMA SaidIsHanded ==
    ASSUME NEW s, NEW m, NEW p \in Pids \cup {None}, NEW h, InHand(s, m, p), Says(s, m, p, h)
    PROVE  HandOf(s, m, p) = h
<1>1. CASE Running(s, m, p)
  <2>1. p # None /\ m[p] = "run"  BY <1>1, PidAssumption DEF Running, Only
  <2> QED  BY <2>1 DEF HandOf, Says
<1> DEFINE a == CHOOSE i \in 1 .. Len(s) : s[i].t = "attempt"
<1>2. CASE Waiting(s, m, p)
  <2>1. p # None /\ m[p] = "wait"  BY <1>2, PidAssumption DEF Waiting, Only
  <2>2. \E i \in 1 .. Len(s) : s[i].t = "attempt"  BY <1>2 DEF Waiting, OneTry, Tries
  <2>3. a \in 1 .. Len(s) /\ s[a].t = "attempt"  BY <2>2
  <2>4. HandOf(s, m, p) = By("attempt", s[a].key)  BY <2>1 DEF HandOf
  <2> HIDE DEF a
  <2> QED  BY <2>1, <2>3, <2>4 DEF Says, Tries
<1>3. CASE Decided(s, m, p)
  <2>1. p = None \/ m[p] = "none"  BY <1>3 DEF Decided
  <2>2. CASE \E i \in 1 .. Len(s) : s[i].t = "attempt"
    <3>1. a \in 1 .. Len(s) /\ s[a].t = "attempt"  BY <2>2
    <3>2. HandOf(s, m, p) = By("given up", s[a].key)  BY <2>1, <2>2 DEF HandOf
    <3> HIDE DEF a
    <3> QED  BY <2>1, <3>1, <3>2 DEF Says, Tries
  <2>3. CASE NoTry(s)
    <3> DEFINE j == CHOOSE i \in 1 .. Len(s) : Moving(s[i], p)
    <3>1. \E i \in 1 .. Len(s) : Moving(s[i], p)  BY <1>3 DEF Decided, OneMove
    <3>2. j \in 1 .. Len(s) /\ Moving(s[j], p)  BY <3>1
    <3>3. ~\E i \in 1 .. Len(s) : s[i].t = "attempt"  BY <2>3 DEF NoTry, Tries
    <3>4. HandOf(s, m, p) = Meant(s[j])  BY <2>1, <3>3 DEF HandOf
    <3> HIDE DEF j
    <3> QED  BY <2>1, <2>3, <3>2, <3>4 DEF Says
  <2> QED  BY <2>2, <2>3 DEF NoTry, Tries
<1> QED  BY <1>1, <1>2, <1>3 DEF InHand

LEMMA HandedIsSaid ==
    ASSUME NEW s, NEW m, NEW p \in Pids \cup {None}, InHand(s, m, p)
    PROVE  Says(s, m, p, HandOf(s, m, p))
<1> DEFINE a == CHOOSE i \in 1 .. Len(s) : s[i].t = "attempt"
<1>1. CASE Running(s, m, p)
  <2>1. p # None /\ m[p] = "run"  BY <1>1, PidAssumption DEF Running, Only
  <2> QED  BY <2>1 DEF HandOf, Says
<1>2. CASE Waiting(s, m, p)
  <2>1. p # None /\ m[p] = "wait"  BY <1>2, PidAssumption DEF Waiting, Only
  <2>2. PICK b \in 1 .. Len(s) : OneTry(s, b)  BY <1>2 DEF Waiting
  <2>3. a = b  BY <2>2 DEF OneTry, Tries
  <2>4. HandOf(s, m, p) = By("attempt", s[a].key)  BY <2>1 DEF HandOf
  <2> HIDE DEF a
  <2> QED  BY <2>1, <2>2, <2>3, <2>4 DEF Says, OneTry
<1>3. CASE Decided(s, m, p)
  <2>1. p = None \/ m[p] = "none"  BY <1>3 DEF Decided
  <2>2. PICK j \in 1 .. Len(s) :
            OneMove(s, p, j) /\ (NoTry(s) \/ (s[j].t = "exit" /\ \E b \in 1 .. j - 1 : OneTry(s, b)))
    BY <1>3 DEF Decided
  <2>3. CASE NoTry(s)
    <3>1. j = CHOOSE i \in 1 .. Len(s) : Moving(s[i], p)  BY <2>2 DEF OneMove
    <3>2. ~\E i \in 1 .. Len(s) : s[i].t = "attempt"  BY <2>3 DEF NoTry, Tries
    <3>3. HandOf(s, m, p) = Meant(s[j])  BY <2>1, <3>1, <3>2 DEF HandOf
    <3> QED  BY <2>1, <2>2, <2>3, <3>3 DEF Says, OneMove, NoTry
  <2>4. CASE ~NoTry(s)
    <3>1. PICK b \in 1 .. j - 1 : OneTry(s, b)  BY <2>2, <2>4
    <3>2. a = b  BY <3>1 DEF OneTry, Tries
    <3>3. HandOf(s, m, p) = By("given up", s[a].key)  BY <2>1, <2>4 DEF HandOf, NoTry, Tries
    <3> HIDE DEF a
    <3> QED  BY <2>1, <2>4, <3>1, <3>2, <3>3 DEF Says, OneTry
  <2> QED  BY <2>3, <2>4
<1> QED  BY <1>1, <1>2, <1>3 DEF InHand

(* A message that neither moves nor tries says nothing. *)
LEMMA SaysTail ==
    ASSUME NEW S, NEW s \in Seq(S), s # <<>>, NEW m, NEW p, NEW h, Says(s, m, p, h),
           ~Moving(s[1], p), ~Tries(s[1])
    PROVE  Says(Tail(s), m, p, h)
<1> DEFINE u == Tail(s)
<1>1. Len(s) \in Nat /\ Len(u) = Len(s) - 1 /\ \A i \in 1 .. Len(u) : u[i] = s[i + 1] /\ i + 1 \in 1 .. Len(s)
  BY TailIs
<1> HIDE DEF u
<1>2. \A i \in 1 .. Len(s) : i = 1 \/ (i - 1 \in 1 .. Len(u) /\ u[i - 1] = s[i])  BY <1>1
<1>3. NoTry(u) => NoTry(s)  BY <1>1, <1>2 DEF NoTry
<1> QED  BY <1>1, <1>3 DEF Says, u

LEMMA SaysAppend ==
    ASSUME NEW S, NEW s \in Seq(S), NEW x \in S, NEW m, NEW p, NEW h, Says(s, m, p, h),
           ~Moving(x, p), ~Tries(x)
    PROVE  Says(Append(s, x), m, p, h)
<1> DEFINE u == Append(s, x)
<1>1. Len(s) \in Nat /\ Len(u) = Len(s) + 1 /\ (\A i \in 1 .. Len(s) : u[i] = s[i]) /\ u[Len(s) + 1] = x
  BY AppendIs
<1> HIDE DEF u
<1>2. \A i \in 1 .. Len(u) : i \in 1 .. Len(s) \/ i = Len(s) + 1  BY <1>1
<1>3. NoTry(u) => NoTry(s)  BY <1>1 DEF NoTry
<1> QED  BY <1>1, <1>2, <1>3 DEF Says, u

(* The only move says what it means. *)
LEMMA SaysMoved ==
    ASSUME NEW S, NEW s \in Seq(S), NEW x \in S, NEW m, NEW p, Quiet(s, p), NoTry(s),
           p = None \/ m[p] = "none", ~Tries(x)
    PROVE  Says(Append(s, x), m, p, Meant(x))
<1> DEFINE u == Append(s, x)
<1>1. Len(s) \in Nat /\ Len(u) = Len(s) + 1 /\ (\A i \in 1 .. Len(s) : u[i] = s[i]) /\ u[Len(s) + 1] = x
  BY AppendIs
<1> HIDE DEF u
<1>2. \A i \in 1 .. Len(u) : i \in 1 .. Len(s) \/ i = Len(s) + 1  BY <1>1
<1>3. NoTry(u)  BY <1>1, <1>2 DEF NoTry
<1>4. \A j \in 1 .. Len(u) : Moving(u[j], p) => u[j] = x  BY <1>1, <1>2 DEF Quiet
<1> QED  BY <1>3, <1>4 DEF Says, NoTry, u

LEMMA SaysTried ==
    ASSUME NEW S, NEW s \in Seq(S), NEW x \in S, NEW m, NEW p, NoTry(s), m[p] = "wait", p # None
    PROVE  Says(Append(s, x), m, p, By("attempt", x.key))
<1> DEFINE u == Append(s, x)
<1>1. Len(s) \in Nat /\ Len(u) = Len(s) + 1 /\ (\A i \in 1 .. Len(s) : u[i] = s[i]) /\ u[Len(s) + 1] = x
  BY AppendIs
<1> HIDE DEF u
<1>2. \A i \in 1 .. Len(u) : i \in 1 .. Len(s) \/ i = Len(s) + 1  BY <1>1
<1>3. \A j \in 1 .. Len(u) : Tries(u[j]) => u[j] = x  BY <1>1, <1>2 DEF NoTry
<1> QED  BY <1>3 DEF Says, u

(* A module that fails while it waits has given the attempt up. *)
LEMMA SaysGivenUp ==
    ASSUME NEW S, NEW s \in Seq(S), NEW x \in S, NEW m, NEW n, NEW p \in Pids, NEW h,
           Says(s, m, p, h), Waiting(s, m, p), n[p] = "none", ~Tries(x)
    PROVE  /\ h.what = "attempt"
           /\ Says(Append(s, x), n, p, By("given up", h.arg))
<1> DEFINE u == Append(s, x)
<1>1. Len(s) \in Nat /\ Len(u) = Len(s) + 1 /\ (\A i \in 1 .. Len(s) : u[i] = s[i]) /\ u[Len(s) + 1] = x
  BY AppendIs
<1> HIDE DEF u
<1>2. \A i \in 1 .. Len(u) : i \in 1 .. Len(s) \/ i = Len(s) + 1  BY <1>1
<1>3. PICK a \in 1 .. Len(s) : OneTry(s, a)  BY DEF Waiting
<1>4. h = By("attempt", s[a].key)  BY <1>3, PidAssumption DEF Says, Waiting, Only, OneTry
<1>5. h.what = "attempt" /\ h.arg = s[a].key  BY <1>4 DEF By
<1>6. \A j \in 1 .. Len(u) : Tries(u[j]) => u[j] = s[a]  BY <1>1, <1>2, <1>3 DEF OneTry
<1>7. ~NoTry(u)  BY <1>1, <1>3 DEF NoTry, OneTry
<1> QED  BY <1>5, <1>6, <1>7, PidAssumption DEF Says, u

LEMMA HandedSays ==
    ASSUME Inv, proc = "up"
    PROVE  InHand(mail, mods, module) /\ Says(mail, mods, module, Handed)
<1>1. InHand(mail, mods, module) /\ module \in Pids \cup {None}  BY DEF Inv, Hand, TypeOK
<1>2. Handed = HandOf(mail, mods, module)  BY HandedIs DEF HandRead
<1> QED  BY <1>1, <1>2, HandedIsSaid

LEMMA HandPasses ==
    ASSUME Inv', proc' = "up", NEW h, Says(mail', mods', module', h)
    PROVE  Handed' = h
<1>1. InHand(mail', mods', module') /\ module' \in Pids \cup {None}  BY DEF Inv, Hand, TypeOK
<1>2. HandOf(mail', mods', module') = h  BY <1>1, SaidIsHanded
<1> QED  BY <1>2, NextHandedIs

LEMMA WalkEnds ==
    ASSUME NEW reason, reason # "up", End(reason)
    PROVE  Walk!End(reason)
<1>1. proc' = reason /\ UNCHANGED flow  BY DEF End
<1>2. Handed' = By("over", Undefined)  BY <1>1, NextHandedIs
<1> QED  BY <1>1, <1>2 DEF Walk!End, Walk!Over, Walk!Hand, By

LEMMA WalkGoes ==
    ASSUME Inv, Inv', proc = "up", NEW f, NEW others, Launch(f, others),
           others \in [Pids -> {"none", "run", "wait"}]
    PROVE  Walk!Goto(f) \/ (f = Empty /\ Walk!End("badarg"))
<1>1. CASE f = Empty /\ End("badarg")  BY <1>1, WalkEnds
<1>2. CASE f \in Nodes /\ \E p \in Pids : Free(p)
  <2>1. /\ flow' = f /\ module' = NewPid /\ mods' = [others EXCEPT ![NewPid] = "run"]
        /\ UNCHANGED proc
    BY <1>2, FlowAssumption DEF Launch
  <2>2. NewPid \in Pids  BY <1>2 DEF NewPid
  <2>3. mods'[module'] = "run" /\ module' # None  BY <2>1, <2>2, PidAssumption
  <2>4. Says(mail', mods', module', By("module", Undefined))  BY <2>3 DEF Says
  <2>5. Handed' = By("module", Undefined)  BY <2>1, <2>4, HandPasses
  <2> QED  BY <1>2, <2>1, <2>5 DEF Walk!Goto, Walk!Module, Walk!Hand, By
<1> QED  BY <1>1, <1>2 DEF Launch

(* What the executor does with the next message.                           *)
LEMMA MessageWalks ==
    ASSUME Inv, Inv', proc = "up", mail # <<>>, Moving(mail[1], module)
    PROVE  /\ Handed = Meant(mail[1]) /\ mail[1] \in Messages
           /\ (\A q \in Pids : mods[q] = "none") /\ Quiet(Tail(mail), module) /\ NoTry(Tail(mail))
<1>1. mail \in Seq(Messages) /\ mods \in [Pids -> {"none", "run", "wait"}]
      /\ module \in Pids \cup {None}
  BY DEF Inv, TypeOK
<1>2. InHand(mail, mods, module) /\ Says(mail, mods, module, Handed)  BY HandedSays
<1>3. (\A q \in Pids : mods[q] = "none") /\ Quiet(Tail(mail), module) /\ NoTry(Tail(mail))
  BY <1>1, <1>2, AtMove
<1>4. Len(mail) \in Nat /\ 1 \in 1 .. Len(mail) /\ mail[1] \in Messages
      /\ \A i \in 2 .. Len(mail) : i - 1 \in 1 .. Len(Tail(mail)) /\ mail[i] = Tail(mail)[i - 1]
  BY <1>1, TailIs
<1>5. ~Tries(mail[1])  BY DEF Moving, Tries
<1>6. NoTry(mail)
  <2> SUFFICES ASSUME NEW i \in 1 .. Len(mail) PROVE ~Tries(mail[i])  BY DEF NoTry
  <2>1. i = 1 \/ i \in 2 .. Len(mail)  BY <1>4
  <2> QED  BY <1>3, <1>4, <1>5, <2>1 DEF NoTry
<1>7. module = None \/ mods[module] = "none"  BY <1>1, <1>3
<1>8. Handed = Meant(mail[1])  BY <1>2, <1>4, <1>6, <1>7 DEF Says
<1> QED  BY <1>3, <1>4, <1>8

(* A message of no consequence.                                            *)
LEMMA OtherTaken ==
    ASSUME Inv, Inv', proc = "up", mail # <<>>, ~Moving(mail[1], module), ~Tries(mail[1]),
           UNCHANGED <<proc, module, mods>>,
           mail' = Tail(mail) \/ \E x \in Messages : mail' = Append(Tail(mail), x)
                                                     /\ ~Moving(x, module) /\ ~Tries(x)
    PROVE  Handed' = Handed
<1>1. mail \in Seq(Messages) /\ Tail(mail) \in Seq(Messages)  BY TailIs DEF Inv, TypeOK
<1>2. Says(mail, mods, module, Handed)  BY HandedSays
<1>3. Says(Tail(mail), mods, module, Handed)  BY <1>1, <1>2, SaysTail
<1>4. Says(mail', mods, module, Handed)  BY <1>1, <1>3, SaysAppend
<1> QED  BY <1>4, HandPasses

LEMMA OtherCome ==
    ASSUME Inv, Inv', UNCHANGED <<proc, module, mods>>, NEW x \in Messages, Arrives(x),
           ~Moving(x, module), ~Tries(x)
    PROVE  Handed' = Handed
<1>1. mail \in Seq(Messages) /\ proc = "up" /\ mail' = Append(mail, x)
  BY DEF Inv, TypeOK, Arrives
<1>2. Says(mail, mods, module, Handed)  BY <1>1, HandedSays
<1>3. Says(mail', mods, module, Handed)  BY <1>1, <1>2, SaysAppend
<1> QED  BY <1>1, <1>3, HandPasses

LEMMA HandleWalks ==
    ASSUME Inv, Inv', Handle
    PROVE  (Walk!WalkNext) \/ UNCHANGED <<proc, flow, Handed>>
<1>0. /\ proc = "up" /\ mail # <<>> /\ mail \in Seq(Messages) /\ Head(mail) = mail[1]
      /\ mail[1] \in Messages /\ Tail(mail) \in Seq(Messages)
      /\ mods \in [Pids -> {"none", "run", "wait"}] /\ module \in Pids \cup {None}
  <2>1. proc = "up" /\ mail # <<>>
    BY DEF Handle, Start, Continue, Branch, Stop, Transfer, Attempt, Exit, ChannelStatus,
           SanityCheck, CallIdUpdate, Rebind, Next_
  <2> QED  BY <2>1, TailIs DEF Inv, TypeOK
<1>1. \A key : Post(<<ContinueBy(module, key)>>) => mail' = Append(Tail(mail), ContinueBy(module, key))
  BY <1>0 DEF Post
<1>2. Post(<<>>) => mail' = Tail(mail)  BY <1>0 DEF Post
<1>3. CASE Start
  <2>1. Moving(mail[1], module) /\ mail[1].t = "timeout" /\ Launch(flow, mods)
    BY <1>0, <1>3 DEF Start, Next_, Moving
  <2>2. Handed = By("start", Undefined)  BY <1>0, <2>1, MessageWalks DEF Meant
  <2>3. flow # Empty  BY FlowAssumption DEF Inv, TypeOK
  <2>4. Walk!Goto(flow)  BY <1>0, <2>1, <2>3, WalkGoes
  <2> QED  BY <1>0, <2>2, <2>4 DEF Walk!WalkNext, Walk!Begin, Walk!Start, Walk!Hand, By
<1>4. CASE Continue
  <2>1. Moving(mail[1], module) /\ mail[1].t = "continue"  BY <1>0, <1>4 DEF Continue, Next_, Moving
  <2>2. /\ Handed = By("continue", mail[1].key)
        /\ (\A q \in Pids : mods[q] = "none") /\ Quiet(Tail(mail), module) /\ NoTry(Tail(mail))
    BY <1>0, <2>1, MessageWalks DEF Meant
  <2>3. Handed.what = "continue" /\ Handed.arg = mail[1].key  BY <2>2 DEF By
  <2> DEFINE next == Child[flow][mail[1].key]
  <2>4. CASE next \in {Undefined, Empty} /\ (next = Undefined => mail[1].key = Wild) /\ End("normal")
    <3>1. Walk!End("normal")  BY <2>4, WalkEnds
    <3> QED  BY <1>0, <2>3, <2>4, <3>1 DEF Walk!WalkNext, Walk!Continue
  <2>5. CASE /\ next = Undefined /\ mail[1].key # Wild
             /\ Post(<<ContinueBy(module, Wild)>>)
             /\ UNCHANGED <<proc, flow, module, mods, asks, asked, hangup, timers, names, world>>
    <3>1. mail[1].by = module /\ module \in Pids
      <4>1. 1 \in 1 .. Len(mail)  BY <1>0, TailIs
      <4> QED  BY <1>0, <2>1, <4>1, Kinds, HandedSays DEF InHand, Ours
    <3> DEFINE x == ContinueBy(module, Wild)
    <3>2. x \in Messages /\ ~Tries(x) /\ Meant(x) = By("continue", Wild)
      BY <3>1, MadeOf, FlowAssumption DEF ContinueBy, Tries, Meant
    <3>3. mail' = Append(Tail(mail), x)  BY <1>1, <2>5
    <3> HIDE DEF x
    <3>4. Says(mail', mods, module, Meant(x))  BY <1>0, <2>2, <3>1, <3>2, <3>3, SaysMoved
    <3>5. Handed' = By("continue", Wild)  BY <1>0, <2>5, <3>2, <3>4, HandPasses
    <3>6. Walk!Pass(Walk!Hand("continue", Wild))  BY <2>5, <3>5 DEF Walk!Pass, Walk!Hand, By
    <3> QED  BY <1>0, <2>3, <2>5, <3>6 DEF Walk!WalkNext, Walk!Continue
  <2>6. CASE next \in Nodes /\ Launch(next, mods)
    <3>1. Walk!Goto(next)  BY <1>0, <2>6, WalkGoes, FlowAssumption
    <3> QED  BY <1>0, <2>3, <3>1 DEF Walk!WalkNext, Walk!Continue
  <2>7. \/ next = Undefined /\ mail[1].key = Wild /\ End("normal")
        \/ /\ next = Undefined /\ mail[1].key # Wild
           /\ Post(<<ContinueBy(module, Wild)>>)
           /\ UNCHANGED <<proc, flow, module, mods, asks, asked, hangup, timers, names, world>>
        \/ next = Empty /\ End("normal")
        \/ next \in Nodes /\ Launch(next, mods)
    BY <1>0, <1>4, Zenon DEF Continue
  <2> HIDE DEF next
  <2> QED  BY <2>4, <2>5, <2>6, <2>7, FlowAssumption
<1>5. CASE Branch
  <2>1. Moving(mail[1], module) /\ mail[1].t = "branch" /\ Launch(mail[1].flow, mods)
    BY <1>0, <1>5 DEF Branch, Next_, Moving
  <2>2. Handed = By("branch", mail[1].flow)  BY <1>0, <2>1, MessageWalks DEF Meant
  <2>3. Handed.what = "branch" /\ Handed.arg = mail[1].flow  BY <2>2 DEF By
  <2>4. Walk!Goto(mail[1].flow) \/ (mail[1].flow = Empty /\ Walk!End("badarg"))
    BY <1>0, <2>1, WalkGoes
  <2> QED  BY <1>0, <2>3, <2>4 DEF Walk!WalkNext, Walk!Branch
<1>6. CASE Stop
  <2>1. Moving(mail[1], module) /\ mail[1].t = "stop" /\ End("normal")
    BY <1>0, <1>6 DEF Stop, Next_, Moving
  <2>2. Handed = By("stop", Undefined)  BY <1>0, <2>1, MessageWalks DEF Meant
  <2>3. Walk!End("normal")  BY <2>1, WalkEnds
  <2> QED  BY <1>0, <2>2, <2>3 DEF Walk!WalkNext, Walk!Finish, By
<1>7. CASE Transfer
  <2>1. Walk!End("transfer")  BY <1>7, WalkEnds DEF Transfer
  <2> QED  BY <1>0, <2>1 DEF Walk!WalkNext, Walk!Leave
<1>8. CASE Attempt
  <2>1. Tries(mail[1])  BY <1>0, <1>8 DEF Attempt, Next_, Tries
  <2>2. InHand(mail, mods, module) /\ Says(mail, mods, module, Handed)  BY <1>0, HandedSays
  <2>3. /\ mail[1].by = module /\ Plain(Tail(mail)) /\ NoTry(Tail(mail))
        /\ \/ Only(mods, module, "wait") /\ Quiet(Tail(mail), module)
           \/ Decided(Tail(mail), mods, module)
    BY <1>0, <2>1, <2>2, AtTry
  <2>4. module \in Pids /\ 1 \in 1 .. Len(mail)  BY <1>0, <2>1, <2>3, Kinds, TailIs DEF Tries
  <2>5. /\ mods[module] \in {"wait", "none"}
        /\ mods[module] = "wait" => Handed = By("attempt", mail[1].key)
        /\ mods[module] = "none" => Handed = By("given up", mail[1].key)
    BY <2>1, <2>2, <2>3, <2>4, PidAssumption DEF Says, Only, Decided
  <2>6. /\ Handed.what \in {"attempt", "given up"} /\ Handed.arg = mail[1].key
        /\ mods[module] = "wait" => Handed.what = "attempt"
        /\ mods[module] = "none" => Handed.what = "given up"
    <3>1. CASE mods[module] = "wait"
      <4>1. Handed = By("attempt", mail[1].key)  BY <2>5, <3>1
      <4>2. Handed.what = "attempt" /\ Handed.arg = mail[1].key  BY <4>1 DEF By
      <4> QED  BY <3>1, <4>2
    <3>2. CASE mods[module] = "none"
      <4>1. Handed = By("given up", mail[1].key)  BY <2>5, <3>2
      <4>2. Handed.what = "given up" /\ Handed.arg = mail[1].key  BY <4>1 DEF By
      <4> QED  BY <3>2, <4>2
    <3> QED  BY <2>5, <3>1, <3>2
  <2> DEFINE next == Child[flow][mail[1].key]
  <2>7. CASE next \in Nodes /\ Launch(next, [mods EXCEPT ![module] = "none"])
    <3> DEFINE others == [mods EXCEPT ![module] = "none"]
    <3>1. others \in [Pids -> {"none", "run", "wait"}] /\ Launch(next, others)  BY <1>0, <2>7
    <3> HIDE DEF others
    <3>2. Walk!Goto(next)  BY <1>0, <2>7, <3>1, WalkGoes, FlowAssumption
    <3> QED  BY <1>0, <2>6, <3>2 DEF Walk!WalkNext, Walk!Answer
  <2>8. CASE /\ next \notin Nodes
             /\ mods' = [mods EXCEPT ![module] = IF Alive(module) THEN "run" ELSE "none"]
             /\ Post(<<>>)
             /\ UNCHANGED <<proc, flow, module, asks, asked, hangup, timers, names, world>>
    <3>1. mail' = Tail(mail)  BY <1>2, <2>8
    <3>2. CASE mods[module] = "wait"
      <4>1. mods'[module] = "run"  BY <1>0, <2>4, <2>8, <3>2 DEF Alive
      <4>2. Says(mail', mods', module', By("module", Undefined))
        BY <2>4, <2>8, <4>1, PidAssumption DEF Says
      <4>3. Handed' = By("module", Undefined)  BY <1>0, <2>8, <4>2, HandPasses
      <4>4. Walk!Pass(Walk!Module)  BY <2>8, <4>3 DEF Walk!Pass, Walk!Module, Walk!Hand, By
      <4> QED  BY <1>0, <2>6, <2>8, <3>2, <4>4 DEF Walk!WalkNext, Walk!Answer
    <3>3. CASE mods[module] = "none"
      <4>1. mods'[module] = "none"  BY <1>0, <2>4, <2>8, <3>3 DEF Alive
      <4>2. \A j \in 1 .. Len(mail') : Moving(mail'[j], module) => mail'[j].t = "exit"
        BY <2>3, <3>1 DEF Plain, Moving
      <4>3. Says(mail', mods', module', By("failed", Undefined))
        BY <2>3, <2>8, <3>1, <4>1, <4>2 DEF Says, NoTry, Meant
      <4>4. Handed' = By("failed", Undefined)  BY <1>0, <2>8, <4>3, HandPasses
      <4>5. Walk!Pass(Walk!Failed)  BY <2>8, <4>4 DEF Walk!Pass, Walk!Failed, Walk!Hand, By
      <4> QED  BY <1>0, <2>6, <2>8, <3>3, <4>5 DEF Walk!WalkNext, Walk!Answer
    <3> QED  BY <2>5, <3>2, <3>3
  <2> QED  BY <1>0, <1>8, <2>3, <2>7, <2>8 DEF Attempt
<1>9. CASE Exit
  <2>1. mail[1].t = "exit" /\ mail[1].by \in Pids  BY <1>0, <1>9, Kinds DEF Exit, Next_
  <2>2. CASE mail[1].by = module
    <3>1. Moving(mail[1], module)  BY <2>1, <2>2 DEF Moving
    <3>2. /\ Handed = By("failed", Undefined)
          /\ (\A q \in Pids : mods[q] = "none") /\ Quiet(Tail(mail), module) /\ NoTry(Tail(mail))
      BY <1>0, <2>1, <3>1, MessageWalks DEF Meant
    <3> DEFINE x == ContinueBy(module, Wild)
    <3>3. x \in Messages /\ ~Tries(x) /\ Meant(x) = By("continue", Wild)
      BY <2>1, <2>2, MadeOf, FlowAssumption DEF ContinueBy, Tries, Meant
    <3>4. mail' = Append(Tail(mail), x)  BY <1>0, <1>1, <1>9, <2>2 DEF Exit
    <3> HIDE DEF x
    <3>5. Says(mail', mods, module, Meant(x))  BY <1>0, <2>1, <2>2, <3>2, <3>3, <3>4, SaysMoved
    <3>6. Handed' = By("continue", Wild)  BY <1>0, <1>9, <3>3, <3>5, HandPasses DEF Exit
    <3>7. Walk!Pass(Walk!Hand("continue", Wild))
      BY <1>9, <3>6 DEF Exit, Walk!Pass, Walk!Hand, By
    <3> QED  BY <1>0, <3>2, <3>7 DEF Walk!WalkNext, Walk!Recover, Walk!Failed, Walk!Hand, By
  <2>3. CASE mail[1].by # module
    <3>1. ~Moving(mail[1], module) /\ ~Tries(mail[1])  BY <2>1, <2>3 DEF Moving, Tries
    <3>2. mail' = Tail(mail) /\ UNCHANGED <<proc, flow, module, mods>>
      BY <1>0, <1>2, <1>9, <2>3 DEF Exit
    <3> QED  BY <1>0, <3>1, <3>2, OtherTaken
  <2> QED  BY <2>2, <2>3
<1>10. CASE ChannelStatus \/ Rebind
  <2>1. ~Moving(mail[1], module) /\ ~Tries(mail[1])
    BY <1>0, <1>10 DEF ChannelStatus, Rebind, Next_, Moving, Tries
  <2>2. mail' = Tail(mail) /\ UNCHANGED <<proc, flow, module, mods>>
    BY <1>2, <1>10 DEF ChannelStatus, Rebind
  <2> QED  BY <1>0, <2>1, <2>2, OtherTaken
<1>11. CASE SanityCheck
  <2>1. ~Moving(mail[1], module) /\ ~Tries(mail[1])
    BY <1>0, <1>11 DEF SanityCheck, Next_, Moving, Tries
  <2>2. CASE End("insane")
    <3>1. Walk!End("insane")  BY <2>2, WalkEnds
    <3> QED  BY <1>0, <3>1 DEF Walk!WalkNext, Walk!Leave
  <2>3. CASE ~End("insane")
    <3>1. mail' = Tail(mail) /\ UNCHANGED <<proc, flow, module, mods>>
      BY <1>2, <1>11, <2>3 DEF SanityCheck
    <3> QED  BY <1>0, <2>1, <3>1, OtherTaken
  <2> QED  BY <2>2, <2>3
<1>12. CASE CallIdUpdate
  <2>1. mail[1].t = "call_id_update" /\ mail[1].id \in CallIds
    BY <1>0, <1>12, Kinds DEF CallIdUpdate, Next_
  <2> DEFINE x == [t |-> "rebind", rm |-> call_id, add |-> mail[1].id]
  <2>2. x \in Messages /\ x.t = "rebind"  BY <2>1, MadeOf DEF Inv, TypeOK
  <2>3. Post(<<x>>) /\ UNCHANGED <<proc, flow, module, mods>>  BY <1>0, <1>12 DEF CallIdUpdate
  <2> HIDE DEF x
  <2>4. mail' = Append(Tail(mail), x)  BY <1>0, <2>2, <2>3, PostIs DEF Post
  <2>5. ~Moving(mail[1], module) /\ ~Tries(mail[1]) /\ ~Moving(x, module) /\ ~Tries(x)
    BY <2>1, <2>2 DEF Moving, Tries
  <2> QED  BY <1>0, <2>2, <2>3, <2>4, <2>5, OtherTaken
<1> QED  BY <1>3, <1>4, <1>5, <1>6, <1>7, <1>8, <1>9, <1>10, <1>11, <1>12 DEF Handle

(* What the module does is the hand's next; the rest of the world has none. *)
LEMMA ModulePresent ==
    ASSUME Inv, proc = "up", NEW p \in Pids, Alive(p)
    PROVE  /\ p = module /\ mods[p] \in {"run", "wait"}
           /\ mods[p] = "run" => Running(mail, mods, module) /\ Handed = By("module", Undefined)
           /\ mods[p] = "wait" => Waiting(mail, mods, module)
<1>1. InHand(mail, mods, module) /\ Says(mail, mods, module, Handed)  BY HandedSays
<1>2. p = module /\ (Running(mail, mods, module) \/ Waiting(mail, mods, module))
  BY <1>1 DEF InHand, Running, Waiting, Decided, Only, Alive
<1> QED  BY <1>1, <1>2, PidAssumption DEF Running, Waiting, Only, Says

LEMMA ModuleWalks ==
    ASSUME Inv, Inv', ModuleStep
    PROVE  (Walk!WalkNext) \/ UNCHANGED <<proc, flow, Handed>>
<1>0. mail \in Seq(Messages) /\ mods \in [Pids -> {"none", "run", "wait"}]  BY DEF Inv, TypeOK
<1>1. ASSUME NEW p \in Pids, Decide(p)  PROVE Walk!WalkNext
  <2>1. proc = "up" /\ mods[p] = "run" /\ mods' = [mods EXCEPT ![p] = "none"]
        /\ UNCHANGED <<proc, flow, module>>
    BY <1>1 DEF Decide, Arrives
  <2>2. p = module /\ Running(mail, mods, module) /\ Handed = By("module", Undefined)
    BY <2>1, ModulePresent DEF Alive
  <2>3. PICK d \in Decision(p) : Arrives(d)  BY <1>1 DEF Decide
  <2>4. d \in Messages /\ ~Tries(d)
    <3>1. d \in Messages  BY <2>3, MadeOf DEF Decision
    <3>2. ~Tries(d)  BY <2>3 DEF Decision, ContinueBy, BranchBy, StopBy, TransferBy, Tries
    <3> QED  BY <3>1, <3>2
  <2>5. mail' = Append(mail, d)  BY <2>3 DEF Arrives
  <2>6. mods'[module] = "none"  BY <1>0, <2>1, <2>2
  <2>7. Says(mail', mods', module, Meant(d))
    BY <1>0, <2>2, <2>4, <2>5, <2>6, SaysMoved DEF Running
  <2>8. Handed' = Meant(d)  BY <2>1, <2>7, HandPasses
  <2>9. Meant(d) \in Walk!Decisions
    <3>1. CASE \E key \in Keys : d = ContinueBy(p, key)
      BY <3>1 DEF ContinueBy, Meant, By, Walk!Decisions, Walk!Hand
    <3>2. CASE \E f \in Branches : d = BranchBy(p, f)
      BY <3>2 DEF BranchBy, Meant, By, Walk!Decisions, Walk!Hand
    <3>3. CASE d = StopBy(p) \/ d = TransferBy(p)
      BY <3>3 DEF StopBy, TransferBy, Meant, By, Walk!Decisions, Walk!Hand
    <3> QED  BY <2>3, <3>1, <3>2, <3>3 DEF Decision
  <2> QED  BY <2>1, <2>2, <2>8, <2>9 DEF Walk!WalkNext, Walk!Decide, Walk!Module, Walk!Hand, By
<1>2. ASSUME NEW p \in Pids, AskAttempt(p)  PROVE Walk!WalkNext
  <2>1. proc = "up" /\ mods[p] = "run" /\ mods' = [mods EXCEPT ![p] = "wait"]
        /\ UNCHANGED <<proc, flow, module>>
    BY <1>2 DEF AskAttempt, Arrives
  <2>2. p = module /\ Running(mail, mods, module) /\ Handed = By("module", Undefined)
    BY <2>1, ModulePresent DEF Alive
  <2>3. PICK key \in Keys : Arrives(AttemptBy(p, key))  BY <1>2 DEF AskAttempt
  <2> DEFINE x == AttemptBy(p, key)
  <2>4. x \in Messages /\ x.key = key  BY MadeOf DEF AttemptBy
  <2>5. mail' = Append(mail, x)  BY <2>3 DEF Arrives
  <2> HIDE DEF x
  <2>6. mods'[module] = "wait" /\ module # None  BY <1>0, <2>1, <2>2, PidAssumption
  <2>7. Says(mail', mods', module, By("attempt", x.key))
    BY <1>0, <2>2, <2>4, <2>5, <2>6, SaysTried DEF Running
  <2>8. Handed' = By("attempt", key)  BY <2>1, <2>4, <2>7, HandPasses
  <2>9. Handed' \in Walk!Attempts  BY <2>8 DEF Walk!Attempts, Walk!Hand, By
  <2> QED  BY <2>1, <2>2, <2>9 DEF Walk!WalkNext, Walk!Decide, Walk!Module, Walk!Hand, By
<1>3. ASSUME NEW p \in Pids, Fail(p)  PROVE Walk!WalkNext
  <2>1. proc = "up" /\ Alive(p) /\ mods' = [mods EXCEPT ![p] = "none"]
        /\ UNCHANGED <<proc, flow, module>>
    BY <1>3 DEF Fail, Arrives
  <2>2. p = module /\ mods[p] \in {"run", "wait"}  BY <2>1, ModulePresent
  <2> DEFINE x == ExitOf(p)
  <2>3. x \in Messages /\ x.t = "exit" /\ ~Tries(x)  BY MadeOf DEF ExitOf, Tries
  <2>4. mail' = Append(mail, x)  BY <1>3 DEF Fail, Arrives
  <2> HIDE DEF x
  <2>5. mods'[module] = "none"  BY <1>0, <2>1, <2>2
  <2>6. CASE mods[p] = "run"
    <3>1. Running(mail, mods, module) /\ Handed = By("module", Undefined)
      BY <2>1, <2>6, ModulePresent
    <3>2. Says(mail', mods', module, Meant(x))
      BY <1>0, <2>3, <2>4, <2>5, <3>1, SaysMoved DEF Running
    <3>3. Handed' = By("failed", Undefined)  BY <2>1, <2>3, <3>2, HandPasses DEF Meant
    <3>4. Handed' \in Walk!Decisions  BY <3>3 DEF Walk!Decisions, Walk!Failed, Walk!Hand, By
    <3> QED  BY <2>1, <3>1, <3>4 DEF Walk!WalkNext, Walk!Decide, Walk!Module, Walk!Hand, By
  <2>7. CASE mods[p] = "wait"
    <3>1. Waiting(mail, mods, module) /\ Says(mail, mods, module, Handed)
      BY <2>1, <2>7, ModulePresent, HandedSays
    <3>2. /\ Handed.what = "attempt"
          /\ Says(mail', mods', module, By("given up", Handed.arg))
      BY <1>0, <2>2, <2>3, <2>4, <2>5, <3>1, SaysGivenUp
    <3>3. Handed' = By("given up", Handed.arg)  BY <2>1, <3>2, HandPasses
    <3>4. Walk!Pass(Walk!Hand("given up", Handed.arg))
      BY <2>1, <3>3 DEF Walk!Pass, Walk!Hand, By
    <3> QED  BY <2>1, <3>2, <3>4 DEF Walk!WalkNext, Walk!GiveUp
  <2> QED  BY <2>2, <2>6, <2>7
<1>4. ASSUME NEW p \in Pids, AskStatus(p)  PROVE UNCHANGED <<proc, flow, Handed>>
  <2>1. UNCHANGED <<proc, flow, module, mail, mods>>  BY <1>4 DEF AskStatus
  <2> QED  BY <2>1, HandedIs, NextHandedIs DEF HandRead
<1> QED  BY <1>1, <1>2, <1>3, <1>4 DEF ModuleStep

LEMMA WorldWalks ==
    ASSUME Inv, Inv', \/ SanityTimer \/ StatusResp \/ UpdateArrives
                      \/ ControlTransfer \/ HangUp \/ Transferred \/ UNCHANGED vars
    PROVE  UNCHANGED <<proc, flow, Handed>>
<1>1. ASSUME NEW x \in Messages, Arrives(x), UNCHANGED <<proc, flow, module, mods>>,
             x.t \notin {"timeout", "continue", "branch", "stop", "exit", "attempt"},
             x.t = "transfer" => x = Msg("transfer")
      PROVE  UNCHANGED <<proc, flow, Handed>>
  <2>1. ~Moving(x, module) /\ ~Tries(x)  BY <1>1 DEF Moving, Tries
  <2> QED  BY <1>1, <2>1, OtherCome
<1>2. CASE SanityTimer \/ StatusResp \/ ControlTransfer
  <2>1. PICK t \in {"call_sanity_check", "channel_status_resp", "transfer"} :
            Arrives(Msg(t)) /\ UNCHANGED <<proc, flow, module, mods>>
    BY <1>2 DEF SanityTimer, StatusResp, ControlTransfer, Delivered
  <2>2. Msg(t) \in Messages /\ Msg(t).t = t  BY MadeOf DEF Msg
  <2> QED  BY <1>1, <2>1, <2>2
<1>3. CASE UpdateArrives
  <2>1. PICK id \in updates : Arrives(UpdateTo(id)) /\ UNCHANGED <<proc, flow, module, mods>>
    BY <1>3 DEF UpdateArrives, Delivered
  <2>2. UpdateTo(id) \in Messages /\ UpdateTo(id).t = "call_id_update"
    BY <2>1, MadeOf DEF UpdateTo, Inv, TypeOK
  <2> QED  BY <1>1, <2>1, <2>2
<1>4. CASE HangUp \/ Transferred \/ UNCHANGED vars
  <2>1. UNCHANGED <<proc, flow, module, mail, mods>>  BY <1>4 DEF HangUp, Transferred, vars
  <2> QED  BY <2>1, HandedIs, NextHandedIs DEF HandRead
<1> QED  BY <1>2, <1>3, <1>4

(* The executor walks the flow as its author is promised, whatever comes   *)
(* between: every step of it is one of the abstract walk, or none          *)
(* (cf_exe.erl:208-301).                                                   *)
THEOREM FlowIsAWalk == Spec => ImplementsWalk
<1>1. Init => Walk!WalkInit
  <2> SUFFICES ASSUME Init PROVE Walk!WalkInit  OBVIOUS
  <2>1. proc = "up" /\ flow = Root /\ module = None /\ mail = <<Msg("timeout")>>  BY DEF Init
  <2>2. Len(mail) = 1 /\ mail[1] = Msg("timeout") /\ mail[1].t = "timeout"  BY <2>1 DEF Msg
  <2>3. Meant(mail[1]) = By("start", Undefined)  BY <2>2 DEF Meant
  <2>4. NoTry(mail)  BY <2>2 DEF NoTry, Tries
  <2>5. Says(mail, mods, module, By("start", Undefined))
    <3>1. \A i \in 1 .. Len(mail) : mail[i] = mail[1] /\ ~Tries(mail[i])  BY <2>2 DEF Tries
    <3> QED  BY <2>1, <2>3, <3>1 DEF Says
  <2>6. InHand(mail, mods, module)  BY <2>1, InitHand DEF Inv, Hand
  <2>7. Handed = By("start", Undefined)  BY <2>1, <2>5, <2>6, SaidIsHanded, HandedIs DEF HandRead
  <2> QED  BY <2>1, <2>7 DEF Walk!WalkInit, Walk!Start, Walk!Hand, By
<1>2. Inv /\ Inv' /\ [Next]_vars => [Walk!WalkNext]_(Walk!walkVars)
  BY HandleWalks, ModuleWalks, WorldWalks DEF Next, Walk!walkVars
<1> QED  BY <1>1, <1>2, InvHolds, PTL DEF Spec, ImplementsWalk, Walk!WalkSpec

-----------------------------------------------------------------------------
(* The next check of the call.                                             *)

Check == Msg("call_sanity_check")
Holds(s) == \E i \in 1 .. Len(s) : s[i] = Check

LEMMA HoldsTail ==
    ASSUME NEW S, NEW s \in Seq(S), s # <<>>, Holds(s), s[1] # Check
    PROVE  Holds(Tail(s))
<1>1. Len(s) \in Nat /\ Len(Tail(s)) = Len(s) - 1
      /\ \A i \in 1 .. Len(Tail(s)) : Tail(s)[i] = s[i + 1]
  BY TailIs
<1>2. PICK i \in 1 .. Len(s) : s[i] = Check  BY DEF Holds
<1>3. i # 1  BY <1>2
<1>4. i - 1 \in 1 .. Len(Tail(s)) /\ (i - 1) + 1 = i  BY <1>1, <1>3
<1>5. Tail(s)[i - 1] = Check  BY <1>1, <1>2, <1>4
<1> QED  BY <1>4, <1>5 DEF Holds

LEMMA HoldsAppend ==
    ASSUME NEW S, NEW s \in Seq(S), NEW x \in S
    PROVE  Holds(s) \/ x = Check => Holds(Append(s, x))
<1> DEFINE u == Append(s, x)
<1>1. Len(s) \in Nat /\ Len(u) = Len(s) + 1 /\ (\A i \in 1 .. Len(s) : u[i] = s[i]) /\ u[Len(s) + 1] = x
  BY AppendIs
<1> HIDE DEF u
<1>2. Len(s) + 1 \in 1 .. Len(u) /\ \A i \in 1 .. Len(s) : i \in 1 .. Len(u)  BY <1>1
<1>3. Holds(s) => Holds(u)  BY <1>1, <1>2 DEF Holds
<1>4. x = Check => Holds(u)  BY <1>1, <1>2 DEF Holds
<1> QED  BY <1>3, <1>4 DEF u

(* A step that does not touch the timer leaves the check where it is, when *)
(* it adds to the mailbox or takes another message.                        *)
LEMMA CheckKept ==
    ASSUME CheckIsComing, proc' = "up" => proc = "up", timer' = timer, Holds(mail) => Holds(mail')
    PROVE  CheckIsComing'
BY DEF CheckIsComing, Holds, Check, Msg

LEMMA CheckHandled ==
    ASSUME TypeOK, CheckIsComing, Handle
    PROVE  CheckIsComing'
<1>0. mail \in Seq(Messages) /\ mail # <<>> /\ Head(mail) = mail[1] /\ Tail(mail) \in Seq(Messages)
  BY TailIs DEF TypeOK, Handle, Next_, Start, Continue, Branch, Stop, Transfer, Attempt, Exit,
                ChannelStatus, SanityCheck, CallIdUpdate, Rebind
<1>1. ASSUME NEW reason, reason # "up", End(reason)  PROVE CheckIsComing'
  BY <1>1 DEF End, CheckIsComing
<1>2. ASSUME timer' = timer, proc' = proc, Head(mail).t # "call_sanity_check",
             Post(<<>>) \/ \E x \in Messages : Post(<<x>>)
      PROVE  CheckIsComing'
  <2>1. mail[1] # Check  BY <1>0, <1>2 DEF Check, Msg
  <2>2. Holds(mail) => Holds(Tail(mail))  BY <1>0, <2>1, HoldsTail
  <2>3. mail' = Tail(mail) \/ \E x \in Messages : mail' = Append(Tail(mail), x)
    <3>1. mail' = Tail(mail) \o <<>> \/ \E x \in Messages : mail' = Tail(mail) \o <<x>>
      BY <1>2 DEF Post
    <3>2. \A x \in Messages : Tail(mail) \o <<>> = Tail(mail) /\ Tail(mail) \o <<x>> = Append(Tail(mail), x)
      BY <1>0, PostIs
    <3>3. Tail(mail) \o <<>> = Tail(mail)  BY <1>0
    <3> QED  BY <3>1, <3>2, <3>3
  <2>4. Holds(mail) => Holds(mail')  BY <1>0, <2>2, <2>3, HoldsAppend
  <2> QED  BY <1>2, <2>4, CheckKept
<1>3. ASSUME NEW f, NEW others, Launch(f, others), Head(mail).t # "call_sanity_check"
      PROVE  CheckIsComing'
  <2>1. End("badarg") \/ (Post(<<>>) /\ timer' = timer /\ proc' = proc)
    BY <1>3 DEF Launch, timers
  <2> QED  BY <1>1, <1>2, <1>3, <2>1
<1>4. CASE Start  BY <1>3, <1>4 DEF Start, Next_
<1>5. CASE Continue
  <2>1. Head(mail).t = "continue" /\ Head(mail) \in Messages
    BY <1>0, <1>5, TailIs DEF Continue, Next_
  <2>2. \/ End("normal") \/ Launch(Child[flow][Head(mail).key], mods)
        \/ Post(<<ContinueBy(module, Wild)>>) /\ timer' = timer /\ proc' = proc
    BY <1>5 DEF Continue, timers
  <2>3. CASE Post(<<ContinueBy(module, Wild)>>) /\ timer' = timer /\ proc' = proc
    <3>1. Holds(mail) => Holds(Tail(mail))
      BY <1>0, <2>1, HoldsTail DEF Check, Msg
    <3>2. mail' = Append(Tail(mail), ContinueBy(module, Wild))
      <4>1. Tail(mail) \in Seq(Messages \cup {ContinueBy(module, Wild)})  BY <1>0
      <4> QED  BY <2>3, <4>1, PostIs DEF Post
    <3>3. Holds(Tail(mail)) => Holds(mail')
      <4>1. Tail(mail) \in Seq(Messages \cup {ContinueBy(module, Wild)})  BY <1>0
      <4> QED  BY <3>2, <4>1, HoldsAppend
    <3> QED  BY <2>3, <3>1, <3>3, CheckKept
  <2> QED  BY <1>1, <1>3, <2>1, <2>2, <2>3
<1>6. CASE Branch  BY <1>3, <1>6 DEF Branch, Next_
<1>7. CASE Stop \/ Transfer  BY <1>1, <1>7 DEF Stop, Transfer
<1>8. CASE Attempt
  <2>1. Head(mail).t = "attempt"  BY <1>8 DEF Attempt, Next_
  <2>2. \/ \E f, others : Launch(f, others)
        \/ Post(<<>>) /\ timer' = timer /\ proc' = proc
    BY <1>8 DEF Attempt, timers
  <2> QED  BY <1>2, <1>3, <2>1, <2>2
<1>9. CASE Exit
  <2>1. Head(mail).t = "exit"  BY <1>9 DEF Exit, Next_
  <2> DEFINE c == ContinueBy(module, Wild)
  <2>2. (mail' = Tail(mail) \o <<>> \/ mail' = Tail(mail) \o <<c>>) /\ timer' = timer /\ proc' = proc
    BY <1>9 DEF Exit, Post, timers
  <2>3. Tail(mail) \in Seq(Messages \cup {c})  BY <1>0
  <2> HIDE DEF c
  <2>4. mail' = Tail(mail) \/ mail' = Append(Tail(mail), c)  BY <2>2, <2>3, PostIs
  <2>5. Holds(mail) => Holds(Tail(mail))  BY <1>0, <2>1, HoldsTail DEF Check, Msg
  <2>6. Holds(Tail(mail)) => Holds(mail')  BY <2>3, <2>4, HoldsAppend
  <2> QED  BY <2>2, <2>5, <2>6, CheckKept
<1>10. CASE ChannelStatus  BY <1>10 DEF ChannelStatus, CheckIsComing
<1>11. CASE SanityCheck
  <2>1. End("insane") \/ timer' = "running"  BY <1>11 DEF SanityCheck
  <2>2. CASE timer' = "running"  BY <2>2 DEF CheckIsComing
  <2> QED  BY <1>1, <2>1, <2>2
<1>12. CASE CallIdUpdate
  <2>1. Head(mail).t = "call_id_update" /\ Head(mail) \in Messages
    BY <1>0, <1>12, TailIs DEF CallIdUpdate, Next_
  <2>2. [t |-> "rebind", rm |-> call_id, add |-> Head(mail).id] \in Messages
    BY <2>1, Kinds, MadeOf DEF TypeOK
  <2> QED  BY <1>2, <1>12, <2>1, <2>2 DEF CallIdUpdate, timers
<1>13. CASE Rebind  BY <1>2, <1>13 DEF Rebind, Next_, timers
<1> QED  BY <1>4, <1>5, <1>6, <1>7, <1>8, <1>9, <1>10, <1>11, <1>12, <1>13 DEF Handle

LEMMA CheckStep == TypeOK /\ CheckIsComing /\ [Next]_vars => CheckIsComing'
<1> SUFFICES ASSUME TypeOK, CheckIsComing, [Next]_vars  PROVE CheckIsComing'  OBVIOUS
<1>0. mail \in Seq(Messages)  BY DEF TypeOK
<1>1. ASSUME NEW x, Arrives(x), timer' = timer, proc' = proc  PROVE CheckIsComing'
  <2>1. mail \in Seq(Messages \cup {x}) /\ mail' = Append(mail, x)  BY <1>0, <1>1 DEF Arrives
  <2>2. Holds(mail) => Holds(mail')  BY <2>1, HoldsAppend
  <2> QED  BY <1>1, <2>2, CheckKept
<1>2. ASSUME UNCHANGED <<mail, timer, proc>>  PROVE CheckIsComing'
  BY <1>2 DEF CheckIsComing
<1>3. CASE Handle  BY <1>3, CheckHandled
<1>4. ASSUME NEW p \in Pids, Decide(p) \/ AskAttempt(p) \/ Fail(p) \/ AskStatus(p)
      PROVE  CheckIsComing'
  <2>1. CASE Decide(p)  BY <1>1, <2>1 DEF Decide, timers
  <2>2. CASE AskAttempt(p)  BY <1>1, <2>2 DEF AskAttempt, timers
  <2>3. CASE Fail(p)  BY <1>1, <2>3 DEF Fail, timers
  <2>4. CASE AskStatus(p)  BY <1>2, <2>4 DEF AskStatus, timers
  <2> QED  BY <1>4, <2>1, <2>2, <2>3, <2>4
<1>5. CASE SanityTimer
  <2>1. mail' = Append(mail, Check) /\ Check \in Messages
    BY <1>5, MadeOf DEF SanityTimer, Arrives, Check
  <2>2. Holds(mail')  BY <1>0, <2>1, HoldsAppend
  <2> QED  BY <2>2 DEF Holds, Check, CheckIsComing, Msg
<1>6. CASE StatusResp  BY <1>1, <1>6 DEF StatusResp, Delivered, timers
<1>7. CASE UpdateArrives  BY <1>1, <1>7 DEF UpdateArrives, Delivered, timers
<1>8. CASE ControlTransfer  BY <1>1, <1>8 DEF ControlTransfer, Delivered, timers
<1>9. CASE HangUp \/ Transferred  BY <1>2, <1>9 DEF HangUp, Transferred, timers
<1>10. CASE UNCHANGED vars  BY <1>2, <1>10 DEF vars, timers
<1> QED  BY <1>3, <1>4, <1>5, <1>6, <1>7, <1>8, <1>9, <1>10 DEF Next, ModuleStep

(* While the executor is up, the next check of its call is coming, although *)
(* each answer sets the timer anew and cannot take back a check that has   *)
(* fired: what GoneCallEnds rests on (cf_exe.erl:259-263, 302-318).        *)
THEOREM ChecksGoOn == Spec => []CheckIsComing
<1>1. Init => CheckIsComing  BY DEF Init, CheckIsComing
<1>2. TypeOK /\ CheckIsComing /\ [Next]_vars => CheckIsComing'  BY CheckStep
<1> QED  BY <1>1, <1>2, TypesHold, PTL DEF Spec
=============================================================================
