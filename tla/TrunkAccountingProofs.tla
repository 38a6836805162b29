----------------------- MODULE TrunkAccountingProofs -----------------------
(***************************************************************************)
(* What TrunkAccounting keeps for every account: its types, that every     *)
(* trunk counted as in use will be given back, that the two-way trunks add *)
(* up, that no authorization takes more than the limit, and that a call is *)
(* charged once.                                                           *)
(*                                                                         *)
(* The entries of trunks_in_use carry the argument: each is the watched    *)
(* monitor of its own call and is alive or has its 'DOWN' in the mailbox.  *)
(* So two entries never share a monitor, and a 'DOWN' that gives a trunk   *)
(* back takes exactly one entry away.                                      *)
(***************************************************************************)
EXTENDS TrunkAccounting, FiniteSetTheorems, TLAPS

Monitors == [call : Calls, type : CallTypes, won : BOOLEAN, watched : BOOLEAN,
             state : {"none", "run", "check", "dead"}]

(* The entries: watched monitors of their own call that can still be heard of. *)
EntriesOK ==
    /\ mon \in [Pids -> Monitors]
    /\ trunks_in_use \in [Calls -> Pids \cup {None}]
    /\ \A c \in Calls : trunks_in_use[c] # None =>
          /\ mon[trunks_in_use[c]].call = c
          /\ mon[trunks_in_use[c]].watched
          /\ mon[trunks_in_use[c]].state # "none"

MoneyOK == ledger \subseteq {"start", "end"} /\ charged \in Int

(* The two-way trunks: none is made, and none is lost but to a second      *)
(* authorization of a call that holds one.                                 *)
Within ==
    up /\ ~clamped =>
        /\ two_way + Cardinality(Held("twoway")) <= base.two_way
        /\ ~lost => two_way + Cardinality(Held("twoway")) = base.two_way

-----------------------------------------------------------------------------
(* The parts of the type invariant the lemmas work with. *)

LEMMA EntriesTyped ==
    ASSUME TypeOK, EntriesAnswered
    PROVE  EntriesOK
BY DEF TypeOK, EntriesAnswered, EntriesOK, Monitors

LEMMA NoMonitorTyped == NoMonitor \in Monitors
BY BilledCall DEF NoMonitor, Monitors, CallTypes

(* No two calls share a monitor, and no entry is of a free pid. *)
LEMMA EntriesApart ==
    ASSUME EntriesOK
    PROVE  /\ \A c, d \in Calls : trunks_in_use[c] = trunks_in_use[d] /\ trunks_in_use[c] # None
                                    => c = d
           /\ \A c \in Calls, p \in Pids : trunks_in_use[c] = p
                                    => mon[p].state # "none" /\ mon[p].call = c /\ mon[p].watched
BY NoneIsNoPid DEF EntriesOK

LEMMA HeldFinite ==
    ASSUME NEW type
    PROVE  /\ IsFiniteSet(Held(type)) /\ Cardinality(Held(type)) \in Nat
           /\ IsFiniteSet(InUse(type)) /\ Cardinality(InUse(type)) \in Nat
           /\ Cardinality(InUse(type)) <= Cardinality(Held(type))
<1>1. Held(type) \subseteq Calls BY DEF Held
<1>2. InUse(type) \subseteq Held(type) BY DEF InUse
<1>3. IsFiniteSet(Held(type)) BY <1>1, CallsAreFinite, FS_Subset
<1>4. IsFiniteSet(InUse(type)) /\ Cardinality(InUse(type)) <= Cardinality(Held(type))
  BY <1>2, <1>3, FS_Subset
<1> QED BY <1>3, <1>4, FS_CardinalityType

(* The same for the next state's sets. *)
LEMMA HeldFiniteNext ==
    ASSUME NEW type
    PROVE  /\ IsFiniteSet(Held(type)') /\ Cardinality(Held(type)') \in Nat
           /\ IsFiniteSet(InUse(type)') /\ Cardinality(InUse(type)') \in Nat
           /\ Cardinality(InUse(type)') <= Cardinality(Held(type)')
<1>1. Held(type)' \subseteq Calls BY DEF Held
<1>2. InUse(type)' \subseteq Held(type)' BY DEF InUse
<1>3. IsFiniteSet(Held(type)') BY <1>1, CallsAreFinite, FS_Subset
<1>4. IsFiniteSet(InUse(type)') /\ Cardinality(InUse(type)') <= Cardinality(Held(type)')
  BY <1>2, <1>3, FS_Subset
<1> QED BY <1>3, <1>4, FS_CardinalityType

LEMMA WriteKeeps ==
    ASSUME MoneyOK, NEW c, NEW event \in {"start", "end"}, NEW amount \in Int,
           Write(c, event, amount)
    PROVE  MoneyOK'
<1>1. CASE c # Billed \/ event \in ledger BY <1>1 DEF MoneyOK, Write, money
<1>2. CASE ~(c # Billed \/ event \in ledger)
  <2>1. ledger' = ledger \cup {event} /\ charged' = charged + amount BY <1>2 DEF Write
  <2> QED BY <2>1 DEF MoneyOK
<1> QED BY <1>1, <1>2

-----------------------------------------------------------------------------
(* What an authorization, a monitor's end and a 'DOWN' do to the entries.  *)

LEMMA MonitorKeeps ==
    ASSUME EntriesOK, NEW c \in Calls, NEW type \in CallTypes, Monitor(c, type)
    PROVE  /\ EntriesOK'
           /\ Held("twoway")' = IF type = "twoway" THEN Held("twoway") \cup {c}
                                ELSE Held("twoway") \ {c}
           /\ type # "twoway" => InUse("twoway")' \subseteq InUse("twoway")
<1> DEFINE m == [call |-> c, type |-> type, won |-> FALSE, watched |-> TRUE, state |-> "run"]
<1>1. PICK p \in Free : /\ mon' = [mon EXCEPT ![p] = m]
                        /\ trunks_in_use' = [trunks_in_use EXCEPT ![c] = p]
  BY DEF Monitor
<1>2. m \in Monitors BY DEF Monitors
<1>3. m.call = c /\ m.type = type /\ m.watched /\ m.state = "run" OBVIOUS
<1> HIDE DEF m
<1>4. p \in Pids /\ mon[p].state = "none" BY <1>1 DEF Free
<1>5. mon' \in [Pids -> Monitors] /\ mon'[p] = m
      /\ \A q \in Pids \ {p} : mon'[q] = mon[q]
  BY <1>1, <1>2, <1>4 DEF EntriesOK
<1>6. trunks_in_use' \in [Calls -> Pids \cup {None}] /\ trunks_in_use'[c] = p
      /\ \A d \in Calls \ {c} : trunks_in_use'[d] = trunks_in_use[d]
  BY <1>1, <1>4 DEF EntriesOK
<1>7. \A d \in Calls \ {c} : trunks_in_use[d] # None =>
          trunks_in_use[d] \in Pids \ {p} /\ mon'[trunks_in_use[d]] = mon[trunks_in_use[d]]
  BY <1>4, <1>5, EntriesApart DEF EntriesOK
<1>8. \A d \in Calls : trunks_in_use'[d] # None =>
          /\ mon'[trunks_in_use'[d]].call = d
          /\ mon'[trunks_in_use'[d]].watched
          /\ mon'[trunks_in_use'[d]].state # "none"
  <2> SUFFICES ASSUME NEW d \in Calls, trunks_in_use'[d] # None
               PROVE  /\ mon'[trunks_in_use'[d]].call = d
                      /\ mon'[trunks_in_use'[d]].watched
                      /\ mon'[trunks_in_use'[d]].state # "none"
    OBVIOUS
  <2>1. CASE d = c BY <2>1, <1>3, <1>5, <1>6
  <2>2. CASE d # c BY <2>2, <1>6, <1>7 DEF EntriesOK
  <2> QED BY <2>1, <2>2
<1>9. EntriesOK' BY <1>5, <1>6, <1>8 DEF EntriesOK
<1>10. p # None BY <1>4, NoneIsNoPid
<1>11. \A d \in Calls \ {c} : /\ d \in Held("twoway")' <=> d \in Held("twoway")
                              /\ d \in InUse("twoway")' <=> d \in InUse("twoway")
  BY <1>6, <1>7 DEF Held, InUse, Alive
<1>12. c \in Held("twoway")' <=> type = "twoway"
  BY <1>3, <1>5, <1>6, <1>10 DEF Held
<1>13. Held("twoway") \subseteq Calls /\ Held("twoway")' \subseteq Calls
       /\ InUse("twoway")' \subseteq Held("twoway")'
  BY DEF Held, InUse
<1> QED BY <1>9, <1>11, <1>12, <1>13

LEMMA EndsKeeps ==
    ASSUME EntriesOK, NEW p \in Pids, Ends(p), UNCHANGED trunks
    PROVE  /\ EntriesOK'
           /\ Held("twoway")' = Held("twoway")
           /\ InUse("twoway")' \subseteq InUse("twoway")
<1> DEFINE m == IF mon[p].watched THEN [mon[p] EXCEPT !.state = "dead", !.won = FALSE]
                ELSE NoMonitor
<1>1. mon' = [mon EXCEPT ![p] = m] BY DEF Ends
<1>2. mon[p] \in Monitors BY DEF EntriesOK
<1>3. m \in Monitors BY <1>2, NoMonitorTyped DEF Monitors
<1>4. mon[p].watched => /\ m.call = mon[p].call /\ m.type = mon[p].type
                        /\ m.watched /\ m.state = "dead"
  BY <1>2 DEF Monitors
<1> HIDE DEF m
<1>5. mon' \in [Pids -> Monitors] /\ mon'[p] = m
      /\ \A q \in Pids \ {p} : mon'[q] = mon[q]
  BY <1>1, <1>3 DEF EntriesOK
<1>6. trunks_in_use' = trunks_in_use BY DEF trunks
<1>7. \A d \in Calls : trunks_in_use[d] # None =>
          /\ trunks_in_use[d] \in Pids
          /\ mon'[trunks_in_use[d]].call = d /\ mon'[trunks_in_use[d]].watched
          /\ mon'[trunks_in_use[d]].type = mon[trunks_in_use[d]].type
          /\ mon'[trunks_in_use[d]].state # "none"
          /\ mon'[trunks_in_use[d]].state \in {"run", "check"}
               => mon[trunks_in_use[d]].state \in {"run", "check"}
  <2> SUFFICES ASSUME NEW d \in Calls, trunks_in_use[d] # None
               PROVE  /\ trunks_in_use[d] \in Pids
                      /\ mon'[trunks_in_use[d]].call = d /\ mon'[trunks_in_use[d]].watched
                      /\ mon'[trunks_in_use[d]].type = mon[trunks_in_use[d]].type
                      /\ mon'[trunks_in_use[d]].state # "none"
                      /\ mon'[trunks_in_use[d]].state \in {"run", "check"}
                           => mon[trunks_in_use[d]].state \in {"run", "check"}
    OBVIOUS
  <2>1. trunks_in_use[d] \in Pids BY DEF EntriesOK
  <2>2. CASE trunks_in_use[d] = p BY <2>2, <1>4, <1>5 DEF EntriesOK
  <2>3. CASE trunks_in_use[d] # p BY <2>1, <2>3, <1>5 DEF EntriesOK
  <2> QED BY <2>1, <2>2, <2>3
<1>8. EntriesOK' BY <1>5, <1>6, <1>7 DEF EntriesOK
<1>9. Held("twoway")' = Held("twoway") BY <1>6, <1>7 DEF Held
<1>10. InUse("twoway")' \subseteq InUse("twoway")
  BY <1>6, <1>7, <1>9 DEF InUse, Alive, Held
<1> QED BY <1>8, <1>9, <1>10

(* A step that changes neither monitors nor entries. *)
LEMMA EntriesSame ==
    ASSUME EntriesOK, mon' = mon, trunks_in_use' = trunks_in_use
    PROVE  /\ EntriesOK'
           /\ Held("twoway")' = Held("twoway")
           /\ InUse("twoway")' = InUse("twoway")
BY DEF EntriesOK, Held, InUse, Alive

(* A change of a monitor that leaves its call, its kind and its watch. *)
LEMMA ChangeKeeps ==
    ASSUME EntriesOK, NEW p \in Pids, NEW m \in Monitors,
           mon' = [mon EXCEPT ![p] = m], trunks_in_use' = trunks_in_use,
           m.call = mon[p].call, m.type = mon[p].type, m.watched = mon[p].watched,
           m.state \in {"run", "check"}, mon[p].state = "run"
    PROVE  /\ EntriesOK'
           /\ Held("twoway")' = Held("twoway")
           /\ InUse("twoway")' = InUse("twoway")
<1>1. mon' \in [Pids -> Monitors] /\ mon'[p] = m
      /\ \A q \in Pids \ {p} : mon'[q] = mon[q]
  BY DEF EntriesOK
<1>2. \A d \in Calls : trunks_in_use[d] # None => trunks_in_use[d] \in Pids
  BY DEF EntriesOK
<1>3. EntriesOK' BY <1>1, <1>2 DEF EntriesOK
<1>4. Held("twoway")' = Held("twoway") BY <1>1, <1>2 DEF Held
<1>5. InUse("twoway")' = InUse("twoway") BY <1>1, <1>2, <1>4 DEF InUse, Alive, Held
<1> QED BY <1>3, <1>4, <1>5

LEMMA DiesKeeps ==
    ASSUME EntriesOK, Dies
    PROVE  EntriesOK' /\ InUse("twoway")' = {}
<1>1. \A p \in Pids : mon'[p] \in Monitors
  <2> SUFFICES ASSUME NEW p \in Pids PROVE mon'[p] \in Monitors OBVIOUS
  <2>1. mon[p] \in Monitors BY DEF EntriesOK
  <2>2. [mon[p] EXCEPT !.watched = FALSE] \in Monitors BY <2>1 DEF Monitors
  <2> QED BY <2>2, NoMonitorTyped DEF Dies
<1>2. mon' \in [Pids -> Monitors] BY <1>1 DEF Dies
<1>3. \A c \in Calls : trunks_in_use'[c] = None BY DEF Dies
<1>4. trunks_in_use' \in [Calls -> Pids \cup {None}] BY DEF Dies
<1> QED BY <1>2, <1>3, <1>4 DEF EntriesOK, InUse, Held

LEMMA DownKeeps ==
    ASSUME EntriesOK, NEW p \in Pids, Down(p)
    PROVE  /\ EntriesOK'
           /\ InUse("twoway")' \subseteq InUse("twoway")
           /\ IF Known(p) /\ mon[p].type = "twoway"
              THEN \E c \in Held("twoway") : Held("twoway")' = Held("twoway") \ {c}
              ELSE Held("twoway")' = Held("twoway")
<1>1. mon' = [mon EXCEPT ![p] = NoMonitor] BY DEF Down
<1>2. mon' \in [Pids -> Monitors] /\ \A q \in Pids \ {p} : mon'[q] = mon[q]
  BY <1>1, NoMonitorTyped DEF EntriesOK
<1>3. \A c \in Calls : trunks_in_use'[c] = IF trunks_in_use[c] = p THEN None ELSE trunks_in_use[c]
  BY DEF Down
<1>4. trunks_in_use' \in [Calls -> Pids \cup {None}] BY DEF Down, EntriesOK
<1>5. \A c \in Calls : trunks_in_use'[c] # None =>
          /\ trunks_in_use'[c] = trunks_in_use[c] /\ trunks_in_use[c] \in Pids \ {p}
          /\ mon'[trunks_in_use[c]] = mon[trunks_in_use[c]]
  BY <1>2, <1>3 DEF EntriesOK
<1>6. EntriesOK' BY <1>2, <1>4, <1>5 DEF EntriesOK
<1>7. Held("twoway")' = {c \in Held("twoway") : trunks_in_use[c] # p}
  BY <1>3, <1>5 DEF Held
<1>8. InUse("twoway")' \subseteq InUse("twoway")
  BY <1>5, <1>7 DEF InUse, Held, Alive
<1>9. CASE Known(p) /\ mon[p].type = "twoway"
  <2>1. PICK c \in Calls : trunks_in_use[c] = p BY <1>9 DEF Known
  <2>2. c \in Held("twoway") BY <2>1, <1>9, NoneIsNoPid DEF Held
  <2>3. \A d \in Calls : trunks_in_use[d] = p => d = c BY <2>1, EntriesApart, NoneIsNoPid
  <2>4. Held("twoway")' = Held("twoway") \ {c} BY <1>7, <2>1, <2>3 DEF Held
  <2> QED BY <1>6, <1>8, <1>9, <2>2, <2>4
<1>10. CASE ~(Known(p) /\ mon[p].type = "twoway")
  <2>1. \A c \in Held("twoway") : trunks_in_use[c] # p BY <1>10 DEF Known, Held
  <2> QED BY <1>6, <1>7, <1>8, <1>10, <2>1
<1> QED BY <1>9, <1>10

LEMMA ConfChangeKeeps ==
    ASSUME EntriesOK, NEW d \in Limits, ConfChange(d)
    PROVE  /\ EntriesOK'
           /\ Held("twoway")' = InUse("twoway")
           /\ InUse("twoway")' = InUse("twoway")
<1>1. mon' = mon BY DEF ConfChange
<1>2. \A c \in Calls : trunks_in_use'[c] =
          IF trunks_in_use[c] # None /\ Alive(trunks_in_use[c]) THEN trunks_in_use[c] ELSE None
  BY DEF ConfChange
<1>3. trunks_in_use' \in [Calls -> Pids \cup {None}] BY DEF ConfChange, EntriesOK
<1>4. EntriesOK' BY <1>1, <1>2, <1>3 DEF EntriesOK
<1>5. Held("twoway")' = InUse("twoway") BY <1>1, <1>2 DEF Held, InUse
<1>6. InUse("twoway")' = InUse("twoway") BY <1>1, <1>2, <1>5 DEF Held, InUse, Alive
<1> QED BY <1>4, <1>5, <1>6

-----------------------------------------------------------------------------
(* The types.                                                              *)

(* The rest of the types, which no entry depends on. *)
RestOK ==
    /\ up \in BOOLEAN
    /\ base \in [two_way : Nat, inbound : Nat]
    /\ two_way \in Int /\ inbound \in Int
    /\ cdrs \subseteq Pids
    /\ doc \in Limits /\ confs \subseteq Limits
    /\ over \subseteq Calls /\ edits \in Nat
    /\ clamped \in BOOLEAN /\ lost \in BOOLEAN

LEMMA TypesApart ==
    (TypeOK /\ EntriesAnswered) <=> (RestOK /\ EntriesOK /\ MoneyOK)
BY DEF TypeOK, EntriesAnswered, RestOK, EntriesOK, MoneyOK, Monitors

LEMMA TypesInit == Init => RestOK /\ EntriesOK /\ MoneyOK
<1> SUFFICES ASSUME Init PROVE RestOK /\ EntriesOK /\ MoneyOK OBVIOUS
<1>1. base \in [two_way : Nat, inbound : Nat] /\ doc \in Limits
  BY LimitsAreCounts DEF Init
<1>4. base.two_way \in Nat /\ base.inbound \in Nat BY <1>1
<1>6. two_way \in Int /\ inbound \in Int BY <1>4 DEF Init
<1>7. /\ up \in BOOLEAN /\ cdrs \subseteq Pids /\ confs \subseteq Limits
      /\ over \subseteq Calls /\ edits \in Nat /\ clamped \in BOOLEAN /\ lost \in BOOLEAN
  BY DEF Init
<1>5. RestOK BY <1>1, <1>6, <1>7 DEF RestOK
<1>2. EntriesOK BY NoMonitorTyped DEF Init, EntriesOK
<1>3. MoneyOK BY DEF Init, MoneyOK
<1> QED BY <1>2, <1>3, <1>5

LEMMA EntriesNext ==
    ASSUME RestOK, EntriesOK, MoneyOK, [Next]_vars
    PROVE  EntriesOK'
<1> USE DEF trunks, world
<1>1. CASE Start
  <2>1. mon' = mon /\ trunks_in_use' = [c \in Calls |-> None] BY <1>1 DEF Start, Loaded
  <2> QED BY <2>1 DEF EntriesOK
<1>2. CASE Crash BY <1>2, DiesKeeps DEF Crash
<1>3. ASSUME NEW tried \in Orders, AuthzRefused(tried) \/ AuthzOnNoPrepay(tried) PROVE EntriesOK'
  <2>1. CASE AuthzRefused(tried) BY <2>1, EntriesSame DEF AuthzRefused
  <2>2. CASE AuthzOnNoPrepay(tried) BY <2>2, DiesKeeps DEF AuthzOnNoPrepay
  <2> QED BY <1>3, <2>1, <2>2
<1>4. ASSUME NEW c \in Calls, Authz(c) PROVE EntriesOK'
  <2>1. PICK type \in CallTypes : Monitor(c, type)
    BY <1>4 DEF Authz, AuthzInbound, AuthzTwoWay, AuthzPrepay, CallTypes
  <2> QED BY <2>1, MonitorKeeps
<1>5. ASSUME NEW c \in Calls, AuthzWin(c) PROVE EntriesOK'
  <2> DEFINE p == trunks_in_use[c]
             m == [mon[p] EXCEPT !.won = TRUE]
  <2>1. p \in Pids /\ mon[p].state = "run" /\ mon[p] \in Monitors BY <1>5 DEF AuthzWin, EntriesOK
  <2>2. mon' = [mon EXCEPT ![p] = m] /\ trunks_in_use' = trunks_in_use BY <1>5 DEF AuthzWin
  <2>3. m \in Monitors /\ m.call = mon[p].call /\ m.type = mon[p].type
        /\ m.watched = mon[p].watched /\ m.state = "run"
    BY <2>1 DEF Monitors
  <2> HIDE DEF m, p
  <2> QED BY <2>1, <2>2, <2>3, ChangeKeeps
<1>6. ASSUME NEW c \in Calls, Hangup(c) PROVE EntriesOK' BY <1>6, EntriesSame DEF Hangup
<1>7. ASSUME NEW p \in Pids, Down(p) PROVE EntriesOK' BY <1>7, DownKeeps
<1>8. ASSUME NEW p \in Pids, CdrWon(p) \/ CheckLedger(p) \/ MonitorCrash(p) PROVE EntriesOK'
  <2>1. Ends(p) /\ UNCHANGED trunks BY <1>8 DEF CdrWon, CheckLedger, MonitorCrash
  <2> QED BY <2>1, EndsKeeps
<1>9. ASSUME NEW p \in Pids, CdrNotWon(p) PROVE EntriesOK'
  <2> DEFINE m == [mon[p] EXCEPT !.state = "check"]
  <2>1. mon[p].state = "run" /\ mon[p] \in Monitors BY <1>9 DEF CdrNotWon, EntriesOK
  <2>2. mon' = [mon EXCEPT ![p] = m] /\ trunks_in_use' = trunks_in_use BY <1>9 DEF CdrNotWon
  <2>3. m \in Monitors /\ m.call = mon[p].call /\ m.type = mon[p].type
        /\ m.watched = mon[p].watched /\ m.state = "check"
    BY <2>1 DEF Monitors
  <2> HIDE DEF m
  <2> QED BY <2>1, <2>2, <2>3, ChangeKeeps
<1>10. ASSUME NEW d \in Limits, ConfChange(d) PROVE EntriesOK' BY <1>10, ConfChangeKeeps
<1>11. ASSUME NEW d \in Limits, Edit(d) PROVE EntriesOK' BY <1>11, EntriesSame DEF Edit
<1>12. CASE UNCHANGED vars BY <1>12, EntriesSame DEF vars
<1> QED BY <1>1, <1>2, <1>3, <1>4, <1>5, <1>6, <1>7, <1>8, <1>9, <1>10, <1>11, <1>12 DEF Next

LEMMA MoneyNext ==
    ASSUME RestOK, EntriesOK, MoneyOK, [Next]_vars
    PROVE  MoneyOK'
<1>1. Cost \in Int /\ Charge \in Int /\ Cost - Charge \in Int BY BilledCall DEF Charge
<1>2. ASSUME NEW c \in Calls, Authz(c) PROVE MoneyOK'
  <2>1. PICK type : Monitor(c, type) BY <1>2 DEF Authz, AuthzInbound, AuthzTwoWay, AuthzPrepay
  <2> DEFINE amount == IF type = "per_min" THEN Charge ELSE 0
  <2>2. Write(c, "start", amount) BY <2>1 DEF Monitor
  <2>3. amount \in Int BY <1>1
  <2> HIDE DEF amount
  <2> QED BY <2>2, <2>3, WriteKeeps
<1>3. ASSUME NEW p \in Pids, CdrWon(p) PROVE MoneyOK'
  <2> DEFINE amount == IF mon[p].type = "per_min" THEN Cost - Charge ELSE 0
  <2>1. Write(mon[p].call, "end", amount) BY <1>3 DEF CdrWon
  <2>2. amount \in Int BY <1>1
  <2> HIDE DEF amount
  <2> QED BY <2>1, <2>2, WriteKeeps
<1>4. ASSUME NEW p \in Pids, CheckLedger(p) PROVE MoneyOK'
  BY <1>4, WriteKeeps DEF CheckLedger
<1>5. ASSUME UNCHANGED money PROVE MoneyOK' BY <1>5 DEF money, MoneyOK
<1>6. CASE Start \/ Crash BY <1>5, <1>6 DEF Start, Crash, Dies
<1>7. ASSUME NEW tried \in Orders, AuthzRefused(tried) \/ AuthzOnNoPrepay(tried) PROVE MoneyOK'
  BY <1>5, <1>7 DEF AuthzRefused, AuthzOnNoPrepay, Dies
<1>8. ASSUME NEW c \in Calls, AuthzWin(c) \/ Hangup(c) PROVE MoneyOK'
  BY <1>5, <1>8 DEF AuthzWin, Hangup
<1>9. ASSUME NEW p \in Pids, Down(p) \/ CdrNotWon(p) \/ MonitorCrash(p) PROVE MoneyOK'
  BY <1>5, <1>9 DEF Down, CdrNotWon, MonitorCrash
<1>10. ASSUME NEW d \in Limits, ConfChange(d) \/ Edit(d) PROVE MoneyOK'
  BY <1>5, <1>10 DEF ConfChange, Edit
<1>11. CASE UNCHANGED vars BY <1>5, <1>11 DEF vars
<1> QED BY <1>2, <1>3, <1>4, <1>6, <1>7, <1>8, <1>9, <1>10, <1>11 DEF Next

LEMMA RestNext ==
    ASSUME RestOK, EntriesOK, MoneyOK, [Next]_vars
    PROVE  RestOK'
<1> USE DEF RestOK, trunks, world
<1>1. CASE Start
  <2>1. base' = doc /\ two_way' = doc.two_way /\ inbound' = doc.inbound
    BY <1>1 DEF Start, Loaded
  <2>2. doc \in [two_way : Nat, inbound : Nat] BY LimitsAreCounts
  <2>3. doc.two_way \in Nat /\ doc.inbound \in Nat BY <2>2
  <2>4. base' \in [two_way : Nat, inbound : Nat] /\ two_way' \in Int /\ inbound' \in Int
    BY <2>1, <2>2, <2>3
  <2> QED BY <1>1, <2>4 DEF Start, Loaded
<1>2. ASSUME Dies PROVE RestOK'
  <2>1. base' \in [two_way : Nat, inbound : Nat] BY <1>2 DEF Dies
  <2>2. up' = FALSE /\ two_way' = 0 /\ inbound' = 0
        /\ clamped' = FALSE /\ lost' = FALSE /\ confs' = {}
    BY <1>2, Zenon DEF Dies
  <2>3. cdrs' = cdrs /\ doc' = doc /\ edits' = edits /\ over' = over BY <1>2 DEF Dies
  <2>4. two_way' \in Int /\ inbound' \in Int BY <2>2
  <2>5. cdrs' \subseteq Pids /\ doc' \in Limits /\ over' \subseteq Calls /\ edits' \in Nat
    BY <2>3
  <2> QED BY <2>1, <2>2, <2>4, <2>5
<1>3. CASE Crash BY <1>2, <1>3 DEF Crash
<1>4. ASSUME NEW tried \in Orders, AuthzRefused(tried) PROVE RestOK'
  BY <1>4 DEF AuthzRefused, Try
<1>5. ASSUME NEW tried \in Orders, AuthzOnNoPrepay(tried) PROVE RestOK'
  BY <1>2, <1>5 DEF AuthzOnNoPrepay
<1>6. ASSUME NEW c \in Calls, Authz(c) PROVE RestOK'
  <2>1. PICK type : Monitor(c, type) BY <1>6 DEF Authz, AuthzInbound, AuthzTwoWay, AuthzPrepay
  <2>2. lost' \in BOOLEAN BY <2>1 DEF Monitor
  <2>3. CASE AuthzInbound(c) BY <2>2, <2>3 DEF AuthzInbound
  <2>4. ASSUME NEW tried, AuthzTwoWay(c, tried) PROVE RestOK' BY <2>2, <2>4 DEF AuthzTwoWay
  <2>5. ASSUME NEW tried, AuthzPrepay(c, tried) PROVE RestOK' BY <2>2, <2>5 DEF AuthzPrepay, Try
  <2> QED BY <1>6, <2>3, <2>4, <2>5 DEF Authz
<1>7. ASSUME NEW c \in Calls, AuthzWin(c) PROVE RestOK' BY <1>7 DEF AuthzWin
<1>8. ASSUME NEW c \in Calls, Hangup(c) PROVE RestOK' BY <1>8 DEF Hangup
<1>9. ASSUME NEW p \in Pids, Down(p) PROVE RestOK' BY <1>9 DEF Down, Returned
<1>10. ASSUME NEW p \in Pids, CdrWon(p) \/ CheckLedger(p) \/ MonitorCrash(p) PROVE RestOK'
  BY <1>10 DEF CdrWon, CheckLedger, MonitorCrash, Ends
<1>11. ASSUME NEW p \in Pids, CdrNotWon(p) PROVE RestOK' BY <1>11 DEF CdrNotWon
<1>12. ASSUME NEW d \in Limits, ConfChange(d) PROVE RestOK'
  <2>1. Cardinality(InUse("twoway")) \in Nat /\ Cardinality(InUse("inbound")) \in Nat
    BY HeldFinite
  <2>2. d \in [two_way : Nat, inbound : Nat] BY LimitsAreCounts
  <2>3. d.two_way \in Nat /\ d.inbound \in Nat BY <2>2
  <2>4. base' \in [two_way : Nat, inbound : Nat] /\ two_way' \in Int /\ inbound' \in Int
    BY <1>12, <2>1, <2>2, <2>3 DEF ConfChange, Recount
  <2> QED BY <1>12, <2>4 DEF ConfChange
<1>13. ASSUME NEW d \in Limits, Edit(d) PROVE RestOK' BY <1>13 DEF Edit
<1>14. CASE UNCHANGED vars BY <1>14 DEF vars
<1> QED BY <1>1, <1>3, <1>4, <1>5, <1>6, <1>7, <1>8, <1>9, <1>10, <1>11, <1>12, <1>13, <1>14 DEF Next

Parts == RestOK /\ EntriesOK /\ MoneyOK

LEMMA PartsHold == Spec => []Parts
<1>1. Init => Parts BY TypesInit DEF Parts
<1>2. Parts /\ [Next]_vars => Parts' BY EntriesNext, MoneyNext, RestNext DEF Parts
<1> QED BY <1>1, <1>2, PTL DEF Spec

(* The types hold, and every entry of trunks_in_use is a watched monitor   *)
(* of its own call, whatever the account, its calls and its limits.        *)
THEOREM TypesHold == Spec => []TypeOK
<1>1. Parts => TypeOK BY TypesApart DEF Parts
<1> QED BY <1>1, PartsHold, PTL

(* No trunk is held for ever by a monitor that is gone: the manager will   *)
(* get the 'DOWN' of every monitor it counts.                              *)
THEOREM AllAreAnswered == Spec => []EntriesAnswered
<1>1. Parts => EntriesAnswered BY TypesApart DEF Parts
<1> QED BY <1>1, PartsHold, PTL

-----------------------------------------------------------------------------
(* The two-way trunks.                                                     *)

LEMMA OneMoreOrLess ==
    ASSUME NEW S, IsFiniteSet(S), NEW c
    PROVE  /\ Cardinality(S) \in Nat
           /\ Cardinality(S \cup {c}) = IF c \in S THEN Cardinality(S) ELSE Cardinality(S) + 1
           /\ Cardinality(S \ {c}) = IF c \in S THEN Cardinality(S) - 1 ELSE Cardinality(S)
<1>1. Cardinality(S) \in Nat BY FS_CardinalityType
<1>2. Cardinality(S \cup {c}) = IF c \in S THEN Cardinality(S) ELSE Cardinality(S) + 1
  BY FS_AddElement
<1>3. Cardinality(S \ {c}) = IF c \in S THEN Cardinality(S) - 1 ELSE Cardinality(S)
  BY FS_RemoveElement
<1> QED BY <1>1, <1>2, <1>3

(* The sum of what is available and what is held, after an authorization. *)
LEMMA MonitorCounts ==
    ASSUME RestOK, EntriesOK, Within, up, ~clamped,
           NEW c \in Calls, NEW type \in CallTypes, Monitor(c, type)
    PROVE  LET n == Cardinality(Held("twoway")') IN
           /\ n \in Nat
           /\ (IF type = "twoway" THEN two_way - 1 ELSE two_way) + n <= base.two_way
           /\ ~lost' =>
                 (IF type = "twoway" THEN two_way - 1 ELSE two_way) + n = base.two_way
<1> DEFINE S == Held("twoway")
           n == Cardinality(S')
           k == Cardinality(S)
<1>1. IsFiniteSet(S) /\ n \in Nat BY HeldFinite, HeldFiniteNext
<1>2. S' = IF type = "twoway" THEN S \cup {c} ELSE S \ {c} BY MonitorKeeps
<1>3. k \in Nat /\ n = IF type = "twoway" THEN (IF c \in S THEN k ELSE k + 1)
                                          ELSE (IF c \in S THEN k - 1 ELSE k)
  <2> HIDE DEF S
  <2> QED BY <1>1, <1>2, OneMoreOrLess
<1>4. lost' = (lost \/ c \in S) BY DEF Monitor
<1>5. two_way + k <= base.two_way /\ (~lost => two_way + k = base.two_way) BY DEF Within
<1>6. two_way \in Int /\ base.two_way \in Int BY DEF RestOK
<1> HIDE DEF S, n, k
<1>7. n \in Nat BY <1>1
<1>8. CASE type = "twoway" /\ c \in S
  <2>1. n = k /\ lost' BY <1>8, <1>3, <1>4
  <2> QED BY <1>8, <2>1, <1>3, <1>5, <1>6, <1>7 DEF n, S
<1>9. CASE type = "twoway" /\ c \notin S
  <2>1. n = k + 1 /\ (lost' <=> lost) BY <1>9, <1>3, <1>4 DEF RestOK
  <2> QED BY <1>9, <2>1, <1>3, <1>5, <1>6, <1>7 DEF n, S
<1>10. CASE type # "twoway" /\ c \in S
  <2>1. n = k - 1 /\ lost' BY <1>10, <1>3, <1>4
  <2> QED BY <1>10, <2>1, <1>3, <1>5, <1>6, <1>7 DEF n, S
<1>11. CASE type # "twoway" /\ c \notin S
  <2>1. n = k /\ (lost' <=> lost) BY <1>11, <1>3, <1>4 DEF RestOK
  <2> QED BY <1>11, <2>1, <1>3, <1>5, <1>6, <1>7 DEF n, S
<1> QED BY <1>8, <1>9, <1>10, <1>11

(* A step that leaves what is available, what is held and the history. *)
LEMMA WithinSame ==
    ASSUME Within, UNCHANGED <<up, two_way, base, clamped, lost>>,
           Held("twoway")' = Held("twoway")
    PROVE  Within'
BY DEF Within

LEMMA WithinInit == Init => Within
<1> SUFFICES ASSUME Init PROVE Within OBVIOUS
<1>1. Held("twoway") = {} BY DEF Init, Held
<1>2. Cardinality(Held("twoway")) = 0 BY <1>1, FS_EmptySet
<1>3. First.two_way \in Nat BY LimitsAreCounts
<1>4. base.two_way = First.two_way /\ two_way = First.two_way BY DEF Init
<1> QED BY <1>2, <1>3, <1>4 DEF Within

(* What an attempt that finds no two-way trunk does. *)
LEMMA TryKeeps ==
    ASSUME RestOK, NEW tried, UsedUp(tried), Try(tried), ~clamped'
    PROVE  two_way' = two_way /\ ~clamped /\ clamped' = clamped
<1>1. clamped' = (clamped \/ ("twoway" \in tried /\ two_way < 0)) BY DEF Try
<1>2. ~clamped /\ ~("twoway" \in tried /\ two_way < 0) BY <1>1
<1>3. clamped' = clamped BY <1>1, <1>2 DEF RestOK
<1>4. two_way' = IF "twoway" \in tried THEN 0 ELSE two_way BY DEF Try
<1>5. "twoway" \in tried => two_way < 1 BY DEF UsedUp
<1>6. two_way' = two_way BY <1>2, <1>4, <1>5 DEF RestOK
<1> QED BY <1>2, <1>3, <1>6

LEMMA AuthzWithin ==
    ASSUME RestOK, EntriesOK, Within, NEW c \in Calls, Authz(c)
    PROVE  /\ Within'
           /\ ~clamped /\ ~(InUse("twoway")' \subseteq InUse("twoway"))
                => Cardinality(InUse("twoway")') <= base'.two_way
<1> DEFINE n == Cardinality(Held("twoway")')
<1>1. n \in Nat /\ Cardinality(InUse("twoway")') \in Nat /\ Cardinality(InUse("twoway")') <= n
  BY HeldFiniteNext
<1>2. two_way \in Int /\ base.two_way \in Nat BY DEF RestOK
<1>3. CASE AuthzInbound(c)
  <2>1. Monitor(c, "inbound") /\ up /\ UNCHANGED <<up, two_way, base, clamped>>
    BY <1>3 DEF AuthzInbound
  <2>2. InUse("twoway")' \subseteq InUse("twoway") BY <2>1, MonitorKeeps DEF CallTypes
  <2>3. ASSUME ~clamped PROVE two_way + n <= base.two_way /\ (~lost' => two_way + n = base.two_way)
    BY <2>1, <2>3, MonitorCounts DEF CallTypes
  <2> HIDE DEF n
  <2>4. Within' BY <2>1, <2>3 DEF Within, n
  <2> QED BY <2>2, <2>4
<1>4. ASSUME NEW tried, AuthzTwoWay(c, tried)
      PROVE  /\ Within'
             /\ ~clamped => Cardinality(InUse("twoway")') <= base'.two_way
  <2>1. /\ Monitor(c, "twoway") /\ up /\ two_way > 0 /\ two_way' = two_way - 1
        /\ UNCHANGED <<up, base, clamped>>
    BY <1>4 DEF AuthzTwoWay
  <2>2. ASSUME ~clamped
        PROVE two_way - 1 + n <= base.two_way /\ (~lost' => two_way - 1 + n = base.two_way)
    BY <2>1, <2>2, MonitorCounts DEF CallTypes
  <2> HIDE DEF n
  <2>3. Within' BY <2>1, <2>2 DEF Within, n
  <2>4. ASSUME ~clamped PROVE Cardinality(InUse("twoway")') <= base'.two_way
    <3>1. Cardinality(InUse("twoway")') <= n /\ n <= base.two_way
      BY <1>1, <1>2, <2>1, <2>2, <2>4
    <3>2. base' = base BY <2>1
    <3> QED BY <1>1, <1>2, <3>1, <3>2
  <2> QED BY <2>3, <2>4
<1>5. ASSUME NEW tried, AuthzPrepay(c, tried)
      PROVE  Within' /\ InUse("twoway")' \subseteq InUse("twoway")
  <2>1. /\ Monitor(c, "per_min") /\ up /\ UsedUp(tried) /\ Try(tried)
        /\ UNCHANGED <<up, base>>
    BY <1>5 DEF AuthzPrepay
  <2>2. InUse("twoway")' \subseteq InUse("twoway") BY <2>1, MonitorKeeps DEF CallTypes
  <2>3. ASSUME ~clamped' PROVE /\ two_way' = two_way
                               /\ two_way + n <= base.two_way
                               /\ ~lost' => two_way + n = base.two_way
    <3>1. two_way' = two_way /\ ~clamped BY <2>1, <2>3, TryKeeps
    <3> QED BY <2>1, <3>1, MonitorCounts DEF CallTypes
  <2> HIDE DEF n
  <2>4. Within' BY <2>1, <2>3 DEF Within, n
  <2> QED BY <2>2, <2>4
<1> QED BY <1>3, <1>4, <1>5 DEF Authz

LEMMA DownWithin ==
    ASSUME RestOK, EntriesOK, Within, NEW p \in Pids, Down(p)
    PROVE  Within'
<1> DEFINE S == Held("twoway")
           n == Cardinality(S')
           k == Cardinality(S)
<1>1. UNCHANGED <<up, base, clamped, lost>> BY DEF Down
<1>2. IsFiniteSet(S) BY HeldFinite
<1>3. CASE Known(p) /\ mon[p].type = "twoway"
  <2>1. two_way' = two_way + 1 BY <1>3 DEF Down, Returned
  <2>2. PICK c \in S : S' = S \ {c} BY <1>3, DownKeeps
  <2>3. k \in Nat /\ n = k - 1
    <3> HIDE DEF S
    <3> QED BY <1>2, <2>2, OneMoreOrLess
  <2>4. two_way \in Int /\ base.two_way \in Int BY DEF RestOK
  <2>5. ~clamped /\ up => two_way + k <= base.two_way /\ (~lost => two_way + k = base.two_way)
    BY DEF Within
  <2> HIDE DEF n, k, S
  <2>6. ~clamped /\ up => two_way' + n <= base.two_way /\ (~lost => two_way' + n = base.two_way)
    BY <2>1, <2>3, <2>4, <2>5
  <2> QED BY <1>1, <2>6 DEF Within, n, S
<1>4. CASE ~(Known(p) /\ mon[p].type = "twoway")
  <2>1. two_way' = two_way BY <1>4 DEF Down, Returned
  <2>2. S' = S BY <1>4, DownKeeps
  <2> QED BY <1>1, <2>1, <2>2, WithinSame
<1> QED BY <1>3, <1>4

LEMMA ConfChangeWithin ==
    ASSUME RestOK, EntriesOK, NEW d \in Limits, ConfChange(d)
    PROVE  Within'
<1> DEFINE n == Cardinality(InUse("twoway"))
<1>1. n \in Nat BY HeldFinite
<1>2. base' = d /\ two_way' = d.two_way - n BY DEF ConfChange, Recount
<1>3. Held("twoway")' = InUse("twoway") BY ConfChangeKeeps
<1>4. d.two_way \in Nat BY LimitsAreCounts
<1>5. base'.two_way = d.two_way BY <1>2
<1>6. Cardinality(Held("twoway")') = n BY <1>3
<1> HIDE DEF n
<1>7. two_way' + n = base'.two_way /\ two_way' + n <= base'.two_way
  BY <1>1, <1>2, <1>4, <1>5
<1> QED BY <1>6, <1>7 DEF Within

LEMMA StartWithin ==
    ASSUME RestOK, Start
    PROVE  Within' /\ InUse("twoway")' = {}
<1>1. base' = doc /\ two_way' = doc.two_way /\ trunks_in_use' = [c \in Calls |-> None]
  BY DEF Start, Loaded
<1>2. Held("twoway")' = {} BY <1>1 DEF Held
<1>3. Cardinality(Held("twoway")') = 0 BY <1>2, FS_EmptySet
<1>4. doc.two_way \in Nat BY LimitsAreCounts DEF RestOK
<1>5. base'.two_way = doc.two_way BY <1>1
<1>6. two_way' + 0 = base'.two_way /\ two_way' + 0 <= base'.two_way BY <1>1, <1>4, <1>5
<1>7. Within' BY <1>3, <1>6 DEF Within
<1>8. InUse("twoway")' = {} BY <1>2 DEF InUse
<1> QED BY <1>7, <1>8

(* Every step keeps the sum, and only an authorization on a two-way trunk  *)
(* adds a call to those on two-way trunks.                                 *)
Admitted ==
    ~clamped /\ ~(InUse("twoway")' \subseteq InUse("twoway"))
        => Cardinality(InUse("twoway")') <= base'.two_way

LEMMA WithinNext ==
    ASSUME Parts, Within, [Next]_vars
    PROVE  Within' /\ Admitted
<1> RestOK /\ EntriesOK /\ MoneyOK BY DEF Parts
<1>1. ASSUME UNCHANGED <<up, two_way, base, clamped, lost>>, Held("twoway")' = Held("twoway"),
             InUse("twoway")' \subseteq InUse("twoway")
      PROVE  Within' /\ Admitted
  BY <1>1, WithinSame DEF Admitted
<1>2. ASSUME UNCHANGED <<up, trunks, mon>> PROVE Within' /\ Admitted
  BY <1>1, <1>2, EntriesSame DEF trunks
<1>3. ASSUME Dies PROVE Within' /\ Admitted
  <2>1. up' = FALSE BY <1>3 DEF Dies
  <2>2. InUse("twoway")' = {} BY <1>3, DiesKeeps
  <2> QED BY <2>1, <2>2 DEF Within, Admitted
<1>4. CASE Start BY <1>4, StartWithin DEF Admitted
<1>5. CASE Crash BY <1>3, <1>5 DEF Crash
<1>6. ASSUME NEW tried \in Orders, AuthzRefused(tried) PROVE Within' /\ Admitted
  <2>1. UsedUp(tried) /\ Try(tried) /\ UNCHANGED <<up, base, trunks_in_use, lost, mon>>
    BY <1>6 DEF AuthzRefused
  <2>2. Held("twoway")' = Held("twoway") /\ InUse("twoway")' = InUse("twoway")
    BY <2>1, EntriesSame
  <2>3. CASE clamped' BY <2>2, <2>3 DEF Within, Admitted
  <2>4. CASE ~clamped'
    <3>1. two_way' = two_way /\ clamped' = clamped BY <2>1, <2>4, TryKeeps
    <3> QED BY <1>1, <1>6, <2>1, <2>2, <3>1 DEF AuthzRefused
  <2> QED BY <2>3, <2>4
<1>7. ASSUME NEW tried \in Orders, AuthzOnNoPrepay(tried) PROVE Within' /\ Admitted
  BY <1>3, <1>7 DEF AuthzOnNoPrepay
<1>8. ASSUME NEW c \in Calls, Authz(c) PROVE Within' /\ Admitted
  BY <1>8, AuthzWithin DEF Admitted
<1>9. ASSUME NEW c \in Calls, AuthzWin(c) PROVE Within' /\ Admitted
  <2> DEFINE p == trunks_in_use[c]
             m == [mon[p] EXCEPT !.won = TRUE]
  <2>1. p \in Pids /\ mon[p].state = "run" /\ mon[p] \in Monitors BY <1>9 DEF AuthzWin, EntriesOK
  <2>2. mon' = [mon EXCEPT ![p] = m] /\ trunks_in_use' = trunks_in_use
        /\ UNCHANGED <<up, two_way, base, clamped, lost>>
    BY <1>9 DEF AuthzWin, trunks
  <2>3. m \in Monitors /\ m.call = mon[p].call /\ m.type = mon[p].type
        /\ m.watched = mon[p].watched /\ m.state = "run"
    BY <2>1 DEF Monitors
  <2> HIDE DEF m, p
  <2>4. Held("twoway")' = Held("twoway") /\ InUse("twoway")' = InUse("twoway")
    BY <2>1, <2>2, <2>3, ChangeKeeps
  <2> QED BY <1>1, <2>2, <2>4
<1>10. ASSUME NEW c \in Calls, Hangup(c) PROVE Within' /\ Admitted
  BY <1>2, <1>10 DEF Hangup
<1>11. ASSUME NEW p \in Pids, Down(p) PROVE Within' /\ Admitted
  BY <1>11, DownKeeps, DownWithin DEF Admitted
<1>12. ASSUME NEW p \in Pids, CdrWon(p) \/ CheckLedger(p) \/ MonitorCrash(p)
       PROVE  Within' /\ Admitted
  <2>1. Ends(p) /\ UNCHANGED trunks /\ up' = up
    BY <1>12 DEF CdrWon, CheckLedger, MonitorCrash
  <2>2. Held("twoway")' = Held("twoway") /\ InUse("twoway")' \subseteq InUse("twoway")
    BY <2>1, EndsKeeps
  <2> QED BY <1>1, <2>1, <2>2 DEF trunks
<1>13. ASSUME NEW p \in Pids, CdrNotWon(p) PROVE Within' /\ Admitted
  <2> DEFINE m == [mon[p] EXCEPT !.state = "check"]
  <2>1. mon[p].state = "run" /\ mon[p] \in Monitors BY <1>13 DEF CdrNotWon, EntriesOK
  <2>2. mon' = [mon EXCEPT ![p] = m] /\ trunks_in_use' = trunks_in_use
        /\ UNCHANGED <<up, two_way, base, clamped, lost>>
    BY <1>13 DEF CdrNotWon, trunks
  <2>3. m \in Monitors /\ m.call = mon[p].call /\ m.type = mon[p].type
        /\ m.watched = mon[p].watched /\ m.state = "check"
    BY <2>1 DEF Monitors
  <2> HIDE DEF m
  <2>4. Held("twoway")' = Held("twoway") /\ InUse("twoway")' = InUse("twoway")
    BY <2>1, <2>2, <2>3, ChangeKeeps
  <2> QED BY <1>1, <2>2, <2>4
<1>14. ASSUME NEW d \in Limits, ConfChange(d) PROVE Within' /\ Admitted
  BY <1>14, ConfChangeKeeps, ConfChangeWithin DEF Admitted
<1>15. ASSUME NEW d \in Limits, Edit(d) PROVE Within' /\ Admitted
  BY <1>2, <1>15 DEF Edit
<1>16. CASE UNCHANGED vars BY <1>2, <1>16 DEF vars
<1> QED BY <1>4, <1>5, <1>6, <1>7, <1>8, <1>9, <1>10, <1>11, <1>12, <1>13, <1>14, <1>15, <1>16 DEF Next

LEMMA WithinHolds == Spec => [](Parts /\ Within)
<1>1. Init => Within BY WithinInit
<1>2. Parts /\ Within /\ [Next]_vars => Within' BY WithinNext
<1> QED BY <1>1, <1>2, PartsHold, PTL DEF Spec

(* No two-way trunk is lost or made, for every account and every number    *)
(* of calls.                                                               *)
THEOREM TrunksAreCounted == Spec => []TrunksAddUp
<1>1. Within => TrunksAddUp BY DEF Within, TrunksAddUp
<1> QED BY <1>1, WithinHolds, PTL

(* No authorization takes the calls on two-way trunks above the limit the  *)
(* manager counted from.                                                   *)
THEOREM LimitIsKept == Spec => NeverAboveTwoWay
<1>1. Parts /\ Within /\ [Next]_vars => [Admitted]_vars BY WithinNext
<1> QED BY <1>1, WithinHolds, PTL DEF Spec, NeverAboveTwoWay, Admitted

-----------------------------------------------------------------------------
(* The charges.  A CDR on its way is about a call that has ended, and what *)
(* was charged so far is at most what the events in the ledger allow: the  *)
(* charge in advance, and the rest of the cost once the call is over.      *)
Heard == \A p \in cdrs : p \in Pids /\ Alive(p) /\ mon[p].call \in over

InAdvance(events) == IF "start" \in events THEN Charge ELSE 0
AtTheEnd(events, ended) ==
    IF "end" \in events /\ Billed \in ended /\ Cost > Charge THEN Cost - Charge ELSE 0

Bill == charged <= InAdvance(ledger) + AtTheEnd(ledger, over)

(* A monitor that ends takes its CDR with it. *)
LEMMA EndsHeard ==
    ASSUME EntriesOK, Heard, NEW p \in Pids, Ends(p), over' = over
    PROVE  Heard'
<1>1. cdrs' = cdrs \ {p} BY DEF Ends
<1>2. \A q \in Pids \ {p} : mon'[q] = mon[q] BY DEF Ends, EntriesOK
<1> QED BY <1>1, <1>2 DEF Heard, Alive

LEMMA HeardNext ==
    ASSUME EntriesOK, Heard, [Next]_vars
    PROVE  Heard'
<1>0. mon \in [Pids -> Monitors] BY DEF EntriesOK
<1>1. ASSUME UNCHANGED <<mon, cdrs, over>> PROVE Heard' BY <1>1 DEF Heard, Alive
<1>2. ASSUME Dies PROVE Heard'
  <2>1. cdrs' = cdrs /\ over' = over BY <1>2 DEF Dies, world
  <2>2. ASSUME NEW p \in cdrs PROVE p \in Pids /\ Alive(p)' /\ mon'[p].call \in over'
    <3>1. p \in Pids /\ Alive(p) /\ mon[p].call \in over /\ mon[p] \in Monitors
      BY <2>2, <1>0 DEF Heard
    <3>2. mon'[p] = [mon[p] EXCEPT !.watched = FALSE] BY <1>2, <3>1 DEF Dies
    <3>3. mon'[p].state = mon[p].state /\ mon'[p].call = mon[p].call BY <3>1, <3>2 DEF Monitors
    <3> QED BY <2>1, <3>1, <3>3 DEF Alive
  <2> QED BY <2>1, <2>2 DEF Heard
<1>3. ASSUME NEW c \in Calls, Authz(c) PROVE Heard'
  <2>1. PICK type : Monitor(c, type)
    BY <1>3 DEF Authz, AuthzInbound, AuthzTwoWay, AuthzPrepay
  <2>2. PICK p \in Free : \A q \in Pids \ {p} : mon'[q] = mon[q]
    BY <2>1, <1>0 DEF Monitor
  <2>3. cdrs' = cdrs /\ over' = over
    BY <1>3 DEF Authz, AuthzInbound, AuthzTwoWay, AuthzPrepay, world
  <2>4. p \notin cdrs BY <2>2 DEF Heard, Alive, Free
  <2> QED BY <2>2, <2>3, <2>4 DEF Heard, Alive
<1>4. ASSUME NEW p \in Pids, NEW m \in Monitors, mon' = [mon EXCEPT ![p] = m],
             m.call = mon[p].call, m.state \in {"run", "check"},
             cdrs' \subseteq cdrs, over' = over
      PROVE  Heard'
  <2>1. mon'[p] = m /\ \A q \in Pids \ {p} : mon'[q] = mon[q] BY <1>0, <1>4
  <2> QED BY <1>4, <2>1 DEF Heard, Alive
<1>5. ASSUME NEW c \in Calls, AuthzWin(c) PROVE Heard'
  <2> DEFINE p == trunks_in_use[c]
             m == [mon[p] EXCEPT !.won = TRUE]
  <2>1. p \in Pids /\ mon[p].state = "run" /\ mon[p] \in Monitors BY <1>5 DEF AuthzWin, EntriesOK
  <2>2. mon' = [mon EXCEPT ![p] = m] /\ cdrs' = cdrs /\ over' = over BY <1>5 DEF AuthzWin, world
  <2>3. m \in Monitors /\ m.call = mon[p].call /\ m.state = "run" BY <2>1 DEF Monitors
  <2> HIDE DEF m, p
  <2> QED BY <2>1, <2>2, <2>3, <1>4
<1>6. ASSUME NEW c \in Calls, Hangup(c) PROVE Heard'
  <2>1. mon' = mon /\ over' = over \cup {c} BY <1>6 DEF Hangup
  <2>2. \A p \in cdrs' : p \in cdrs \/ (p \in Pids /\ Alive(p) /\ mon[p].call = c)
    BY <1>6 DEF Hangup
  <2> QED BY <2>1, <2>2 DEF Heard, Alive
<1>7. ASSUME NEW p \in Pids, Down(p) PROVE Heard'
  <2>1. p \notin cdrs BY <1>7 DEF Down, Heard, Alive
  <2>2. cdrs' = cdrs /\ over' = over /\ \A q \in Pids \ {p} : mon'[q] = mon[q]
    BY <1>7, <1>0 DEF Down, world
  <2> QED BY <2>1, <2>2 DEF Heard, Alive
<1>8. ASSUME NEW p \in Pids, CdrWon(p) \/ CheckLedger(p) \/ MonitorCrash(p) PROVE Heard'
  BY <1>8, EndsHeard DEF CdrWon, CheckLedger, MonitorCrash, world
<1>9. ASSUME NEW p \in Pids, CdrNotWon(p) PROVE Heard'
  <2> DEFINE m == [mon[p] EXCEPT !.state = "check"]
  <2>1. mon[p] \in Monitors BY <1>0
  <2>2. mon' = [mon EXCEPT ![p] = m] /\ cdrs' \subseteq cdrs /\ over' = over
    BY <1>9 DEF CdrNotWon, world
  <2>3. m \in Monitors /\ m.call = mon[p].call /\ m.state = "check" BY <2>1 DEF Monitors
  <2> HIDE DEF m
  <2> QED BY <2>2, <2>3, <1>4
<1>10. ASSUME NEW tried \in Orders, AuthzRefused(tried) \/ AuthzOnNoPrepay(tried) PROVE Heard'
  BY <1>10, <1>1, <1>2 DEF AuthzRefused, AuthzOnNoPrepay, world
<1>11. ASSUME NEW d \in Limits, ConfChange(d) \/ Edit(d) PROVE Heard'
  BY <1>11, <1>1 DEF ConfChange, Edit, world
<1>12. CASE Start \/ Crash BY <1>12, <1>1, <1>2 DEF Start, Crash, world
<1>13. CASE UNCHANGED vars BY <1>13, <1>1 DEF vars, world
<1> QED BY <1>3, <1>5, <1>6, <1>7, <1>8, <1>9, <1>10, <1>11, <1>12, <1>13 DEF Next

(* A transaction of what its event allows keeps the bill. *)
LEMMA WriteBill ==
    ASSUME MoneyOK, Bill, NEW c, NEW event \in {"start", "end"}, NEW amount \in Int,
           Write(c, event, amount), over' = over,
           c = Billed /\ event = "start" => amount <= Charge,
           c = Billed /\ event = "end" => amount <= AtTheEnd({"end"}, over)
    PROVE  Bill'
<1>1. CASE c # Billed \/ event \in ledger BY <1>1 DEF Write, money, Bill
<1>2. CASE c = Billed /\ event \notin ledger
  <2>1. ledger' = ledger \cup {event} /\ charged' = charged + amount BY <1>2 DEF Write
  <2>2. Cost \in Int /\ Charge = 1 /\ charged \in Int BY BilledCall DEF Charge, MoneyOK
  <2>3. CASE event = "start"
    <3>1. "start" \notin ledger /\ "start" \in ledger' /\ ("end" \in ledger' <=> "end" \in ledger)
      BY <1>2, <2>1, <2>3
    <3>2. AtTheEnd(ledger', over') = AtTheEnd(ledger, over) BY <3>1 DEF AtTheEnd
    <3>3. AtTheEnd(ledger, over) \in Int BY <2>2 DEF AtTheEnd
    <3>4. InAdvance(ledger) = 0 /\ InAdvance(ledger') = Charge BY <3>1 DEF InAdvance
    <3>5. charged <= AtTheEnd(ledger, over) BY <3>3, <3>4 DEF Bill
    <3>6. amount <= Charge BY <1>2, <2>3
    <3> QED BY <2>1, <2>2, <3>2, <3>3, <3>4, <3>5, <3>6 DEF Bill
  <2>4. CASE event = "end"
    <3>1. "end" \notin ledger /\ "end" \in ledger' /\ ("start" \in ledger' <=> "start" \in ledger)
      BY <1>2, <2>1, <2>4
    <3>2. InAdvance(ledger') = InAdvance(ledger) BY <3>1 DEF InAdvance
    <3>3. InAdvance(ledger) \in Int BY <2>2 DEF InAdvance
    <3>4. AtTheEnd(ledger, over) = 0 /\ AtTheEnd(ledger', over') = AtTheEnd({"end"}, over)
      BY <3>1 DEF AtTheEnd
    <3>5. AtTheEnd({"end"}, over) \in Int BY <2>2 DEF AtTheEnd
    <3>6. charged <= InAdvance(ledger) BY <3>3, <3>4 DEF Bill
    <3>7. amount <= AtTheEnd({"end"}, over) BY <1>2, <2>4
    <3> QED BY <2>1, <2>2, <3>2, <3>3, <3>4, <3>5, <3>6, <3>7 DEF Bill
  <2> QED BY <2>3, <2>4
<1> QED BY <1>1, <1>2

LEMMA BillNext ==
    ASSUME EntriesOK, MoneyOK, Heard, Bill, [Next]_vars
    PROVE  Bill'
<1>1. Cost \in Nat /\ Charge = 1 /\ Cost - Charge \in Int BY BilledCall DEF Charge
<1>2. ASSUME UNCHANGED <<ledger, charged, over>> PROVE Bill' BY <1>2 DEF Bill
<1>3. ASSUME NEW c \in Calls, Authz(c) PROVE Bill'
  <2>1. PICK type : Monitor(c, type) BY <1>3 DEF Authz, AuthzInbound, AuthzTwoWay, AuthzPrepay
  <2> DEFINE amount == IF type = "per_min" THEN Charge ELSE 0
  <2>2. Write(c, "start", amount) BY <2>1 DEF Monitor
  <2>3. amount \in Int /\ amount <= Charge BY <1>1
  <2>4. over' = over BY <1>3 DEF Authz, AuthzInbound, AuthzTwoWay, AuthzPrepay, world
  <2> HIDE DEF amount
  <2> QED BY <2>2, <2>3, <2>4, WriteBill
<1>4. ASSUME NEW p \in Pids, CdrWon(p) PROVE Bill'
  <2> DEFINE amount == IF mon[p].type = "per_min" THEN Cost - Charge ELSE 0
  <2>1. Write(mon[p].call, "end", amount) /\ over' = over /\ p \in cdrs BY <1>4 DEF CdrWon, world
  <2>2. mon[p].call \in over BY <2>1 DEF Heard
  <2>3. amount \in Int BY <1>1
  <2>4. mon[p].call = Billed => amount <= AtTheEnd({"end"}, over) BY <1>1, <2>2 DEF AtTheEnd
  <2> HIDE DEF amount
  <2> QED BY <2>1, <2>3, <2>4, WriteBill
<1>5. ASSUME NEW p \in Pids, CheckLedger(p) PROVE Bill'
  <2>1. Write(mon[p].call, "end", 0) /\ over' = over BY <1>5 DEF CheckLedger, world
  <2>2. 0 <= AtTheEnd({"end"}, over) BY <1>1 DEF AtTheEnd
  <2> QED BY <2>1, <2>2, WriteBill
<1>6. ASSUME NEW c \in Calls, Hangup(c) PROVE Bill'
  <2>1. ledger' = ledger /\ charged' = charged /\ over' = over \cup {c} BY <1>6 DEF Hangup, money
  <2>2. /\ AtTheEnd(ledger, over) \in Int /\ AtTheEnd(ledger', over') \in Int
        /\ AtTheEnd(ledger, over) <= AtTheEnd(ledger', over')
    BY <1>1, <2>1 DEF AtTheEnd
  <2>3. InAdvance(ledger') = InAdvance(ledger) /\ InAdvance(ledger) \in Int
    BY <1>1, <2>1 DEF InAdvance
  <2>4. charged \in Int BY DEF MoneyOK
  <2> QED BY <2>1, <2>2, <2>3, <2>4 DEF Bill
<1>7. ASSUME NEW c \in Calls, AuthzWin(c) PROVE Bill' BY <1>2, <1>7 DEF AuthzWin, world, money
<1>8. ASSUME NEW p \in Pids, Down(p) \/ CdrNotWon(p) \/ MonitorCrash(p) PROVE Bill'
  BY <1>2, <1>8 DEF Down, CdrNotWon, MonitorCrash, world, money
<1>9. ASSUME NEW tried \in Orders, AuthzRefused(tried) \/ AuthzOnNoPrepay(tried) PROVE Bill'
  BY <1>2, <1>9 DEF AuthzRefused, AuthzOnNoPrepay, Dies, world, money
<1>10. ASSUME NEW d \in Limits, ConfChange(d) \/ Edit(d) PROVE Bill'
  BY <1>2, <1>10 DEF ConfChange, Edit, world, money
<1>11. CASE Start \/ Crash BY <1>2, <1>11 DEF Start, Crash, Dies, world, money
<1>12. CASE UNCHANGED vars BY <1>2, <1>12 DEF vars, world, money
<1> QED BY <1>3, <1>4, <1>5, <1>6, <1>7, <1>8, <1>9, <1>10, <1>11, <1>12 DEF Next

(* However many monitors and managers settle a call, in whatever order they *)
(* end, it is charged its cost once (j5_util.erl:112, write_debit_to_ledger). *)
THEOREM ChargedOnce == Spec => []NeverOvercharged
<1>1. Init => Heard /\ Bill
  <2> SUFFICES ASSUME Init PROVE Heard /\ Bill OBVIOUS
  <2>1. cdrs = {} /\ ledger = {} /\ charged = 0 BY DEF Init
  <2> QED BY <2>1 DEF Heard, Bill, InAdvance, AtTheEnd
<1>2. Parts /\ Heard /\ Bill /\ [Next]_vars => Heard' /\ Bill'
  BY HeardNext, BillNext DEF Parts
<1>3. Parts /\ Bill => NeverOvercharged
  <2> SUFFICES ASSUME Parts, Bill PROVE NeverOvercharged OBVIOUS
  <2>1. charged \in Int /\ Cost \in Nat /\ Charge = 1
    BY BilledCall DEF Parts, MoneyOK, Charge
  <2>2. InAdvance(ledger) \in Int /\ InAdvance(ledger) <= Charge BY <2>1 DEF InAdvance
  <2>3. CASE Billed \in over /\ Cost > Charge
    <3>1. AtTheEnd(ledger, over) \in Int /\ AtTheEnd(ledger, over) <= Cost - Charge
      BY <2>1, <2>3 DEF AtTheEnd
    <3>2. charged <= Cost BY <2>1, <2>2, <3>1 DEF Bill
    <3> QED BY <2>3, <3>2 DEF NeverOvercharged
  <2>4. CASE ~(Billed \in over /\ Cost > Charge)
    <3>1. AtTheEnd(ledger, over) = 0 BY <2>4 DEF AtTheEnd
    <3>2. charged <= Charge BY <2>1, <2>2, <3>1 DEF Bill
    <3> QED BY <2>4, <3>2 DEF NeverOvercharged
  <2> QED BY <2>3, <2>4
<1> QED BY <1>1, <1>2, <1>3, PartsHold, PTL DEF Spec
=============================================================================
