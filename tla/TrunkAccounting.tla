-------------------------- MODULE TrunkAccounting --------------------------
(***************************************************************************)
(* The trunks of one account: j5_acctmgr, which authorizes calls on the    *)
(* account's inbound and two-way trunks or on its prepaid credit, and the  *)
(* j5_call_monitor of each authorized call, which ends with the call's CDR *)
(* and settles what a prepaid call costs.                                  *)
(*                                                                         *)
(* The manager hears that a monitor has ended from its 'DOWN' message, of  *)
(* changed limits from conf_change messages (handed over by a process      *)
(* each, so in any order) and reads limits and credit again in a           *)
(* synchronisation.  When it fails its monitors go on; the next request    *)
(* for the account starts a new manager that knows nothing of them.        *)
(*                                                                         *)
(* A monitor asks for the status of its call every minute.  The answer is  *)
(* a channel_status_resp (ecallmgr_fs_query.erl:68) and the clause that    *)
(* would start the timer to end the monitor waits for a status_resp, so    *)
(* the timers change nothing and are left out, and so is the balance:      *)
(* whether the credit allows a call is any.  Money is counted in the       *)
(* charge of a minute, and followed for one call, as the transactions of   *)
(* two calls do not touch.  A pid is used again when nothing refers to it. *)
(***************************************************************************)
EXTENDS Integers, FiniteSets

CONSTANTS
    Calls,          \* Call-IDs of the account
    Limits,         \* what the account's document may say: [two_way, inbound]
    First,          \* what it says at first
    Billed, Cost,   \* the call whose transactions are followed, what it comes to
    Pids,           \* monitors that may exist at the same time
    None,           \* no monitor
    MaxEdits        \* bound: changes of the document

ASSUME LimitsAreCounts ==
    /\ Limits \subseteq [two_way : Nat, inbound : Nat]
    /\ First \in Limits
ASSUME BilledCall == Billed \in Calls /\ Cost \in Nat
ASSUME EditsAreCounted == MaxEdits \in Nat
ASSUME CallsAreFinite == IsFiniteSet(Calls)
ASSUME NoneIsNoPid == None \notin Pids

Charge == 1             \* wapi_money:default_per_min_charge()
CallTypes == {"twoway", "inbound", "per_min"}

VARIABLES
    up,             \* the manager is running
    two_way, inbound, trunks_in_use,
    mon,            \* the monitors
    doc,            \* the limits in the database
    confs,          \* conf_change messages on their way
    cdrs,           \* monitors with a CDR on its way to them
    over,           \* the calls that have ended
    edits,          \* how often the document was changed
    ledger,         \* the events of Billed with a transaction
    charged,        \* history: what Billed was charged
    base,           \* history: the limits two_way and inbound were counted from
    clamped, lost   \* history, since that count: see Try and Monitor

trunks == <<two_way, inbound, trunks_in_use, base, clamped, lost>>
money  == <<ledger, charged>>
world  == <<doc, edits, over>>
vars == <<up, trunks, mon, confs, cdrs, world, money>>

(* A monitor is "run"ning, waits to "check" the ledger, or is "dead" with  *)
(* its 'DOWN' in the manager's mailbox.                                    *)
NoMonitor == [call |-> Billed, type |-> "twoway", won |-> FALSE,
              watched |-> FALSE, state |-> "none"]
Alive(p) == mon[p].state \in {"run", "check"}
Held(type) == {c \in Calls : trunks_in_use[c] # None /\ mon[trunks_in_use[c]].type = type}
InUse(type) == {c \in Held(type) : Alive(trunks_in_use[c])}

(* What get_trunks_available finds is what init starts from. *)
Loaded(limit) ==
    /\ base' = limit
    /\ two_way' = limit.two_way /\ inbound' = limit.inbound
    /\ trunks_in_use' = [c \in Calls |-> None]
    /\ clamped' = FALSE /\ lost' = FALSE

Init ==
    /\ up = TRUE
    /\ base = First /\ doc = First
    /\ two_way = First.two_way /\ inbound = First.inbound
    /\ trunks_in_use = [c \in Calls |-> None]
    /\ clamped = FALSE /\ lost = FALSE
    /\ confs = {} /\ cdrs = {}
    /\ mon = [p \in Pids |-> NoMonitor]
    /\ over = {} /\ edits = 0
    /\ ledger = {} /\ charged = 0

-----------------------------------------------------------------------------
(* The ledger.                                                             *)

Saved_Write(c, event, amount) ==   \* mutant: a conflict is saved all the same
    IF c # Billed
    THEN UNCHANGED money
    ELSE /\ ledger' = ledger \cup {event}
         /\ charged' = charged + amount

(* A transaction is saved under the Call-ID, with the time of the event    *)
(* when there is one: a second of the same event is a conflict.            *)
Write(c, event, amount) ==
    IF c # Billed \/ event \in ledger
    THEN UNCHANGED money
    ELSE /\ ledger' = ledger \cup {event}
         /\ charged' = charged + amount

-----------------------------------------------------------------------------
(* The manager.                                                            *)

(* A request that finds no manager starts one. *)
Start ==
    /\ ~up
    /\ up' = TRUE
    /\ Loaded(doc)
    /\ UNCHANGED <<mon, confs, cdrs, world, money>>

(* The manager ends, with its state, its mailbox and its watches; the      *)
(* monitors go on.                                                         *)
Dies ==
    /\ up' = FALSE
    /\ base' = [two_way |-> 0, inbound |-> 0]
    /\ two_way' = 0 /\ inbound' = 0
    /\ trunks_in_use' = [c \in Calls |-> None]
    /\ clamped' = FALSE /\ lost' = FALSE
    /\ confs' = {}
    /\ mon' = [p \in Pids |-> IF Alive(p) THEN [mon[p] EXCEPT !.watched = FALSE]
                              ELSE NoMonitor]
    /\ UNCHANGED <<cdrs, world, money>>

(* The trunks found to be used up before a request got its answer. One     *)
(* that fails leaves its count at 0, also when it was negative because the *)
(* limit was lowered below the trunks in use.                              *)
UsedUp(tried) ==
    /\ "inbound" \in tried => inbound < 1
    /\ "twoway" \in tried => two_way < 1

Try(tried) ==
    /\ inbound' = IF "inbound" \in tried THEN 0 ELSE inbound
    /\ two_way' = IF "twoway" \in tried THEN 0 ELSE two_way
    /\ clamped' = (clamped \/ ("twoway" \in tried /\ two_way < 0))

Free == {p \in Pids : mon[p].state = "none"}

(* The call gets a monitor, watched by the manager, in place of the one it *)
(* may have from an earlier request.                                       *)
Monitor(c, type) ==
    /\ \E p \in Free :
          /\ p = CHOOSE q \in Free : TRUE
          /\ mon' = [mon EXCEPT ![p] = [call |-> c, type |-> type, won |-> FALSE,
                                        watched |-> TRUE, state |-> "run"]]
          /\ trunks_in_use' = [trunks_in_use EXCEPT ![c] = p]
    /\ lost' = (lost \/ c \in Held("twoway"))
    /\ Write(c, "start", IF type = "per_min" THEN Charge ELSE 0)

AuthzInbound(c) ==
    /\ up /\ inbound > 0
    /\ Monitor(c, "inbound")
    /\ inbound' = inbound - 1
    /\ UNCHANGED <<up, base, two_way, clamped, confs, cdrs, world>>

(* tried: an inbound call has tried the inbound trunks first. *)
AuthzTwoWay(c, tried) ==
    /\ up /\ UsedUp(tried) /\ two_way > 0
    /\ Monitor(c, "twoway")
    /\ inbound' = IF "inbound" \in tried THEN 0 ELSE inbound
    /\ two_way' = two_way - 1
    /\ UNCHANGED <<up, base, clamped, confs, cdrs, world>>

(* tried: nothing, for a call to a number outside the US. *)
AuthzPrepay(c, tried) ==
    /\ up /\ UsedUp(tried)
    /\ Monitor(c, "per_min")
    /\ Try(tried)
    /\ UNCHANGED <<up, base, confs, cdrs, world>>

(* Blacklisted, or no credit and authz_on_no_prepay is false. *)
AuthzRefused(tried) ==
    /\ up /\ UsedUp(tried)
    /\ Try(tried)
    /\ UNCHANGED <<up, base, trunks_in_use, lost, mon, confs, cdrs, world, money>>

(* No credit and authz_on_no_prepay is true: try_prepay returns no state,  *)
(* which matches nothing, and the manager ends.                            *)
AuthzOnNoPrepay(tried) ==
    /\ up /\ UsedUp(tried)
    /\ Dies

(* The trunks a request has tried before the credit. A call to an          *)
(* extension of the account is authorized without any.                     *)
Orders == {{}, {"twoway"}, {"inbound", "twoway"}}

Authz(c) ==
    \/ AuthzInbound(c)
    \/ \E tried \in {{}, {"inbound"}} : AuthzTwoWay(c, tried)
    \/ \E tried \in Orders : AuthzPrepay(c, tried)

(* The switch took the route of the call, now or some time ago: its        *)
(* monitor is told that it bills the call.                                 *)
AuthzWin(c) ==
    /\ up /\ trunks_in_use[c] # None
    /\ mon[trunks_in_use[c]].state = "run"
    /\ mon' = [mon EXCEPT ![trunks_in_use[c]].won = TRUE]
    /\ UNCHANGED <<up, trunks, confs, cdrs, world, money>>

(* What 'DOWN' gives back: nothing for a monitor that is not in            *)
(* trunks_in_use; an inbound trunk is counted from the two-way trunks.     *)
Known(p) == \E c \in Calls : trunks_in_use[c] = p

Swapped_Returned(p) ==             \* mutant: the other kind's count is taken
    /\ two_way' = IF Known(p) /\ mon[p].type = "twoway" THEN inbound + 1 ELSE two_way
    /\ inbound' = IF Known(p) /\ mon[p].type = "inbound" THEN inbound + 1 ELSE inbound

Returned(p) ==
    /\ two_way' = IF Known(p) /\ mon[p].type = "twoway" THEN two_way + 1 ELSE two_way
    /\ inbound' = IF Known(p) /\ mon[p].type = "inbound" THEN two_way + 1 ELSE inbound

Kept_Down(p) ==                    \* mutant: the entry stays
    /\ up /\ mon[p].state = "dead"
    /\ Returned(p)
    /\ mon' = [mon EXCEPT ![p] = NoMonitor]
    /\ UNCHANGED <<up, base, trunks_in_use, clamped, lost, confs, cdrs, world, money>>

Down(p) ==
    /\ up /\ mon[p].state = "dead"
    /\ Returned(p)
    /\ trunks_in_use' = [c \in Calls |-> IF trunks_in_use[c] = p THEN None
                                         ELSE trunks_in_use[c]]
    /\ mon' = [mon EXCEPT ![p] = NoMonitor]
    /\ UNCHANGED <<up, base, clamped, lost, confs, cdrs, world, money>>

Full_Recount(d) ==                 \* mutant: the calls in progress are not taken off
    /\ base' = d
    /\ two_way' = d.two_way
    /\ inbound' = d.inbound

(* The counts are made anew from the calls whose monitors are alive. *)
Recount(d) ==
    /\ base' = d
    /\ two_way' = d.two_way - Cardinality(InUse("twoway"))
    /\ inbound' = d.inbound - Cardinality(InUse("inbound"))

(* The document was edited. *)
ConfChange(d) ==
    /\ up /\ d \in confs
    /\ confs' = confs \ {d}
    /\ Recount(d)
    /\ trunks_in_use' = [c \in Calls |-> IF trunks_in_use[c] # None /\ Alive(trunks_in_use[c])
                                         THEN trunks_in_use[c] ELSE None]
    /\ clamped' = FALSE /\ lost' = FALSE
    /\ UNCHANGED <<up, mon, cdrs, world, money>>

(* The database does not answer a synchronisation, a message is about the  *)
(* document of another account, or the account's document is deleted.      *)
Crash == up /\ Dies

-----------------------------------------------------------------------------
(* The monitors.                                                           *)

Quiet_Ends(p) ==                   \* mutant: the manager does not watch it
    /\ mon' = [mon EXCEPT ![p] = NoMonitor]
    /\ cdrs' = cdrs \ {p}

(* A monitor ends; the manager that watches it is told. *)
Ends(p) ==
    /\ mon' = [mon EXCEPT ![p] = IF mon[p].watched
                                 THEN [mon[p] EXCEPT !.state = "dead", !.won = FALSE]
                                 ELSE NoMonitor]
    /\ cdrs' = cdrs \ {p}

(* The CDR of the call. The monitor that has won settles the ledger and    *)
(* ends (it ends as well when its transaction is refused).                 *)
CdrWon(p) ==
    /\ p \in cdrs /\ mon[p].state = "run" /\ mon[p].won
    /\ Write(mon[p].call, "end",
             IF mon[p].type = "per_min" THEN Cost - Charge ELSE 0)
    /\ Ends(p)
    /\ UNCHANGED <<up, trunks, confs, world>>

Waiting_CdrNotWon(p) ==            \* mutant: nothing is started to end the wait
    /\ p \in cdrs /\ mon[p].state = "run" /\ ~mon[p].won
    /\ cdrs' = cdrs \ {p}
    /\ UNCHANGED <<up, trunks, mon, confs, world, money>>

(* Another waits to see whether that is done. *)
CdrNotWon(p) ==
    /\ p \in cdrs /\ mon[p].state = "run" /\ ~mon[p].won
    /\ cdrs' = cdrs \ {p}
    /\ mon' = [mon EXCEPT ![p].state = "check"]
    /\ UNCHANGED <<up, trunks, confs, world, money>>

(* It writes a credit of nothing, without looking, and ends. *)
CheckLedger(p) ==
    /\ mon[p].state = "check"
    /\ Write(mon[p].call, "end", 0)
    /\ Ends(p)
    /\ UNCHANGED <<up, trunks, confs, world>>

MonitorCrash(p) ==
    /\ Alive(p)
    /\ Ends(p)
    /\ UNCHANGED <<up, trunks, confs, world, money>>

-----------------------------------------------------------------------------
(* The administrator, the switch and the broker.                           *)

Edit(d) ==
    /\ d # doc /\ edits < MaxEdits
    /\ edits' = edits + 1
    /\ doc' = d
    /\ confs' = IF up THEN confs \cup {d} ELSE confs
    /\ UNCHANGED <<up, trunks, mon, cdrs, over, money>>

(* The call ends, and its CDR reaches the monitors that are bound to it,   *)
(* or is lost.                                                             *)
Hangup(c) ==
    /\ c \notin over
    /\ over' = over \cup {c}
    /\ \E heard \in {{}, {p \in Pids : Alive(p) /\ mon[p].call = c}} :
          cdrs' = cdrs \cup heard
    /\ UNCHANGED <<up, trunks, mon, confs, doc, edits, money>>

Next ==
    \/ Start \/ Crash
    \/ \E tried \in Orders : AuthzRefused(tried) \/ AuthzOnNoPrepay(tried)
    \/ \E c \in Calls : Authz(c) \/ AuthzWin(c) \/ Hangup(c)
    \/ \E p \in Pids : Down(p) \/ CdrWon(p) \/ CdrNotWon(p) \/ CheckLedger(p) \/ MonitorCrash(p)
    \/ \E d \in Limits : ConfChange(d) \/ Edit(d)

Spec == Init /\ [][Next]_vars

(* Processes are scheduled and the timer of check_ledger runs. *)
FairSpec ==
    /\ Spec
    /\ \A p \in Pids : /\ WF_vars(CdrWon(p) \/ CdrNotWon(p))
                       /\ WF_vars(CheckLedger(p))
                       /\ WF_vars(Down(p))

-----------------------------------------------------------------------------
(* Types, and what the entries of trunks_in_use are: the monitors the      *)
(* manager watches, each under the call it is bound to.                    *)
TypeOK ==
    /\ up \in BOOLEAN
    /\ base \in [two_way : Nat, inbound : Nat]
    /\ two_way \in Int /\ inbound \in Int
    /\ mon \in [Pids -> [call : Calls, type : CallTypes, won : BOOLEAN, watched : BOOLEAN,
                         state : {"none", "run", "check", "dead"}]]
    /\ trunks_in_use \in [Calls -> Pids \cup {None}]
    /\ \A c \in Calls : trunks_in_use[c] # None =>
          mon[trunks_in_use[c]].call = c /\ mon[trunks_in_use[c]].watched
    /\ cdrs \subseteq Pids
    /\ doc \in Limits /\ confs \subseteq Limits
    /\ over \subseteq Calls /\ edits \in Nat
    /\ ledger \subseteq {"start", "end"} /\ charged \in Int
    /\ clamped \in BOOLEAN /\ lost \in BOOLEAN

(* No two-way trunk is lost or made: those available and those the manager *)
(* believes in use add up to the limit it counted from (try_twoway, the    *)
(* 'DOWN' of a monitor and the recount of an edited document; calls that   *)
(* end while the document is changed or that are asked about twice). Two   *)
(* behaviours of the code are excepted: an attempt on a negative count     *)
(* (clamped), and a second authorization of a call that holds a trunk, for *)
(* which the first is never given back (lost).                             *)
TrunksAddUp ==
    up /\ ~clamped /\ ~lost => two_way + Cardinality(Held("twoway")) = base.two_way

(* Every call the manager counts has a monitor that is alive, or whose     *)
(* 'DOWN' the manager will get: whatever way a monitor ends, and however   *)
(* often the call was asked about, its trunk is not held for ever.         *)
EntriesAnswered ==
    \A c \in Calls : trunks_in_use[c] # None => mon[trunks_in_use[c]].state # "none"

(* No authorization takes the calls on two-way trunks above the limit the  *)
(* manager counted from last, whatever ended, was edited, retried or       *)
(* failed before; an attempt on a negative count (clamped) is excepted.    *)
NeverAboveTwoWay ==
    [][ ~clamped /\ ~(InUse("twoway")' \subseteq InUse("twoway"))
          => Cardinality(InUse("twoway")') <= base'.two_way ]_vars

(* A call is charged its cost, and the charge made in advance when that is *)
(* more, however many monitors and managers took part in it: the ledger's  *)
(* ids make the second transaction of an event a conflict.                 *)
NeverOvercharged ==
    charged <= IF Billed \in over /\ Cost > Charge THEN Cost ELSE Charge

(* A monitor that is sent the CDR of its call ends, and the manager gives  *)
(* back what the call held.                                                *)
EndedCallsLeave ==
    \A p \in Pids : p \in cdrs ~> \A c \in Calls : trunks_in_use[c] # p
=============================================================================
