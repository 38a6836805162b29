----------------------------- MODULE ParkedCalls -----------------------------
(***************************************************************************)
(* Parked calls (cf_park.erl).  The calls parked in an account are kept in *)
(* one CouchDB document, from slot numbers to call ids, which the modules  *)
(* of all calls read, change and save on their own: to park their call, to *)
(* retrieve the one of a slot, or to put the id of a completed attended    *)
(* transfer in the place of the id it replaces.                            *)
(*                                                                         *)
(* A save of an old revision is a conflict; the module then opens the      *)
(* document again and saves its change to that, until it succeeds.  A slot *)
(* that was retrieved, or whose call has hung up, stays as it is.          *)
(*                                                                         *)
(* A module asks for the switch of its own call, and of the call it would  *)
(* retrieve, and waits a second for any channel_status_resp; so when the   *)
(* first answer is late the second request takes it for its own.           *)
(*                                                                         *)
(* A call runs the module once and keeps its id.  What is played to it,    *)
(* put on hold or redirected is left out.                                  *)
(***************************************************************************)
EXTENDS Naturals

CONSTANTS
  Calls,
  Switch,       \* the switch a call is on
  NoSwitch,     \* no answer in time
  Actions,      \* how the module may be reached, see Dial
  First,        \* the first number given automatically: 100
  Dialled,      \* slot numbers that are dialled
  NoSlot        \* no number was dialled (capture_group undefined)

ASSUME ParkAssumption ==
  /\ First \in Nat /\ Dialled \subseteq Nat /\ NoSlot \notin Nat
  /\ NoSwitch \notin {Switch[c] : c \in Calls}
  /\ Actions \subseteq {"park", "retrieve", "auto", "attended"}

VARIABLES
  doc,          \* the document parked_calls; revision 0 is none
  pc,           \* what the module of a call does next, or what came of it
  dialled,      \* how a call reached its module
  local         \* the variables of the module

vars == <<doc, pc, dialled, local>>

NoDoc == [rev |-> 0, slots |-> [s \in {} |-> s]]
NoCall(c) == [action |-> "none", number |-> NoSlot, replaces |-> c]
NoLocals == [copy |-> NoDoc, slot |-> NoSlot, host |-> NoSwitch]

Init ==
  /\ doc = NoDoc
  /\ pc = [c \in Calls |-> "idle"]
  /\ dialled = [c \in Calls |-> NoCall(c)]
  /\ local = [c \in Calls |-> NoLocals]

Outcomes == {"parked", "updated", "picked_up", "redirected", "nobody", "failed"}
Running(c) == pc[c] \notin {"idle"} \cup Outcomes
Goto(c, step) == pc' = [pc EXCEPT ![c] = step]
\* A call that was parked remembers where, for AutomaticSlotsDiffer.
End(c, outcome) ==
  /\ Goto(c, outcome)
  /\ IF outcome = "parked"
     THEN local' = [local EXCEPT ![c].copy = NoDoc, ![c].host = NoSwitch] /\ UNCHANGED dialled
     ELSE local' = [local EXCEPT ![c] = NoLocals] /\ dialled' = [dialled EXCEPT ![c] = NoCall(c)]

-----------------------------------------------------------------------------
(* The slots.                                                              *)

\* The number dialled, or else the least free one that is at most one above the
\* greatest in use.  When that is below First there is none.
SlotNumber(slots, number) ==
  LET used == DOMAIN slots
      free == IF used = {} THEN {First} ELSE UNION {First..(n + 1) : n \in used} \ used IN
  IF number # NoSlot THEN {number} ELSE {n \in free : \A m \in free : n <= m}

Stored(slots, s, c) == [x \in DOMAIN slots \cup {s} |-> IF x = s THEN c ELSE slots[x]]
Replaced(slots, old, c) == [x \in DOMAIN slots |-> IF slots[x] = old THEN c ELSE slots[x]]

-----------------------------------------------------------------------------
(* The module of call c.                                                   *)

\* A call parks its caller (also one transferred blindly), retrieves, does what
\* there is to do, or completes an attended transfer and replaces a call.
Dial(c) ==
  /\ pc[c] = "idle"
  /\ \E a \in Actions, n \in Dialled \cup {NoSlot}, old \in Calls :
       /\ a = "attended" <=> old # c
       /\ dialled' = [dialled EXCEPT ![c] = [action |-> a, number |-> n, replaces |-> old]]
  /\ Goto(c, "open")
  /\ UNCHANGED <<doc, local>>

Write(c) ==
  Goto(c, CASE dialled[c].action = "attended" -> "update" [] OTHER -> "save")

\* handle/2 up to what it was called for; the automatic number may not exist.
Open(c) ==
  LET numbers == SlotNumber(doc.slots, dialled[c].number)
      Opened(host) == \E s \in numbers :
        local' = [local EXCEPT ![c] = [copy |-> doc, slot |-> s, host |-> host]] IN
  /\ pc[c] = "open"
  /\ \/ /\ dialled[c].action \in {"retrieve", "auto"}
        /\ Opened(Switch[c]) \/ Opened(NoSwitch)
        /\ Goto(c, "retrieve") /\ UNCHANGED dialled
     \/ /\ dialled[c].action \in {"park", "attended"}
        /\ Opened(NoSwitch) /\ Write(c) /\ UNCHANGED dialled
     \/ numbers = {} /\ End(c, "failed")
  /\ UNCHANGED doc

\* What the module takes for the switch of a call: the answer, none in time, or
\* the late answer about its own call.
Answers(c, parked) ==
  {NoSwitch, Switch[parked]} \cup (IF local[c].host = NoSwitch THEN {Switch[c]} ELSE {})

Retrieve(c) ==
  LET l == local[c]
      found == IF l.slot \in DOMAIN l.copy.slots THEN Answers(c, l.copy.slots[l.slot])
                                                ELSE {NoSwitch} IN
  /\ pc[c] = "retrieve"
  /\ \/ /\ NoSwitch \in found /\ dialled[c].action = "auto"
        /\ Goto(c, "save") /\ UNCHANGED <<dialled, local>>
     \/ NoSwitch \in found /\ dialled[c].action = "retrieve" /\ End(c, "nobody")
     \/ l.host \in found \ {NoSwitch} /\ End(c, "picked_up")
     \/ found \ {l.host, NoSwitch} # {} /\ End(c, "redirected")
  /\ UNCHANGED doc

\* Mutant: the document is saved whatever its revision.
Forced_SaveOr(c, slots, outcome) ==
  doc' = [rev |-> doc.rev + 1, slots |-> slots] /\ End(c, outcome)

\* couch_mgr:save_doc of the copy with other slots.
SaveOr(c, slots, outcome) ==
  IF local[c].copy.rev = doc.rev
  THEN doc' = [rev |-> doc.rev + 1, slots |-> slots] /\ End(c, outcome)
  ELSE Goto(c, "again") /\ UNCHANGED <<doc, dialled, local>>

\* save_slot/4, which keeps the number when it tries again.
SaveSlot(c) ==
  /\ pc[c] = "save"
  /\ SaveOr(c, Stored(local[c].copy.slots, local[c].slot, c), "parked")

UpdateCallId(c) ==
  /\ pc[c] = "update"
  /\ SaveOr(c, Replaced(local[c].copy.slots, dialled[c].replaces, c), "updated")

\* Mutant: what was not saved is saved again as it was.
Stale_OpenAgain(c) ==
  pc[c] = "again" /\ Write(c) /\ UNCHANGED <<doc, dialled, local>>

OpenAgain(c) ==
  /\ pc[c] = "again" /\ Write(c)
  /\ local' = [local EXCEPT ![c].copy = doc]
  /\ UNCHANGED <<doc, dialled>>

\* The database fails otherwise, which no clause is for, or the executor of the
\* call ends, and its module with it.
Fail(c) == Running(c) /\ End(c, "failed") /\ UNCHANGED doc

Step(c) ==
  \/ Open(c) \/ Retrieve(c) \/ SaveSlot(c) \/ UpdateCallId(c) \/ OpenAgain(c)

Next == \E c \in Calls : Dial(c) \/ Step(c) \/ Fail(c)

Spec == Init /\ [][Next]_vars

\* A module that was started is run.
FairSpec == Spec /\ \A c \in Calls : WF_vars(Step(c))

-----------------------------------------------------------------------------
(* Properties.                                                             *)

Doc(d) ==
  /\ d = [rev |-> d.rev, slots |-> d.slots] /\ d.rev \in Nat
  /\ d.slots = [s \in DOMAIN d.slots |-> d.slots[s]] /\ DOMAIN d.slots \subseteq Nat
  /\ \A s \in DOMAIN d.slots : d.slots[s] \in Calls

\* Types; keys are numbers, and a module that goes on has one.  Proved in
\* ParkedCallsProofs.
TypeOK ==
  /\ Doc(doc)
  /\ pc \in [Calls -> {"idle", "open", "retrieve", "save", "update", "again"}
                        \cup Outcomes]
  /\ dialled \in [Calls -> [action : Actions \cup {"none"},
                            number : Dialled \cup {NoSlot}, replaces : Calls]]
  /\ DOMAIN local = Calls
  /\ \A c \in Calls :
       LET l == local[c] IN
       /\ l = [copy |-> l.copy, slot |-> l.slot, host |-> l.host] /\ Doc(l.copy)
       /\ l.host \in {Switch[c], NoSwitch}
       /\ IF pc[c] \in {"retrieve", "save", "update", "again"}
          THEN l.slot \in Nat ELSE l.slot \in Nat \cup {NoSlot}

\* However many modules open and save the document in between, what each call
\* changes is changed at once and once: nothing another call stored is lost with
\* it, and an attended transfer finds the call it replaces wherever that has got
\* to (save_slot/4, update_call_id/3, cf_park.erl:189-227).
Lot == INSTANCE ParkingLot WITH
  slots <- doc.slots, stored <- {c \in Calls : pc[c] \in {"parked", "updated"}}
ImplementsLot == Lot!LotSpec

\* A module comes to its end, however often others save before it does
\* (cf_park.erl:194, 224).
ModulesEnd == \A c \in Calls : Running(c) ~> pc[c] \in Outcomes

\* "If, on save, it conflicts then it gets the new instance and tries again,
\* determining the new slot" (cf_park.erl:185-186): calls parked without a number
\* are in slots of their own.
AutomaticSlotsDiffer ==
  \A c, d \in Calls :
    /\ c # d /\ pc[c] = "parked" /\ pc[d] = "parked"
    /\ dialled[c].number = NoSlot /\ dialled[d].number = NoSlot
    => local[c].slot # local[d].slot
=============================================================================
