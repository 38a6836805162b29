-------------------------- MODULE ParkedCallsProofs --------------------------
(***************************************************************************)
(* Proofs about ParkedCalls: its types, and that the document the modules  *)
(* open and save implements ParkingLot.                                    *)
(***************************************************************************)
EXTENDS ParkedCalls, TLAPS

\* The steps at which a module has a copy of the document.
CopySteps == {"retrieve", "save", "update", "again"}

\* A copy is of a revision there was, and of the present one only when nobody
\* saved since.
CopiesAreOld ==
  \A c \in Calls :
    /\ local[c].copy.rev <= doc.rev
    /\ pc[c] \in CopySteps /\ local[c].copy.rev = doc.rev => local[c].copy = doc

IInv == TypeOK /\ CopiesAreOld

\* The variables of a module, as TypeOK has them.
Local(c, l) ==
  /\ l = [copy |-> l.copy, slot |-> l.slot, host |-> l.host] /\ Doc(l.copy)
  /\ l.host \in {Switch[c], NoSwitch} /\ l.slot \in Nat \cup {NoSlot}

\* A number dialled or given is a natural number.
LEMMA NumbersAreNaturals ==
  ASSUME NEW slots, DOMAIN slots \subseteq Nat, NEW number \in Dialled \cup {NoSlot}
  PROVE  SlotNumber(slots, number) \subseteq Nat
BY ParkAssumption DEF SlotNumber

LEMMA Docs ==
  ASSUME NEW r \in Nat, NEW f, f = [s \in DOMAIN f |-> f[s]], DOMAIN f \subseteq Nat,
         \A s \in DOMAIN f : f[s] \in Calls
  PROVE  Doc([rev |-> r, slots |-> f])
<1> DEFINE d == [rev |-> r, slots |-> f]
<1>1. d = [rev |-> d.rev, slots |-> d.slots] /\ d.rev = r /\ d.slots = f
  OBVIOUS
<1> HIDE DEF d
<1>2. Doc(d)
  BY <1>1 DEF Doc
<1>. QED
  BY <1>2 DEF d

LEMMA EmptyDoc == Doc(NoDoc) /\ NoDoc.rev = 0
BY DEF Doc, NoDoc

\* Saving with one slot changed, or one call replaced, makes a document.
LEMMA ChangesAreDocs ==
  ASSUME NEW d, Doc(d), NEW c \in Calls
  PROVE  /\ \A s \in Nat : Doc([rev |-> d.rev + 1, slots |-> Stored(d.slots, s, c)])
         /\ \A old : Doc([rev |-> d.rev + 1, slots |-> Replaced(d.slots, old, c)])
<1>1. /\ d.rev + 1 \in Nat /\ DOMAIN d.slots \subseteq Nat
      /\ \A s \in DOMAIN d.slots : d.slots[s] \in Calls
  BY DEF Doc
<1>2. ASSUME NEW s \in Nat
      PROVE  Doc([rev |-> d.rev + 1, slots |-> Stored(d.slots, s, c)])
  <2> DEFINE f == Stored(d.slots, s, c)
             D == DOMAIN d.slots \cup {s}
  <2>1. f = [x \in D |-> IF x = s THEN c ELSE d.slots[x]]
    BY DEF Stored
  <2>2. DOMAIN f = D /\ f = [x \in DOMAIN f |-> f[x]] /\ \A x \in D : f[x] \in Calls
    BY <2>1, <1>1
  <2>3. DOMAIN f \subseteq Nat /\ \A x \in DOMAIN f : f[x] \in Calls
    BY <2>2, <1>1
  <2>4. f = [x \in DOMAIN f |-> f[x]]
    BY <2>2
  <2> SUFFICES Doc([rev |-> d.rev + 1, slots |-> f])
    OBVIOUS
  <2> HIDE DEF f
  <2>. QED
    BY <2>3, <2>4, <1>1, Docs
<1>3. ASSUME NEW old
      PROVE  Doc([rev |-> d.rev + 1, slots |-> Replaced(d.slots, old, c)])
  <2> DEFINE f == Replaced(d.slots, old, c)
             D == DOMAIN d.slots
  <2>1. f = [x \in D |-> IF d.slots[x] = old THEN c ELSE d.slots[x]]
    BY DEF Replaced
  <2>2. DOMAIN f = D /\ f = [x \in DOMAIN f |-> f[x]] /\ \A x \in D : f[x] \in Calls
    BY <2>1, <1>1
  <2>3. DOMAIN f \subseteq Nat /\ \A x \in DOMAIN f : f[x] \in Calls
    BY <2>2, <1>1
  <2>4. f = [x \in DOMAIN f |-> f[x]]
    BY <2>2
  <2> SUFFICES Doc([rev |-> d.rev + 1, slots |-> f])
    OBVIOUS
  <2> HIDE DEF f
  <2>. QED
    BY <2>3, <2>4, <1>1, Docs
<1>. QED
  BY <1>2, <1>3

-----------------------------------------------------------------------------
LEMMA InitIInv == Init => IInv
<1> SUFFICES ASSUME Init PROVE IInv
  OBVIOUS
<1>1. \A c \in Calls : local[c] = NoLocals /\ pc[c] = "idle"
  BY DEF Init
<1>2. TypeOK
  BY <1>1, EmptyDoc DEF Init, TypeOK, NoLocals, NoCall
<1>3. CopiesAreOld
  <2>1. doc = NoDoc /\ doc.rev = 0 /\ \A c \in Calls : local[c].copy = NoDoc
    BY <1>1, EmptyDoc DEF Init, NoLocals
  <2>2. \A c \in Calls : local[c].copy.rev = 0
    BY <2>1, EmptyDoc
  <2>3. ASSUME NEW c \in Calls
        PROVE  local[c].copy.rev <= doc.rev /\ local[c].copy = doc
    <3>1. local[c].copy.rev = 0 /\ doc.rev = 0
      BY <2>1, <2>2
    <3>. QED
      BY <2>1, <3>1
  <2>. QED
    BY <2>3 DEF CopiesAreOld
<1>. QED
  BY <1>2, <1>3 DEF IInv

\* What a step of call c leaves of the types, when it leaves the others alone.
LEMMA OneCallSteps ==
  ASSUME IInv, NEW c \in Calls,
         Doc(doc'), doc'.rev >= doc.rev, doc'.rev = doc.rev => doc' = doc,
         DOMAIN local' = Calls, Local(c, local'[c]),
         \A d \in Calls \ {c} : local'[d] = local[d] /\ pc'[d] = pc[d],
         pc' \in [Calls -> {"idle", "open", "retrieve", "save", "update", "again"} \cup Outcomes],
         pc'[c] \in CopySteps => local'[c].slot \in Nat,
         local'[c].copy.rev <= doc'.rev,
         pc'[c] \in CopySteps /\ local'[c].copy.rev = doc'.rev => local'[c].copy = doc',
         dialled' \in [Calls -> [action : Actions \cup {"none"},
                                 number : Dialled \cup {NoSlot}, replaces : Calls]]
  PROVE  IInv'
<1>1. TypeOK'
  BY DEF IInv, TypeOK, Local, CopySteps
<1>2. \A d \in Calls : local[d].copy.rev \in Nat
  BY DEF IInv, TypeOK, Doc
<1>3. doc.rev \in Nat /\ doc'.rev \in Nat
  BY DEF IInv, TypeOK, Doc
<1>4. ASSUME NEW d \in Calls
      PROVE  /\ local'[d].copy.rev <= doc'.rev
             /\ pc'[d] \in CopySteps /\ local'[d].copy.rev = doc'.rev => local'[d].copy = doc'
  <2>1. CASE d = c
    BY <2>1
  <2>2. CASE d # c
    BY <2>2, <1>2, <1>3 DEF IInv, CopiesAreOld
  <2>. QED
    BY <2>1, <2>2
<1>. QED
  BY <1>1, <1>4 DEF IInv, CopiesAreOld

\* Another step, and the same variables of the others.
LEMMA GotoEffect ==
  ASSUME IInv, NEW c \in Calls, NEW step, Goto(c, step),
         step \in {"idle", "open", "retrieve", "save", "update", "again"} \cup Outcomes
  PROVE  /\ pc' \in [Calls -> {"idle", "open", "retrieve", "save", "update", "again"} \cup Outcomes]
         /\ pc'[c] = step /\ \A d \in Calls \ {c} : pc'[d] = pc[d]
BY DEF IInv, TypeOK, Goto

LEMMA EndEffect ==
  ASSUME IInv, NEW c \in Calls, NEW outcome \in Outcomes, End(c, outcome)
  PROVE  /\ pc' \in [Calls -> {"idle", "open", "retrieve", "save", "update", "again"} \cup Outcomes]
         /\ pc'[c] = outcome
         /\ DOMAIN local' = Calls /\ Local(c, local'[c]) /\ local'[c].copy = NoDoc
         /\ \A d \in Calls \ {c} : local'[d] = local[d] /\ pc'[d] = pc[d]
         /\ dialled' \in [Calls -> [action : Actions \cup {"none"},
                                    number : Dialled \cup {NoSlot}, replaces : Calls]]
<1>1. Goto(c, outcome)
  BY DEF End
<1>2. /\ DOMAIN local = Calls
      /\ dialled \in [Calls -> [action : Actions \cup {"none"},
                                number : Dialled \cup {NoSlot}, replaces : Calls]]
  BY DEF IInv, TypeOK
<1>3. local[c] = [copy |-> local[c].copy, slot |-> local[c].slot, host |-> local[c].host]
      /\ local[c].slot \in Nat \cup {NoSlot}
  BY DEF IInv, TypeOK
<1>4. NoCall(c) \in [action : Actions \cup {"none"},
                     number : Dialled \cup {NoSlot}, replaces : Calls]
  BY DEF NoCall
<1>5. \/ local' = [local EXCEPT ![c].copy = NoDoc, ![c].host = NoSwitch] /\ dialled' = dialled
      \/ local' = [local EXCEPT ![c] = NoLocals] /\ dialled' = [dialled EXCEPT ![c] = NoCall(c)]
  BY DEF End
<1>6. /\ DOMAIN local' = Calls /\ \A d \in Calls \ {c} : local'[d] = local[d]
      /\ dialled' \in [Calls -> [action : Actions \cup {"none"},
                                 number : Dialled \cup {NoSlot}, replaces : Calls]]
  BY <1>2, <1>4, <1>5
<1>7. \/ local'[c] = [copy |-> NoDoc, slot |-> local[c].slot, host |-> NoSwitch]
      \/ local'[c] = NoLocals
  BY <1>2, <1>3, <1>5
<1>8. Local(c, local'[c]) /\ local'[c].copy = NoDoc
  BY <1>3, <1>7, EmptyDoc DEF Local, NoLocals
<1>. QED
  BY <1>1, <1>6, <1>8, GotoEffect

\* A module that ends, with the document as it is or saved once more.
LEMMA EndsIInv ==
  ASSUME IInv, NEW c \in Calls, NEW outcome \in Outcomes, End(c, outcome),
         Doc(doc'), doc'.rev >= doc.rev, doc'.rev = doc.rev => doc' = doc
  PROVE  IInv'
<1>1. doc'.rev \in Nat /\ NoDoc.rev = 0
  BY EmptyDoc DEF Doc
<1>2. outcome \notin CopySteps
  BY DEF Outcomes, CopySteps
<1>3. local'[c].copy.rev = 0 /\ local'[c].copy.rev <= doc'.rev
  BY <1>1, EndEffect
<1>. QED
  BY <1>2, <1>3, EndEffect, OneCallSteps

\* A module that goes on, with the document as it is.
LEMMA GoesOnIInv ==
  ASSUME IInv, NEW c \in Calls, NEW step \in {"open", "retrieve", "save", "update", "again"},
         Goto(c, step), UNCHANGED doc,
         DOMAIN local' = Calls, \A d \in Calls \ {c} : local'[d] = local[d],
         Local(c, local'[c]), step # "open" => local'[c].slot \in Nat,
         \/ local'[c].copy = doc
         \/ local'[c].copy = local[c].copy /\ (step # "open" => pc[c] \in CopySteps),
         dialled' \in [Calls -> [action : Actions \cup {"none"},
                                 number : Dialled \cup {NoSlot}, replaces : Calls]]
  PROVE  IInv'
<1>1. Doc(doc) /\ doc.rev \in Nat
  BY DEF IInv, TypeOK, Doc
<1>2. doc.rev <= doc.rev
  BY <1>1
<1>3. /\ pc' \in [Calls -> {"idle", "open", "retrieve", "save", "update", "again"} \cup Outcomes]
      /\ pc'[c] = step /\ \A d \in Calls \ {c} : pc'[d] = pc[d]
  BY GotoEffect
<1>4. /\ local'[c].copy.rev <= doc.rev
      /\ pc'[c] \in CopySteps /\ local'[c].copy.rev = doc.rev => local'[c].copy = doc
  BY <1>2, <1>3 DEF IInv, CopiesAreOld, CopySteps
<1>5. pc'[c] \in CopySteps => local'[c].slot \in Nat
  BY <1>3 DEF CopySteps
<1>6. Doc(doc') /\ doc'.rev >= doc.rev /\ doc' = doc
  BY <1>1, <1>2
<1>. QED
  BY <1>3, <1>4, <1>5, <1>6, OneCallSteps

-----------------------------------------------------------------------------
\* What the variables of call c are before a step.
LEMMA Before ==
  ASSUME IInv, NEW c \in Calls
  PROVE  /\ Local(c, local[c]) /\ DOMAIN local = Calls /\ Doc(doc)
         /\ dialled \in [Calls -> [action : Actions \cup {"none"},
                                   number : Dialled \cup {NoSlot}, replaces : Calls]]
         /\ pc[c] \in CopySteps => local[c].slot \in Nat
BY DEF IInv, TypeOK, Local, CopySteps

LEMMA DialIInv == ASSUME IInv, NEW c \in Calls, Dial(c) PROVE IInv'
<1>1. PICK a \in Actions, n \in Dialled \cup {NoSlot}, old \in Calls :
        dialled' = [dialled EXCEPT ![c] = [action |-> a, number |-> n, replaces |-> old]]
  BY DEF Dial
<1>2. dialled' \in [Calls -> [action : Actions \cup {"none"},
                              number : Dialled \cup {NoSlot}, replaces : Calls]]
  BY <1>1, Before
<1>3. Goto(c, "open") /\ UNCHANGED <<doc, local>>
  BY DEF Dial
<1>. QED
  BY <1>2, <1>3, Before, GoesOnIInv

\* Where Write goes.
LEMMA WriteStep ==
  ASSUME NEW c, Write(c)
  PROVE  Goto(c, "save") \/ Goto(c, "update")
BY DEF Write

LEMMA OpenIInv == ASSUME IInv, NEW c \in Calls, Open(c) PROVE IInv'
<1> DEFINE numbers == SlotNumber(doc.slots, dialled[c].number)
<1>1. UNCHANGED doc /\ Doc(doc) /\ DOMAIN doc.slots \subseteq Nat
  BY Before DEF Open, Doc
<1>2. dialled[c].number \in Dialled \cup {NoSlot}
  BY Before
<1>3. numbers \subseteq Nat
  BY <1>1, <1>2, NumbersAreNaturals
<1>4. ASSUME NEW step \in {"retrieve", "save", "update"}, Goto(c, step), UNCHANGED dialled,
             NEW s \in numbers, NEW host \in {Switch[c], NoSwitch},
             local' = [local EXCEPT ![c] = [copy |-> doc, slot |-> s, host |-> host]]
      PROVE  IInv'
  <2>1. /\ local'[c] = [copy |-> doc, slot |-> s, host |-> host] /\ DOMAIN local' = Calls
        /\ \A d \in Calls \ {c} : local'[d] = local[d]
    BY <1>4, Before
  <2>2. s \in Nat
    BY <1>3
  <2>3. Local(c, local'[c]) /\ local'[c].slot \in Nat /\ local'[c].copy = doc
    BY <1>1, <2>1, <2>2 DEF Local
  <2>4. dialled' \in [Calls -> [action : Actions \cup {"none"},
                                number : Dialled \cup {NoSlot}, replaces : Calls]]
    BY <1>4, Before
  <2>. QED
    BY <1>1, <1>4, <2>1, <2>3, <2>4, GoesOnIInv
<1>5. CASE numbers = {} /\ End(c, "failed")
  <2>1. doc.rev \in Nat
    BY <1>1 DEF Doc
  <2>. QED
    BY <1>1, <1>5, <2>1, EndsIInv DEF Outcomes
<1>6. CASE /\ UNCHANGED dialled
           /\ \E step \in {"retrieve", "save", "update"} : Goto(c, step)
           /\ \E s \in numbers, host \in {Switch[c], NoSwitch} :
                local' = [local EXCEPT ![c] = [copy |-> doc, slot |-> s, host |-> host]]
  BY <1>4, <1>6
<1>. QED
  BY <1>5, <1>6, WriteStep DEF Open

LEMMA RetrieveIInv == ASSUME IInv, NEW c \in Calls, Retrieve(c) PROVE IInv'
<1>1. UNCHANGED doc /\ Doc(doc) /\ doc.rev \in Nat /\ pc[c] = "retrieve"
  BY Before DEF Retrieve, Doc
<1>2. CASE Goto(c, "save") /\ UNCHANGED <<dialled, local>>
  BY <1>1, <1>2, Before, GoesOnIInv DEF CopySteps
<1>3. CASE \E outcome \in Outcomes : End(c, outcome)
  BY <1>1, <1>3, EndsIInv
<1>. QED
  BY <1>2, <1>3 DEF Retrieve, Outcomes

\* A save is refused, or the copy was the document: one revision more, with the
\* slots the module made of it.
LEMMA Saves ==
  ASSUME IInv, NEW c \in Calls, NEW slots, NEW outcome \in Outcomes, SaveOr(c, slots, outcome),
         pc[c] \in {"save", "update"},
         Doc([rev |-> local[c].copy.rev + 1, slots |-> slots])
  PROVE  /\ IInv'
         /\ \/ UNCHANGED doc /\ pc'[c] = "again"
            \/ /\ local[c].copy = doc /\ pc'[c] = outcome
               /\ doc' = [rev |-> doc.rev + 1, slots |-> slots]
         /\ \A d \in Calls \ {c} : pc'[d] = pc[d]
<1>1. doc.rev \in Nat /\ Doc(doc)
  BY Before DEF Doc
<1>2. CASE local[c].copy.rev = doc.rev
  <2>1. doc' = [rev |-> doc.rev + 1, slots |-> slots] /\ End(c, outcome)
    BY <1>2 DEF SaveOr
  <2>2. local[c].copy = doc
    BY <1>2 DEF IInv, CopiesAreOld, CopySteps
  <2>3. Doc(doc') /\ doc'.rev = doc.rev + 1
    BY <1>2, <2>1
  <2>4. IInv'
    BY <1>1, <2>1, <2>3, EndsIInv
  <2>. QED
    BY <2>1, <2>2, <2>4, EndEffect
<1>3. CASE local[c].copy.rev # doc.rev
  <2>1. Goto(c, "again") /\ UNCHANGED <<doc, dialled, local>>
    BY <1>3 DEF SaveOr
  <2>2. IInv'
    BY <2>1, Before, GoesOnIInv DEF CopySteps
  <2>. QED
    BY <2>1, <2>2, GotoEffect
<1>. QED
  BY <1>2, <1>3

\* What a save of each kind does to the document.
LEMMA SaveSlotEffect ==
  ASSUME IInv, NEW c \in Calls, SaveSlot(c)
  PROVE  /\ IInv'
         /\ \/ UNCHANGED doc /\ pc'[c] = "again"
            \/ /\ pc'[c] = "parked" /\ local[c].slot \in Nat
               /\ doc' = [rev |-> doc.rev + 1, slots |-> Stored(doc.slots, local[c].slot, c)]
         /\ \A d \in Calls \ {c} : pc'[d] = pc[d]
<1> DEFINE slots == Stored(local[c].copy.slots, local[c].slot, c)
<1>1. pc[c] = "save" /\ SaveOr(c, slots, "parked")
  BY DEF SaveSlot
<1>2. Doc(local[c].copy) /\ local[c].slot \in Nat
  BY <1>1, Before DEF Local, CopySteps
<1>3. Doc([rev |-> local[c].copy.rev + 1, slots |-> slots])
  BY <1>2, ChangesAreDocs
<1>. QED
  BY <1>1, <1>2, <1>3, Saves DEF Outcomes

LEMMA UpdateCallIdEffect ==
  ASSUME IInv, NEW c \in Calls, UpdateCallId(c)
  PROVE  /\ IInv'
         /\ \/ UNCHANGED doc /\ pc'[c] = "again"
            \/ /\ pc'[c] = "updated"
               /\ doc' = [rev |-> doc.rev + 1,
                          slots |-> Replaced(doc.slots, dialled[c].replaces, c)]
         /\ \A d \in Calls \ {c} : pc'[d] = pc[d]
<1> DEFINE slots == Replaced(local[c].copy.slots, dialled[c].replaces, c)
<1>1. pc[c] = "update" /\ SaveOr(c, slots, "updated")
  BY DEF UpdateCallId
<1>2. Doc(local[c].copy)
  BY <1>1, Before DEF Local
<1>3. Doc([rev |-> local[c].copy.rev + 1, slots |-> slots])
  BY <1>2, ChangesAreDocs
<1>. QED
  BY <1>1, <1>3, Saves DEF Outcomes

LEMMA OpenAgainIInv == ASSUME IInv, NEW c \in Calls, OpenAgain(c) PROVE IInv'
<1>1. /\ UNCHANGED <<doc, dialled>> /\ pc[c] = "again"
      /\ local' = [local EXCEPT ![c].copy = doc] /\ Write(c)
  BY DEF OpenAgain
<1>2. /\ Local(c, local[c]) /\ DOMAIN local = Calls /\ Doc(doc) /\ local[c].slot \in Nat
  BY <1>1, Before DEF CopySteps
<1>3. /\ local'[c] = [copy |-> doc, slot |-> local[c].slot, host |-> local[c].host]
      /\ DOMAIN local' = Calls /\ \A d \in Calls \ {c} : local'[d] = local[d]
  BY <1>1, <1>2 DEF Local
<1>4. Local(c, local'[c]) /\ local'[c].slot \in Nat /\ local'[c].copy = doc
  BY <1>2, <1>3 DEF Local
<1>5. PICK step \in {"save", "update"} : Goto(c, step)
  BY <1>1, WriteStep
<1>. QED
  BY <1>1, <1>3, <1>4, <1>5, Before, GoesOnIInv

LEMMA FailIInv == ASSUME IInv, NEW c \in Calls, Fail(c) PROVE IInv'
<1>1. UNCHANGED doc /\ End(c, "failed")
  BY DEF Fail
<1>2. Doc(doc) /\ doc.rev \in Nat
  BY Before DEF Doc
<1>. QED
  BY <1>1, <1>2, EndsIInv DEF Outcomes

LEMMA NextIInv == ASSUME IInv, [Next]_vars PROVE IInv'
<1>1. CASE UNCHANGED vars
  BY <1>1 DEF vars, IInv, TypeOK, CopiesAreOld, Doc, Running
<1>2. ASSUME NEW c \in Calls, Dial(c) \/ Step(c) \/ Fail(c)
      PROVE  IInv'
  BY <1>2, DialIInv, OpenIInv, RetrieveIInv, SaveSlotEffect, UpdateCallIdEffect,
     OpenAgainIInv, FailIInv DEF Step
<1>. QED
  BY <1>1, <1>2 DEF Next

\* The types hold: a module that goes on has a slot number, the keys of the
\* document are numbers (cf_park.erl:167-179), and a copy of the present revision
\* is the document.
THEOREM IInvHolds == Spec => []IInv
<1>1. Init => IInv
  BY InitIInv
<1>2. IInv /\ [Next]_vars => IInv'
  BY NextIInv
<1>. QED
  BY <1>1, <1>2, PTL DEF Spec

\* The type invariant, for any calls, switches and numbers.
THEOREM TypesHold == Spec => []TypeOK
<1>1. IInv => TypeOK
  BY DEF IInv
<1>. QED
  BY <1>1, IInvHolds, PTL

-----------------------------------------------------------------------------
(* The refinement.                                                         *)

\* The calls that had their turn.
Had == {c \in Calls : pc[c] \in {"parked", "updated"}}

\* A step of call c that is no successful save leaves the lot as it is.
LEMMA OtherSteps ==
  ASSUME IInv, NEW c \in Calls, Dial(c) \/ Open(c) \/ Retrieve(c) \/ OpenAgain(c) \/ Fail(c)
  PROVE  doc' = doc /\ Had' = Had
<1>1. UNCHANGED doc /\ pc[c] \notin {"parked", "updated"}
  BY DEF Dial, Open, Retrieve, OpenAgain, Fail, Running, Outcomes
<1>2. \E step \in {"open", "retrieve", "save", "update", "picked_up", "redirected",
                   "nobody", "failed"} : Goto(c, step)
  BY WriteStep DEF Dial, Open, Retrieve, OpenAgain, Fail, End
<1>3. pc'[c] \notin {"parked", "updated"} /\ \A d \in Calls \ {c} : pc'[d] = pc[d]
  BY <1>2, GotoEffect DEF Outcomes
<1>. QED
  BY <1>1, <1>3 DEF Had

\* A save gives the call its turn, or is refused and leaves the lot as it is.
LEMMA SavesAreTurns ==
  ASSUME IInv, NEW c \in Calls, SaveSlot(c) \/ UpdateCallId(c)
  PROVE  \/ doc' = doc /\ Had' = Had
         \/ /\ c \in Calls \ Had /\ Had' = Had \cup {c}
            /\ \/ \E s \in DOMAIN doc'.slots : doc'.slots = Stored(doc.slots, s, c)
               \/ \E old \in Calls : doc'.slots = Replaced(doc.slots, old, c)
<1>1. pc[c] \in {"save", "update"} /\ c \notin Had
  BY DEF SaveSlot, UpdateCallId, Had
<1>2. \A d \in Calls \ {c} : pc'[d] = pc[d]
  BY SaveSlotEffect, UpdateCallIdEffect
<1>3. CASE doc' = doc /\ pc'[c] = "again"
  BY <1>1, <1>2, <1>3 DEF Had
<1>4. CASE /\ pc'[c] = "parked"
           /\ doc' = [rev |-> doc.rev + 1, slots |-> Stored(doc.slots, local[c].slot, c)]
  <2>1. Had' = Had \cup {c}
    BY <1>1, <1>2, <1>4 DEF Had
  <2>2. doc'.slots = Stored(doc.slots, local[c].slot, c) /\ local[c].slot \in DOMAIN doc'.slots
    BY <1>4 DEF Stored
  <2>. QED
    BY <1>1, <2>1, <2>2
<1>5. CASE /\ pc'[c] = "updated"
           /\ doc' = [rev |-> doc.rev + 1,
                      slots |-> Replaced(doc.slots, dialled[c].replaces, c)]
  <2>1. Had' = Had \cup {c}
    BY <1>1, <1>2, <1>5 DEF Had
  <2>2. dialled[c].replaces \in Calls
    BY Before
  <2>. QED
    BY <1>1, <1>5, <2>1, <2>2
<1>. QED
  BY <1>3, <1>4, <1>5, SaveSlotEffect, UpdateCallIdEffect

LEMMA LotSteps == ASSUME IInv, [Next]_vars PROVE [Lot!LotNext]_Lot!lotVars
<1>1. ASSUME doc' = doc, Had' = Had
      PROVE  UNCHANGED Lot!lotVars
  BY <1>1 DEF Lot!lotVars, Had
<1>2. CASE UNCHANGED vars
  BY <1>1, <1>2 DEF vars, Had
<1>3. ASSUME NEW c \in Calls, Dial(c) \/ Step(c) \/ Fail(c)
      PROVE  [Lot!LotNext]_Lot!lotVars
  <2>1. CASE doc' = doc /\ Had' = Had
    BY <1>1, <2>1
  <2>2. CASE /\ c \in Calls \ Had /\ Had' = Had \cup {c}
             /\ \E s \in DOMAIN doc'.slots : doc'.slots = Stored(doc.slots, s, c)
    BY <2>2 DEF Lot!LotNext, Lot!Park, Stored, Had
  <2>3. CASE /\ c \in Calls \ Had /\ Had' = Had \cup {c}
             /\ \E old \in Calls : doc'.slots = Replaced(doc.slots, old, c)
    BY <2>3 DEF Lot!LotNext, Lot!Replace, Replaced, Had
  <2>. QED
    BY <1>3, <2>1, <2>2, <2>3, OtherSteps, SavesAreTurns DEF Step
<1>. QED
  BY <1>2, <1>3 DEF Next

\* The modules change the slots as if they did so one at a time, each call once
\* (save_slot/4, update_call_id/3, cf_park.erl:189-226).
THEOREM SlotsAreALot == Spec => ImplementsLot
<1>1. Init => Lot!LotInit
  BY DEF Init, Lot!LotInit, NoDoc
<1>2. IInv /\ [Next]_vars => [Lot!LotNext]_Lot!lotVars
  BY LotSteps
<1>. QED
  BY <1>1, <1>2, IInvHolds, PTL DEF Spec, ImplementsLot, Lot!LotSpec
=============================================================================
