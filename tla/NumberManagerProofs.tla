------------------------- MODULE NumberManagerProofs -------------------------
(***************************************************************************)
(* For any numbers, accounts and requests: the documents implement the     *)
(* register of numbers, a purchased number leaves the state discovery, and  *)
(* the lists of the accounts agree with the documents.                     *)
(*                                                                         *)
(* The argument is that of optimistic concurrency.  A copy a request has   *)
(* opened is of a revision no later than the document's, and if of the     *)
(* same, it is the document: so what a save that is not refused writes was *)
(* decided on the number as it is.                                         *)
(***************************************************************************)
EXTENDS NumberManager, TLAPS

NumberSteps == {"store", "reopen", "open", "acquire", "save", "popen", "psave", "lopen",
                "lsave", "fetch", "aggregate", "ropen", "rsave"}
CopySteps == {"acquire", "save", "psave", "rsave"}
Steps == NumberSteps \cup {"new", "fopen", "next", "unlist", "done"}

\* What a request has in hand at each of its steps.
InHand(r) ==
  LET l == local[r] IN
  /\ pc[r] \in NumberSteps => l.num \in Numbers
  /\ pc[r] \in {"store", "reopen"} => l.op = "find" \/ l.acct \in Accounts
  /\ pc[r] \in Steps \ {"new", "done", "store", "reopen"} => l.acct \in Accounts
  /\ pc[r] \in CopySteps =>
       /\ 0 < l.copy.rev /\ l.copy.rev <= docs[l.num].rev
       /\ l.copy.rev = docs[l.num].rev => l.copy = docs[l.num]
  /\ pc[r] = "save" => Acquirable(l)
  /\ pc[r] = "psave" => l.copy.owner = l.acct
  /\ pc[r] = "rsave" => l.copy.state = "in_service" /\ l.copy.owner = l.acct

\* A number is discovered in its first revision and never later; only a number
\* with a document is ordered, or reserved.
Firsts ==
  /\ \A n \in Numbers : docs[n].state = "discovery" => docs[n].rev = 1
  /\ \A n \in ordered : docs[n].rev # 0
  /\ \A n \in Numbers : docs[n].rev = 0 => docs[n].reserved = NoOne

IInv == TypeOK /\ (\A r \in Requests : InHand(r)) /\ Firsts

\* The documents only move on.
Advances == \A n \in Numbers : docs'[n] = docs[n] \/ docs[n].rev < docs'[n].rev

-----------------------------------------------------------------------------
(* Requests do not disturb what another has in hand.                       *)

LEMMA OthersInHand ==
  ASSUME IInv, docs' \in [Numbers -> Doc], Advances, NEW q \in Requests,
         pc'[q] = pc[q], local'[q] = local[q]
  PROVE  InHand(q)'
  <1>1. InHand(q) /\ pc[q] \in Steps /\ local[q] \in Locals /\ docs \in [Numbers -> Doc]
    BY DEF IInv, TypeOK, Steps, NumberSteps
  <1>2. ASSUME pc[q] \in CopySteps
        PROVE  local[q].num \in Numbers
    BY <1>1, <1>2 DEF InHand, CopySteps, NumberSteps
  <1>3. ASSUME pc[q] \in CopySteps
        PROVE  /\ local[q].copy.rev <= docs'[local[q].num].rev
               /\ local[q].copy.rev = docs'[local[q].num].rev
                    => local[q].copy = docs'[local[q].num]
    <2>1. local[q].num \in Numbers
      BY <1>2, <1>3
    <2>2. /\ local[q].copy.rev \in Nat /\ docs[local[q].num].rev \in Nat
          /\ docs'[local[q].num].rev \in Nat
      BY <1>1, <2>1 DEF Locals, Doc
    <2>3. \/ docs'[local[q].num] = docs[local[q].num]
          \/ docs[local[q].num].rev < docs'[local[q].num].rev
      BY <2>1 DEF Advances
    <2>. QED
      BY <1>1, <1>3, <2>2, <2>3 DEF InHand
  <1>. QED
    BY <1>1, <1>2, <1>3 DEF InHand, Acquirable

\* What Goto does to the variables of a request.
LEMMA GotoEffect ==
  ASSUME TypeOK, NEW r \in Requests, NEW step \in Steps, NEW l \in Locals, Goto(r, step, l)
  PROVE  /\ pc' \in [Requests -> Steps] /\ local' \in [Requests -> Locals]
         /\ pc'[r] = step
         /\ step # "done" => local'[r] = l
         /\ \A q \in Requests \ {r} : pc'[q] = pc[q] /\ local'[q] = local[q]
  <1>1. NoLocals \in Locals
    BY DEF NoLocals, Locals, NoDoc, NoDef, Doc, Def, States
  <1>2. pc \in [Requests -> Steps] /\ local \in [Requests -> Locals]
    BY DEF TypeOK, Steps, NumberSteps
  <1>. QED
    BY <1>1, <1>2 DEF Goto

LEMMA AllInHand ==
  ASSUME IInv, docs' \in [Numbers -> Doc], Advances,
         NEW r \in Requests, NEW step \in Steps, NEW l \in Locals, Goto(r, step, l),
         InHand(r)'
  PROVE  \A q \in Requests : InHand(q)'
  <1>. SUFFICES ASSUME NEW q \in Requests, q # r
                PROVE  InHand(q)'
    OBVIOUS
  <1>1. TypeOK
    BY DEF IInv
  <1>2. pc'[q] = pc[q] /\ local'[q] = local[q]
    BY <1>1, GotoEffect
  <1>. QED
    BY <1>2, OthersInHand

\* A step of a request that leaves the documents alone.
LEMMA ReadStep ==
  ASSUME IInv, NEW r \in Requests, NEW step \in Steps, NEW l \in Locals, Goto(r, step, l),
         docs' = docs, ordered' \subseteq Numbers, \A n \in ordered' : docs[n].rev # 0,
         defs' \in [Accounts -> Def], accounts' \in [Accounts -> Def],
         faults' \in 0..MaxFaults, unsaved' \subseteq Numbers,
         disturbed' \subseteq Accounts \cup {NoOne},
         InHand(r)'
  PROVE  IInv'
  <1>1. TypeOK
    BY DEF IInv
  <1>2. docs' \in [Numbers -> Doc] /\ Advances
    BY <1>1 DEF TypeOK, Advances
  <1>3. TypeOK'
    <2>1. pc' \in [Requests -> Steps] /\ local' \in [Requests -> Locals]
      BY <1>1, GotoEffect
    <2>. QED
      BY <1>1, <2>1 DEF TypeOK, Steps, NumberSteps
  <1>4. \A q \in Requests : InHand(q)'
    BY <1>2, AllInHand
  <1>5. Firsts'
    BY DEF IInv, Firsts
  <1>. QED
    BY <1>3, <1>4, <1>5 DEF IInv

Consistent(d) == /\ d.rev = 0 <=> d.state = "none"
                 /\ d.state = "in_service" <=> d.owner # NoOne

\* A save, refused or not.
LEMMA SaveStep ==
  ASSUME IInv, NEW r \in Requests, NEW step \in Steps, NEW elsewhere \in Steps,
         local[r].num \in Numbers, NEW doc \in Doc,
         doc.rev = docs[local[r].num].rev => Consistent([doc EXCEPT !.rev = @ + 1]),
         doc.rev = docs[local[r].num].rev /\ doc.state = "discovery" => doc.rev = 0,
         SaveOr(r, doc, step, elsewhere),
         UNCHANGED <<defs, accounts, ordered, historyVars>>,
         InHand(r)'
  PROVE  IInv'
  <1> DEFINE n == local[r].num
             saved == [doc EXCEPT !.rev = @ + 1]
  <1>1. TypeOK /\ docs \in [Numbers -> Doc] /\ local[r] \in Locals
    BY DEF IInv, TypeOK
  <1>2. saved \in Doc /\ saved.rev = doc.rev + 1 /\ saved.state = doc.state
        /\ saved.owner = doc.owner /\ doc.rev \in Nat
    BY DEF Doc
  <1>3. \/ docs' = docs
        \/ docs' = [docs EXCEPT ![n] = saved] /\ doc.rev = docs[n].rev
    BY DEF SaveOr, SaveDoc, Refused
  <1>4. docs' \in [Numbers -> Doc] /\ Advances
    <2>1. CASE docs' = docs
      BY <1>1, <2>1 DEF Advances
    <2>2. CASE docs' = [docs EXCEPT ![n] = saved] /\ doc.rev = docs[n].rev
      <3>. HIDE DEF saved
      <3>1. docs' \in [Numbers -> Doc]
        BY <1>1, <1>2, <2>2
      <3>2. docs[n].rev < saved.rev
        BY <1>2, <2>2
      <3>. QED
        BY <1>1, <2>2, <3>1, <3>2 DEF Advances
    <2>. QED
      BY <1>3, <2>1, <2>2
  <1>5. PICK st \in Steps : Goto(r, st, local[r])
    BY DEF SaveOr
  <1>6. TypeOK'
    <2>1. pc' \in [Requests -> Steps] /\ local' \in [Requests -> Locals]
      BY <1>1, <1>5, GotoEffect
    <2>2. \A m \in Numbers : Consistent(docs[m])
      BY <1>1 DEF TypeOK, Consistent
    <2>3. \A m \in Numbers : Consistent(docs'[m])
      BY <1>1, <1>3, <2>2
    <2>. QED
      BY <1>1, <1>4, <2>1, <2>3 DEF TypeOK, Steps, NumberSteps, Consistent, historyVars
  <1>7. \A q \in Requests : InHand(q)'
    BY <1>1, <1>4, <1>5, AllInHand
  <1>8. Firsts'
    <2>1. Firsts /\ ordered \subseteq Numbers
      BY <1>1 DEF IInv, TypeOK
    <2>2. CASE docs' = docs
      BY <2>1, <2>2 DEF Firsts
    <2>3. CASE docs' = [docs EXCEPT ![n] = saved] /\ doc.rev = docs[n].rev
      <3>1. saved.rev # 0 /\ (saved.state = "discovery" => saved.rev = 1)
        BY <1>2, <2>3
      <3>. QED
        BY <1>1, <2>1, <2>3, <3>1 DEF Firsts
    <2>. QED
      BY <1>3, <2>2, <2>3
  <1>. QED
    BY <1>6, <1>7, <1>8 DEF IInv

-----------------------------------------------------------------------------
(* The invariant.                                                          *)

LEMMA InitIInv == Init => IInv
  <1>. SUFFICES ASSUME Init PROVE IInv
    OBVIOUS
  <1>1. NoDoc \in Doc /\ NoDef \in Def /\ NoLocals \in Locals
    BY DEF NoLocals, Locals, NoDoc, NoDef, Doc, Def, States
  <1>2. [NoDoc EXCEPT !.rev = 1, !.state = "available"] \in Doc
    BY DEF NoDoc, Doc, States
  <1>3. TypeOK
    <2>1. \A n \in Numbers : docs[n] \in Doc /\ Consistent(docs[n])
      BY <1>1, <1>2 DEF Init, Consistent, NoDoc
    <2>2. defs \in [Accounts -> Def]
      BY DEF Init, Def
    <2>. QED
      BY <1>1, <2>1, <2>2, NumberAssumption DEF Init, TypeOK, Consistent
  <1>4. \A r \in Requests : InHand(r)
    BY DEF Init, InHand, NumberSteps, CopySteps
  <1>5. Firsts
    BY DEF Init, Firsts, NoDoc
  <1>. QED
    BY <1>3, <1>4, <1>5 DEF IInv

LEMMA StartIInv ==
  ASSUME IInv, NEW r \in Requests, Start(r)
  PROVE  IInv'
  <1>1. TypeOK
    BY DEF IInv
  <1>2. ASSUME NEW o \in {"find", "reconcile", "assign", "publish", "free"},
               NEW n \in Numbers \cup {NoOne}, NEW a \in Accounts \cup {NoOne},
               NEW step \in Steps \ {"done"}, Starts(r, o, n, a, step),
               step \notin CopySteps, step \in NumberSteps => n \in Numbers,
               (o = "find" /\ step = "store") \/ a \in Accounts
        PROVE  IInv'
    <2> DEFINE l == [NoLocals EXCEPT !.op = o, !.num = n, !.acct = a]
    <2>1. l \in Locals /\ l.op = o /\ l.num = n /\ l.acct = a
      BY <1>2 DEF NoLocals, Locals, NoDoc, NoDef, Doc, Def, States
    <2>2. Goto(r, step, l)
      BY <1>2 DEF Starts
    <2>3. pc'[r] = step /\ local'[r] = l
      BY <1>1, <1>2, <2>1, <2>2, GotoEffect
    <2>4. InHand(r)'
      BY <1>2, <2>1, <2>3 DEF InHand, CopySteps, Steps, NumberSteps
    <2>. QED
      BY <1>1, <1>2, <2>1, <2>2, <2>4, ReadStep DEF Starts, dbVars, TypeOK, IInv, Firsts
  <1>3. CASE Find(r)
    BY <1>2, <1>3 DEF Find, Steps, NumberSteps, CopySteps
  <1>4. CASE Reconcile(r)
    BY <1>2, <1>4 DEF Reconcile, Steps, NumberSteps, CopySteps
  <1>5. CASE AssignNumber(r)
    BY <1>2, <1>5 DEF AssignNumber, Steps, NumberSteps, CopySteps
  <1>6. CASE SetPublicFields(r)
    BY <1>2, <1>6 DEF SetPublicFields, Steps, NumberSteps, CopySteps
  <1>7. CASE FreeNumbers(r)
    BY <1>2, <1>7 DEF FreeNumbers, Steps, NumberSteps, CopySteps
  <1>. QED
    BY <1>3, <1>4, <1>5, <1>6, <1>7 DEF Start

\* The steps that save a number.
LEMMA SavesIInv ==
  ASSUME IInv, NEW r \in Requests, Store(r) \/ Save(r) \/ PublicSave(r) \/ ReleaseSave(r)
  PROVE  IInv'
  <1> DEFINE l == local[r]
  <1>1. TypeOK /\ docs \in [Numbers -> Doc] /\ l \in Locals /\ InHand(r)
    BY DEF IInv, TypeOK
  <1>2. l.num \in Numbers /\ l.copy \in Doc
    BY <1>1 DEF Store, Save, PublicSave, ReleaseSave, InHand, NumberSteps, Locals
  <1>3. l.copy.rev = docs[l.num].rev /\ pc[r] \in CopySteps => l.copy = docs[l.num]
    BY <1>1 DEF InHand
  <1>4. ASSUME NEW step \in {"open", "reopen", "lopen", "done"},
               Goto(r, step, l),
               l.acct \in Accounts \/ step = "done" \/ (step = "reopen" /\ l.op = "find")
        PROVE  InHand(r)'
    <2>1. pc'[r] = step /\ (step # "done" => local'[r] = l)
      BY <1>1, <1>4, GotoEffect DEF Steps, NumberSteps
    <2>. QED
      BY <1>2, <1>4, <2>1 DEF InHand, NumberSteps, CopySteps, Steps
  <1>5. CASE Store(r)
    <2>1. AfterStore(r) \in {"open", "done"} /\ (l.op # "find" => l.acct \in Accounts)
      BY <1>1, <1>5 DEF Store, AfterStore, InHand
    <2>2. Discovered(r) \in Doc /\ Discovered(r).rev = 0
      BY <1>1 DEF Discovered, Doc, NoDoc, States, Locals
    <2>3. Consistent([Discovered(r) EXCEPT !.rev = @ + 1])
      BY DEF Discovered, NoDoc, Consistent
    <2>4. InHand(r)'
      BY <1>4, <1>5, <2>1 DEF Store, SaveOr, AfterStore
    <2>. QED
      BY <1>2, <1>5, <2>1, <2>2, <2>3, <2>4, SaveStep DEF Store, Steps, NumberSteps
  <1>6. CASE Save(r)
    <2>1. l.acct \in Accounts
      BY <1>1, <1>6 DEF Save, InHand, Steps, NumberSteps
    <2>2. /\ Assigned(l) \in Doc /\ Assigned(l).rev = l.copy.rev
          /\ Assigned(l).state = "in_service" /\ Assigned(l).owner = l.acct
      BY <1>2, <2>1 DEF Assigned, Doc, States
    <2>3. Consistent([Assigned(l) EXCEPT !.rev = @ + 1])
      BY <1>2, <2>1, <2>2, NumberAssumption DEF Consistent, Doc
    <2>4. InHand(r)'
      BY <1>4, <1>6, <2>1 DEF Save, SaveOr
    <2>. QED
      BY <1>2, <1>6, <2>2, <2>3, <2>4, SaveStep DEF Save, Steps, NumberSteps
  <1>7. CASE PublicSave(r)
    <2>1. l.acct \in Accounts /\ l.copy.owner = l.acct
      BY <1>1, <1>7 DEF PublicSave, InHand, Steps, NumberSteps
    <2>2. l.copy.rev = docs[l.num].rev => l.copy.state = "in_service"
      BY <1>1, <1>2, <1>3, <1>7, <2>1, NumberAssumption DEF PublicSave, CopySteps, TypeOK
    <2>3. l.copy.rev = docs[l.num].rev => Consistent([l.copy EXCEPT !.rev = @ + 1])
      BY <1>2, <2>1, <2>2, NumberAssumption DEF Consistent, Doc
    <2>4. InHand(r)'
      BY <1>4, <1>7, <2>1 DEF PublicSave, SaveOr
    <2>. QED
      BY <1>2, <1>7, <2>2, <2>3, <2>4, SaveStep DEF PublicSave, Steps, NumberSteps
  <1>8. CASE ReleaseSave(r)
    <2> DEFINE doc == [l.copy EXCEPT !.state = "released", !.owner = NoOne]
    <2>1. l.acct \in Accounts
      BY <1>1, <1>8 DEF ReleaseSave, InHand, Steps, NumberSteps
    <2>2. /\ doc \in Doc /\ doc.rev = l.copy.rev
          /\ doc.state = "released" /\ doc.owner = NoOne
      BY <1>2 DEF Doc, States
    <2>3. Consistent([doc EXCEPT !.rev = @ + 1])
      BY <1>2, <2>2 DEF Consistent, Doc
    <2>4. InHand(r)'
      BY <1>4, <1>8, <2>1 DEF ReleaseSave, SaveOr
    <2>. QED
      BY <1>2, <1>8, <2>2, <2>3, <2>4, SaveStep DEF ReleaseSave, Steps, NumberSteps
  <1>. QED
    BY <1>5, <1>6, <1>7, <1>8

\* The steps that open a number, or go to the carrier.
LEMMA OpensIInv ==
  ASSUME IInv, NEW r \in Requests,
         Reopen(r) \/ Open(r) \/ PublicOpen(r) \/ ReleaseOpen(r)
  PROVE  IInv'
  <1> DEFINE l == local[r]
             doc == docs[l.num]
             opened == [l EXCEPT !.copy = doc]
  <1>1. TypeOK /\ docs \in [Numbers -> Doc] /\ l \in Locals /\ InHand(r)
    BY DEF IInv, TypeOK
  <1>2. l.num \in Numbers /\ doc \in Doc
    BY <1>1 DEF Reopen, Open, PublicOpen, ReleaseOpen, InHand, NumberSteps
  <1>3. /\ opened \in Locals /\ opened.num = l.num /\ opened.acct = l.acct
        /\ opened.copy = doc /\ opened.op = l.op
    BY <1>1, <1>2 DEF Locals
  <1>4. ASSUME NEW step \in Steps, NEW x \in Locals, Goto(r, step, x), InHand(r)',
               UNCHANGED <<dbVars, ordered, historyVars>>
        PROVE  IInv'
    BY <1>1, <1>4, ReadStep DEF dbVars, historyVars, TypeOK, IInv, Firsts
  <1>held. ASSUME NEW step \in {"acquire", "psave", "rsave", "lopen", "done"},
               pc'[r] = step, step # "done" => local'[r] = opened, docs' = docs,
               l.acct \in Accounts, step \in CopySteps => doc.rev # 0,
               step = "psave" => doc.owner = l.acct,
               step = "rsave" => doc.state = "in_service" /\ doc.owner = l.acct
        PROVE  InHand(r)'
    <2>1. doc.rev \in Nat /\ doc = docs'[l.num]
      BY <1>2, <1>held DEF Doc
    <2>. HIDE DEF doc, l, opened
    <2>2. CASE step = "done"
      BY <1>held, <2>2 DEF InHand, NumberSteps, CopySteps, Steps
    <2>3. CASE step # "done"
      <3>1. /\ pc'[r] = step /\ local'[r].num = l.num /\ local'[r].acct = l.acct
            /\ local'[r].copy = doc
        BY <1>3, <1>held, <2>3
      <3>. QED
        BY <1>2, <1>held, <2>1, <2>3, <3>1 DEF InHand, NumberSteps, CopySteps, Steps
    <2>. QED
      BY <2>2, <2>3
  <1>5. CASE Reopen(r)
    <2> DEFINE step == IF doc.owner = l.acct THEN "done" ELSE AfterStore(r)
    <2>1. step \in {"done", "open"} /\ (step = "open" => l.acct \in Accounts)
      BY <1>1, <1>5 DEF Reopen, AfterStore, InHand
    <2>2. Goto(r, step, l)
      BY <1>5 DEF Reopen
    <2>3. pc'[r] = step /\ (step # "done" => local'[r] = l)
      BY <1>1, <2>1, <2>2, GotoEffect DEF Steps, NumberSteps
    <2>4. InHand(r)'
      BY <1>2, <2>1, <2>3 DEF InHand, NumberSteps, CopySteps, Steps
    <2>. QED
      BY <1>1, <1>4, <1>5, <2>1, <2>2, <2>4 DEF Reopen, Steps, NumberSteps
  <1>6. CASE Open(r)
    <2> DEFINE step == IF doc.rev = 0 THEN "done" ELSE "acquire"
    <2>1. l.acct \in Accounts
      BY <1>1, <1>6 DEF Open, InHand, Steps, NumberSteps
    <2>2. Goto(r, step, opened)
      BY <1>6 DEF Open
    <2>3. pc'[r] = step /\ (step # "done" => local'[r] = opened)
      BY <1>1, <1>3, <2>2, GotoEffect DEF Steps, NumberSteps
    <2>4. docs' = docs /\ doc.rev \in Nat
      BY <1>2, <1>6 DEF Open, dbVars, Doc
    <2>5. InHand(r)'
      BY <1>held, <2>1, <2>3, <2>4 DEF CopySteps
    <2>. QED
      BY <1>3, <1>4, <1>6, <2>2, <2>5 DEF Open, Steps, NumberSteps
  <1>7. CASE PublicOpen(r)
    <2> DEFINE step == IF doc.owner = l.acct THEN "psave" ELSE "done"
    <2>1. l.acct \in Accounts
      BY <1>1, <1>7 DEF PublicOpen, InHand, Steps, NumberSteps
    <2>2. Goto(r, step, opened)
      BY <1>7 DEF PublicOpen
    <2>3. pc'[r] = step /\ (step # "done" => local'[r] = opened)
      BY <1>1, <1>3, <2>2, GotoEffect DEF Steps, NumberSteps
    <2>4. docs' = docs /\ doc.rev \in Nat
      BY <1>2, <1>7 DEF PublicOpen, dbVars, Doc
    <2>5. doc.owner = l.acct => doc.rev # 0
      BY <1>1, <1>2, <2>1, NumberAssumption DEF TypeOK
    <2>6. InHand(r)'
      BY <1>held, <2>1, <2>3, <2>4, <2>5 DEF CopySteps
    <2>. QED
      BY <1>3, <1>4, <1>7, <2>2, <2>6 DEF PublicOpen, Steps, NumberSteps
  <1>8. CASE ReleaseOpen(r)
    <2> DEFINE step == CASE doc.rev = 0 -> "lopen"
                         [] doc.state = "in_service" /\ doc.owner = l.acct -> "rsave"
                         [] OTHER -> "done"
    <2>1. l.acct \in Accounts
      BY <1>1, <1>8 DEF ReleaseOpen, InHand, Steps, NumberSteps
    <2>2. Goto(r, step, opened)
      BY <1>8 DEF ReleaseOpen
    <2>3. /\ step \in {"lopen", "rsave", "done"}
          /\ step = "rsave" => doc.rev # 0 /\ doc.state = "in_service" /\ doc.owner = l.acct
      <3>1. CASE doc.rev = 0
        <4>1. doc.state = "none"
          BY <1>1, <1>2, <3>1 DEF TypeOK
        <4>. QED
          BY <3>1, <4>1
      <3>2. CASE doc.rev # 0
        BY <3>2
      <3>. QED
        BY <3>1, <3>2
    <2>4. pc'[r] = step /\ (step # "done" => local'[r] = opened)
      <3>. HIDE DEF step
      <3>. QED
        BY <1>1, <1>3, <2>2, <2>3, GotoEffect DEF Steps, NumberSteps
    <2>5. docs' = docs /\ doc.rev \in Nat
      BY <1>2, <1>8 DEF ReleaseOpen, dbVars, Doc
    <2>6. InHand(r)'
      <3>. HIDE DEF step
      <3>. QED
        BY <1>held, <2>1, <2>3, <2>4, <2>5 DEF CopySteps
    <2>. HIDE DEF step
    <2>. QED
      BY <1>3, <1>4, <1>8, <2>2, <2>3, <2>6 DEF ReleaseOpen, Steps, NumberSteps
  <1>. QED
    BY <1>5, <1>6, <1>7, <1>8

LEMMA AcquireIInv ==
  ASSUME IInv, NEW r \in Requests, Acquire(r)
  PROVE  IInv'
  <1> DEFINE l == local[r]
  <1>1. TypeOK /\ docs \in [Numbers -> Doc] /\ l \in Locals /\ InHand(r)
    BY DEF IInv, TypeOK
  <1>2. /\ l.num \in Numbers /\ l.acct \in Accounts
        /\ 0 < l.copy.rev /\ l.copy.rev <= docs[l.num].rev
        /\ l.copy.rev = docs[l.num].rev => l.copy = docs[l.num]
    BY <1>1 DEF Acquire, InHand, NumberSteps, CopySteps, Steps
  <1>3. PICK step \in {"save", "done"} :
          Goto(r, step, l) /\ (step = "save" => Acquirable(l))
    BY DEF Acquire
  <1>4. docs' = docs /\ UNCHANGED <<defs, accounts, faults, unsaved, disturbed>>
    BY DEF Acquire, dbVars, historyVars
  <1>5. InHand(r)'
    <2>1. pc'[r] = step /\ (step # "done" => local'[r] = l)
      BY <1>1, <1>3, GotoEffect DEF Steps, NumberSteps
    <2>. QED
      BY <1>2, <1>3, <1>4, <2>1 DEF InHand, NumberSteps, CopySteps, Steps, Acquirable
  <1>6. ordered' \subseteq Numbers /\ \A n \in ordered' : docs[n].rev # 0
    <2>1. l.copy.rev \in Nat /\ docs[l.num].rev \in Nat
      BY <1>1, <1>2 DEF Locals, Doc
    <2>2. ordered' = ordered \/ ordered' = ordered \cup {l.num}
      BY DEF Acquire
    <2>. QED
      BY <1>1, <1>2, <2>1, <2>2 DEF IInv, Firsts, TypeOK
  <1>. QED
    BY <1>1, <1>3, <1>4, <1>5, <1>6, ReadStep DEF TypeOK, Steps, NumberSteps

\* The steps that work on an account's list and database, or go through the
\* numbers to release.
LEMMA ListsIInv ==
  ASSUME IInv, NEW r \in Requests,
         \/ ListOpen(r) \/ ListSave(r) \/ FetchRev(r) \/ Aggregate(r)
         \/ FreeOpen(r) \/ FreeNext(r) \/ DeleteAccount(r) \/ Unlist(r)
  PROVE  IInv'
  <1> DEFINE l == local[r]
  <1>1. TypeOK /\ l \in Locals /\ InHand(r) /\ defs \in [Accounts -> Def]
        /\ accounts \in [Accounts -> Def]
    BY DEF IInv, TypeOK
  <1>2. /\ l.acct \in Accounts
        /\ pc[r] \in {"lopen", "lsave", "fetch", "aggregate"} => l.num \in Numbers
    BY <1>1 DEF InHand, NumberSteps, Steps, ListOpen, ListSave, FetchRev, Aggregate,
                FreeOpen, FreeNext, DeleteAccount, Unlist
  <1>3. AfterList(r) \in {"next", "done"}
    BY DEF AfterList
  <1>4. ASSUME NEW step \in {"lsave", "fetch", "aggregate", "next", "ropen", "unlist", "done"},
               NEW x \in Locals, Goto(r, step, x), x.acct = l.acct,
               step \in {"lsave", "fetch", "aggregate", "ropen"} => x.num \in Numbers,
               UNCHANGED <<docs, ordered, historyVars>>,
               defs' \in [Accounts -> Def], accounts' \in [Accounts -> Def]
        PROVE  IInv'
    <2>1. pc'[r] = step /\ (step # "done" => local'[r] = x)
      BY <1>1, <1>4, GotoEffect DEF Steps, NumberSteps
    <2>2. InHand(r)'
      BY <1>2, <1>4, <2>1 DEF InHand, NumberSteps, CopySteps, Steps
    <2>. QED
      BY <1>1, <1>4, <2>2, ReadStep DEF Steps, NumberSteps, historyVars, TypeOK, IInv, Firsts
  <1>5. CASE ListOpen(r)
    <2> DEFINE x == [l EXCEPT !.def = defs[l.acct]]
               step == IF defs[l.acct].rev = 0 THEN AfterList(r) ELSE "lsave"
    <2>1. x \in Locals /\ x.acct = l.acct /\ x.num = l.num
      BY <1>1, <1>2 DEF Locals
    <2>2. step \in {"lsave", "next", "done"} /\ Goto(r, step, x)
          /\ UNCHANGED <<docs, ordered, historyVars, defs, accounts>>
      BY <1>3, <1>5 DEF ListOpen, dbVars
    <2>3. l.num \in Numbers
      BY <1>2, <1>5 DEF ListOpen
    <2>. HIDE DEF x, step
    <2>. QED
      BY <1>1, <1>4, <2>1, <2>2, <2>3
  <1>6. CASE ListSave(r)
    <2> DEFINE saved == [rev |-> l.def.rev + 1, list |-> NewList(l)]
               x == [l EXCEPT !.def = saved]
    <2>1. l.num \in Numbers
      BY <1>2, <1>6 DEF ListSave
    <2>2. saved \in Def
      BY <1>1, <2>1 DEF NewList, Locals, Def
    <2>. HIDE DEF saved
    <2>3. x \in Locals /\ x.acct = l.acct /\ x.num = l.num
      BY <1>1, <2>2 DEF Locals
    <2>4. \/ defs' = [defs EXCEPT ![l.acct] = saved] /\ Goto(r, "fetch", x)
          \/ defs' = defs /\ Goto(r, AfterList(r), l)
      BY <1>6 DEF ListSave, saved
    <2>5. UNCHANGED <<docs, ordered, historyVars, accounts>>
      BY <1>6 DEF ListSave
    <2>6. defs' \in [Accounts -> Def]
      BY <1>1, <2>2, <2>4
    <2>. HIDE DEF x
    <2>. QED
      BY <1>1, <1>3, <1>4, <2>1, <2>3, <2>4, <2>5, <2>6
  <1>7. CASE Aggregate(r)
    <2>1. [rev |-> l.def.rev + 1, list |-> l.def.list] \in Def /\ l.num \in Numbers
      BY <1>1, <1>2, <1>7 DEF Aggregate, Locals, Def
    <2>2. accounts' \in [Accounts -> Def] /\ UNCHANGED <<docs, defs, ordered, historyVars>>
      BY <1>1, <1>7, <2>1 DEF Aggregate
    <2>3. Goto(r, AfterList(r), l) \/ Goto(r, "fetch", l)
      BY <1>7 DEF Aggregate
    <2>. QED
      BY <1>1, <1>3, <1>4, <2>1, <2>2, <2>3
  <1>8. CASE FreeOpen(r)
    <2> DEFINE x == [l EXCEPT !.todo = defs[l.acct].list]
    <2>1. x \in Locals /\ x.acct = l.acct
      BY <1>1, <1>2 DEF Locals, Def
    <2>2. Goto(r, "next", x) /\ UNCHANGED <<docs, ordered, historyVars, defs, accounts>>
      BY <1>8 DEF FreeOpen, dbVars
    <2>. HIDE DEF x
    <2>. QED
      BY <1>1, <1>4, <2>1, <2>2
  <1>9. CASE FreeNext(r)
    <2>1. PICK n \in l.todo : Goto(r, "ropen", [l EXCEPT !.num = n, !.todo = @ \ {n}])
      BY <1>9 DEF FreeNext
    <2> DEFINE x == [l EXCEPT !.num = n, !.todo = @ \ {n}]
    <2>2. n \in Numbers
      BY <1>1, <2>1 DEF Locals
    <2>3. x \in Locals /\ x.acct = l.acct /\ x.num = n
      BY <1>1, <2>2 DEF Locals
    <2>4. UNCHANGED <<docs, ordered, historyVars, defs, accounts>>
      BY <1>9 DEF FreeNext, dbVars
    <2>5. Goto(r, "ropen", x)
      BY <2>1
    <2>. HIDE DEF x
    <2>. QED
      BY <1>1, <1>4, <2>2, <2>3, <2>4, <2>5
  <1>10. CASE DeleteAccount(r)
    <2>1. NoDef \in Def
      BY DEF NoDef, Def
    <2>2. defs' \in [Accounts -> Def]
      BY <1>1, <1>10, <2>1 DEF DeleteAccount
    <2>. QED
      BY <1>1, <1>4, <1>10, <2>2 DEF DeleteAccount
  <1>11. CASE Unlist(r)
    <2>1. accounts[l.acct].rev + 1 \in Nat
      BY <1>1, <1>2 DEF Def
    <2>2. [rev |-> accounts[l.acct].rev + 1, list |-> {}] \in Def
      BY <2>1 DEF Def
    <2>3. accounts' \in [Accounts -> Def]
      BY <1>1, <1>11, <2>2 DEF Unlist
    <2>. QED
      BY <1>1, <1>4, <1>11, <2>3 DEF Unlist
  <1>12. CASE FetchRev(r)
    <2> DEFINE x == [l EXCEPT !.def.rev = accounts[l.acct].rev]
    <2>1. accounts[l.acct].rev \in Nat /\ l.num \in Numbers
      BY <1>1, <1>2, <1>12 DEF FetchRev, Def
    <2>2. x \in Locals /\ x.acct = l.acct /\ x.num = l.num
      BY <1>1, <2>1 DEF Locals, Def
    <2>3. Goto(r, "aggregate", x) /\ UNCHANGED <<docs, ordered, historyVars, defs, accounts>>
      BY <1>12 DEF FetchRev, dbVars
    <2>. HIDE DEF x
    <2>. QED
      BY <1>1, <1>4, <2>1, <2>2, <2>3
  <1>. QED
    BY <1>5, <1>6, <1>7, <1>8, <1>9, <1>10, <1>11, <1>12

LEMMA FaultIInv ==
  ASSUME IInv, NEW r \in Requests, Fault(r)
  PROVE  IInv'
  <1> DEFINE l == local[r]
  <1>1. TypeOK /\ l \in Locals /\ InHand(r) /\ pc[r] \in Steps
    BY DEF IInv, TypeOK, Steps, NumberSteps
  <1>2. PICK step \in {OnError(r), "done"} : Goto(r, step, l)
    BY DEF Fault
  <1>3. /\ step \in {"next", "lopen", "done"}
        /\ step # "done" => pc[r] \in {"lopen", "lsave", "fetch", "aggregate", "ropen", "fopen"}
        /\ step = "lopen" => pc[r] = "ropen"
    <2>1. CASE pc[r] \in {"lopen", "lsave", "fetch", "aggregate"}
      BY <1>2, <2>1 DEF OnError, AfterList
    <2>2. CASE pc[r] = "ropen"
      BY <1>2, <2>2 DEF OnError
    <2>3. CASE pc[r] = "fopen"
      BY <1>2, <2>3 DEF OnError
    <2>4. CASE pc[r] \notin {"lopen", "lsave", "fetch", "aggregate", "ropen", "fopen"}
      BY <1>2, <2>4 DEF OnError
    <2>. QED
      BY <2>1, <2>2, <2>3, <2>4
  <1>4. InHand(r)'
    <2>1. pc'[r] = step /\ (step # "done" => local'[r] = l)
      BY <1>1, <1>2, <1>3, GotoEffect DEF Steps, NumberSteps
    <2>. QED
      BY <1>1, <1>3, <2>1 DEF InHand, NumberSteps, CopySteps, Steps
  <1>5. /\ UNCHANGED <<docs, defs, accounts, ordered>> /\ faults < MaxFaults
        /\ faults' = faults + 1 /\ disturbed' = disturbed \cup {l.acct}
        /\ unsaved' \in {unsaved, unsaved \cup {l.num}}
        /\ unsaved' # unsaved => pc[r] = "save"
    BY DEF Fault, dbVars
  <1>6. faults' \in 0..MaxFaults
    BY <1>1, <1>5, NumberAssumption DEF TypeOK
  <1>7. unsaved' \subseteq Numbers /\ disturbed' \subseteq Accounts \cup {NoOne}
    BY <1>1, <1>5 DEF TypeOK, InHand, NumberSteps, Locals
  <1>. QED
    BY <1>1, <1>2, <1>3, <1>4, <1>5, <1>6, <1>7, ReadStep
    DEF Steps, NumberSteps, TypeOK, IInv, Firsts

LEMMA ReclaimIInv ==
  ASSUME IInv, NEW n \in Numbers, Reclaim(n)
  PROVE  IInv'
  <1> DEFINE free == [docs[n] EXCEPT !.state = "available"]
             new == [free EXCEPT !.rev = @ + 1]
  <1>1. TypeOK /\ docs \in [Numbers -> Doc] /\ docs[n] \in Doc
    BY DEF IInv, TypeOK
  <1>2. /\ new \in Doc /\ new.rev = docs[n].rev + 1 /\ new.state = "available"
        /\ new.owner = docs[n].owner /\ docs[n].rev \in Nat
    <2>1. /\ free \in Doc /\ free.rev = docs[n].rev /\ free.state = "available"
          /\ free.owner = docs[n].owner
      BY <1>1 DEF Doc, States
    <2>. HIDE DEF free
    <2>. QED
      BY <1>1, <2>1 DEF Doc
  <1>3. docs' = [docs EXCEPT ![n] = new]
    BY DEF Reclaim, SaveDoc
  <1>4. UNCHANGED <<defs, accounts, ordered, pc, local, faults, unsaved, disturbed>>
    BY DEF Reclaim, requestVars, historyVars
  <1>5. docs[n].owner = NoOne
    BY <1>1 DEF Reclaim, TypeOK
  <1>. HIDE DEF new
  <1>6. docs' \in [Numbers -> Doc]
    BY <1>1, <1>2, <1>3
  <1>7. TypeOK'
    <2>1. new.rev # 0
      BY <1>2
    <2>2. \A m \in Numbers : /\ docs'[m].rev = 0 <=> docs'[m].state = "none"
                             /\ docs'[m].state = "in_service" <=> docs'[m].owner # NoOne
      BY <1>1, <1>2, <1>3, <1>5, <2>1 DEF TypeOK
    <2>. QED
      BY <1>1, <1>4, <1>6, <2>2 DEF TypeOK
  <1>8. \A r \in Requests : InHand(r)'
    <2>1. docs[n].rev < new.rev
      BY <1>2
    <2>2. Advances
      BY <1>1, <1>3, <2>1 DEF Advances
    <2>. QED
      BY <1>4, <1>6, <2>2, OthersInHand
  <1>9. Firsts'
    <2>1. new.rev # 0
      BY <1>2
    <2>. QED
      BY <1>1, <1>2, <1>3, <1>4, <2>1 DEF IInv, TypeOK, Firsts
  <1>. QED
    BY <1>7, <1>8, <1>9 DEF IInv

LEMMA NextIInv == IInv /\ [Next]_vars => IInv'
  <1>. SUFFICES ASSUME IInv, [Next]_vars
                PROVE  IInv'
    OBVIOUS
  <1>1. CASE UNCHANGED vars
    BY <1>1 DEF IInv, TypeOK, InHand, Acquirable, Firsts, vars, dbVars, requestVars, historyVars
  <1>2. ASSUME NEW r \in Requests, Start(r)
        PROVE  IInv'
    BY <1>2, StartIInv
  <1>3. ASSUME NEW r \in Requests, Step(r)
        PROVE  IInv'
    BY <1>3, SavesIInv, OpensIInv, AcquireIInv, ListsIInv DEF Step
  <1>4. ASSUME NEW r \in Requests, Fault(r)
        PROVE  IInv'
    BY <1>4, FaultIInv
  <1>5. ASSUME NEW n \in Numbers, Reclaim(n)
        PROVE  IInv'
    BY <1>5, ReclaimIInv
  <1>. QED
    BY <1>1, <1>2, <1>3, <1>4, <1>5 DEF Next

LEMMA AlwaysIInv == Spec => []IInv
  BY InitIInv, NextIInv, PTL DEF Spec

\* The types, with: a number has an account exactly when it is in service.
THEOREM TypesHold == Spec => []TypeOK
  <1>1. IInv => TypeOK
    BY DEF IInv
  <1>. QED
    BY <1>1, AlwaysIInv, PTL

-----------------------------------------------------------------------------
(* A purchased number leaves the state discovery.                          *)

Buyer(n, r) == pc[r] = "save" /\ local[r].num = n /\ local[r].copy.rev = docs[n].rev

\* What is saved, and where.
LEMMA Saved ==
  ASSUME docs \in [Numbers -> Doc], NEW r \in Requests, NEW step, NEW elsewhere,
         NEW doc \in Doc, SaveOr(r, doc, step, elsewhere), NEW n \in Numbers
  PROVE  \/ docs'[n] = docs[n] /\ (local[r].num = n => doc.rev # docs[n].rev)
         \/ /\ local[r].num = n /\ doc.rev = docs[n].rev
            /\ docs'[n].rev = docs[n].rev + 1 /\ docs'[n].state = doc.state
            /\ docs'[n].owner = doc.owner /\ docs'[n].reserved = doc.reserved
  <1>1. /\ [doc EXCEPT !.rev = @ + 1].rev = doc.rev + 1
        /\ [doc EXCEPT !.rev = @ + 1].state = doc.state
        /\ [doc EXCEPT !.rev = @ + 1].owner = doc.owner
        /\ [doc EXCEPT !.rev = @ + 1].reserved = doc.reserved
    BY DEF Doc
  <1>. QED
    BY <1>1 DEF SaveOr, SaveDoc, Refused

\* No save leaves a purchased number in that state.
LEMMA SavedIsNotDiscovered ==
  ASSUME IInv, NEW r \in Requests, Store(r) \/ Save(r) \/ PublicSave(r) \/ ReleaseSave(r),
         NEW n \in ordered, docs'[n] # docs[n]
  PROVE  docs'[n].state # "discovery"
  <1> DEFINE l == local[r]
  <1>1. TypeOK /\ InHand(r) /\ n \in Numbers /\ docs[n].rev # 0 /\ l \in Locals
    BY DEF IInv, TypeOK, Firsts
  <1>2. docs \in [Numbers -> Doc] /\ docs[n].rev \in Nat /\ l.copy \in Doc
    BY <1>1 DEF TypeOK, Doc, Locals
  <1>3. CASE Store(r)
    <2>1. Discovered(r) \in Doc /\ Discovered(r).rev = 0
      BY <1>1 DEF Discovered, Doc, NoDoc, States, Locals
    <2>2. SaveOr(r, Discovered(r), AfterStore(r), "reopen")
      BY <1>3 DEF Store
    <2>. QED
      BY <1>1, <1>2, <2>1, <2>2, Saved
  <1>4. CASE Save(r)
    <2>1. l.acct \in Accounts
      BY <1>1, <1>4 DEF Save, InHand, Steps, NumberSteps
    <2>2. Assigned(l) \in Doc /\ Assigned(l).state = "in_service"
      BY <1>2, <2>1 DEF Assigned, Doc, States
    <2>3. SaveOr(r, Assigned(l), "lopen", "done")
      BY <1>4 DEF Save
    <2>. QED
      BY <1>1, <1>2, <2>2, <2>3, Saved
  <1>5. CASE PublicSave(r)
    <2>1. l.num = n /\ l.copy.rev = docs[n].rev /\ docs' = [docs EXCEPT ![n] = [l.copy EXCEPT !.rev = @ + 1]]
      BY <1>1, <1>2, <1>5 DEF PublicSave, SaveOr, SaveDoc, Refused
    <2>2. docs[n].owner = l.acct /\ l.acct \in Accounts /\ l.copy = docs[n]
      BY <1>1, <1>5, <2>1 DEF PublicSave, InHand, CopySteps, Steps, NumberSteps
    <2>3. docs[n].state = "in_service"
      BY <1>1, <2>2, NumberAssumption DEF TypeOK
    <2>. QED
      BY <1>1, <1>2, <2>1, <2>2, <2>3 DEF Doc
  <1>6. CASE ReleaseSave(r)
    <2> DEFINE doc == [l.copy EXCEPT !.state = "released", !.owner = NoOne]
    <2>1. doc \in Doc /\ doc.state = "released"
      BY <1>2 DEF Doc, States
    <2>2. SaveOr(r, doc, "lopen", "done")
      BY <1>6 DEF ReleaseSave
    <2>. HIDE DEF doc
    <2>. QED
      BY <1>1, <1>2, <2>1, <2>2, Saved
  <1>. QED
    BY <1>3, <1>4, <1>5, <1>6

LEMMA NextPurchase ==
  ASSUME IInv, DiscoveryNotPurchased, [Next]_vars
  PROVE  DiscoveryNotPurchased'
  <1>1. TypeOK /\ Firsts /\ docs \in [Numbers -> Doc] /\ ordered \subseteq Numbers
        /\ local \in [Requests -> Locals] /\ pc \in [Requests -> Steps]
    BY DEF IInv, TypeOK, Steps, NumberSteps
  <1>2. CASE UNCHANGED vars
    BY <1>2 DEF DiscoveryNotPurchased, vars, dbVars, requestVars, historyVars
  <1>3. SUFFICES ASSUME Next, NEW n \in ordered', docs'[n].state = "discovery", n \notin unsaved'
                 PROVE  \E q \in Requests : Buyer(n, q)'
    BY <1>2 DEF DiscoveryNotPurchased, Buyer
  \* The buyer is still there, unless it is the one that has made the step.
  <1>4. ASSUME NEW r \in Requests, NEW step \in Steps, NEW l \in Locals, Goto(r, step, l),
               n \in ordered, docs'[n] = docs[n], n \notin unsaved, ~Buyer(n, r)
        PROVE  \E q \in Requests : Buyer(n, q)'
    <2>1. PICK q \in Requests : Buyer(n, q)
      BY <1>3, <1>4 DEF DiscoveryNotPurchased, Buyer
    <2>2. q # r
      BY <1>4, <2>1
    <2>3. pc'[q] = pc[q] /\ local'[q] = local[q]
      BY <1>1, <1>4, <2>2, GotoEffect
    <2>. QED
      BY <1>4, <2>1, <2>3 DEF Buyer
  <1>5. ASSUME NEW r \in Requests, Start(r)
        PROVE  \E q \in Requests : Buyer(n, q)'
    <2>1. PICK step \in Steps, l \in Locals : Goto(r, step, l)
      <3>1. NoLocals \in Locals
        BY DEF NoLocals, Locals, NoDoc, NoDef, Doc, Def, States
      <3>2. \E o \in {"find", "reconcile", "assign", "publish", "free"},
               m \in Numbers \cup {NoOne}, a \in Accounts \cup {NoOne},
               step \in {"store", "open", "popen", "fopen"} : Starts(r, o, m, a, step)
        BY <1>5 DEF Start, Find, Reconcile, AssignNumber, SetPublicFields, FreeNumbers
      <3>3. PICK o \in {"find", "reconcile", "assign", "publish", "free"},
                 m \in Numbers \cup {NoOne}, a \in Accounts \cup {NoOne},
                 step \in {"store", "open", "popen", "fopen"} : Starts(r, o, m, a, step)
        BY <3>2
      <3>4. [NoLocals EXCEPT !.op = o, !.num = m, !.acct = a] \in Locals
        BY <3>1 DEF Locals
      <3>. QED
        BY <3>3, <3>4 DEF Starts, Steps, NumberSteps
    <2>2. UNCHANGED <<docs, ordered, unsaved>> /\ pc[r] = "new"
      BY <1>5 DEF Start, Find, Reconcile, AssignNumber, SetPublicFields, FreeNumbers,
                  Starts, dbVars
    <2>. QED
      BY <1>3, <1>4, <2>1, <2>2 DEF Buyer
  <1>6. ASSUME NEW r \in Requests, Store(r) \/ Save(r) \/ PublicSave(r) \/ ReleaseSave(r)
        PROVE  \E q \in Requests : Buyer(n, q)'
    <2>1. UNCHANGED <<ordered, unsaved>>
      BY <1>6 DEF Store, Save, PublicSave, ReleaseSave, historyVars
    <2>2. docs'[n] = docs[n]
      BY <1>3, <1>6, <2>1, SavedIsNotDiscovered
    <2>3. PICK step \in Steps : Goto(r, step, local[r])
      BY <1>6 DEF Store, Save, PublicSave, ReleaseSave, SaveOr, AfterStore, Steps, NumberSteps
    <2>4. ~Buyer(n, r)
      <3>1. CASE pc[r] # "save"
        BY <3>1 DEF Buyer
      <3>2. CASE Save(r)
        <4>1. CASE Refused(local[r].num, Assigned(local[r]))
          BY <1>1, <4>1 DEF Refused, Buyer, Assigned, Locals, Doc
        <4>2. CASE local[r].num # n
          BY <4>2 DEF Buyer
        <4>3. CASE ~Refused(local[r].num, Assigned(local[r])) /\ local[r].num = n
          <5>1. n \in Numbers /\ docs[n].rev \in Nat
            BY <1>1, <2>1 DEF Doc
          <5>2. local[r].acct \in Accounts /\ local[r].copy \in Doc
            BY <1>1, <3>2 DEF Save, IInv, InHand, Steps, NumberSteps, Locals
          <5>3. Assigned(local[r]) \in Doc
            BY <5>2 DEF Assigned, Doc, States
          <5>4. SaveOr(r, Assigned(local[r]), "lopen", "done")
            BY <3>2 DEF Save
          <5>. QED
            BY <1>1, <2>2, <4>3, <5>1, <5>3, <5>4, Saved DEF Refused
        <4>. QED
          BY <4>1, <4>2, <4>3
      <3>. QED
        BY <1>6, <3>1, <3>2 DEF Store, PublicSave, ReleaseSave
    <2>. QED
      BY <1>1, <1>3, <1>4, <2>1, <2>2, <2>3, <2>4
  <1>7. ASSUME NEW r \in Requests, Acquire(r)
        PROVE  \E q \in Requests : Buyer(n, q)'
    <2>1. UNCHANGED <<docs, unsaved>> /\ pc[r] = "acquire"
      BY <1>7 DEF Acquire, dbVars, historyVars
    <2>2. PICK step \in Steps : Goto(r, step, local[r])
      BY <1>7 DEF Acquire, Steps, NumberSteps
    <2>3. CASE n \in ordered
      BY <1>1, <1>4, <1>3, <2>1, <2>2, <2>3 DEF Buyer
    <2>4. CASE n \notin ordered
      <3>1. /\ local[r].copy.state = "discovery" /\ local[r].num = n
            /\ Goto(r, "save", local[r])
        BY <1>3, <1>7, <2>4 DEF Acquire
      <3>2. pc'[r] = "save" /\ local'[r] = local[r]
        BY <1>1, <3>1, GotoEffect DEF Steps, NumberSteps
      <3>3. /\ 0 < local[r].copy.rev /\ local[r].copy.rev <= docs[n].rev
            /\ n \in Numbers
        BY <2>1, <3>1 DEF IInv, InHand, CopySteps, NumberSteps
      <3>4. docs[n].rev = 1 /\ local[r].copy.rev \in Nat
        BY <1>1, <1>3, <2>1, <3>3 DEF Firsts, Locals, Doc
      <3>. QED
        BY <2>1, <3>1, <3>2, <3>3, <3>4 DEF Buyer
    <2>. QED
      BY <2>3, <2>4
  <1>8. ASSUME NEW r \in Requests,
               \/ Reopen(r) \/ Open(r) \/ PublicOpen(r) \/ ReleaseOpen(r) \/ ListOpen(r)
               \/ ListSave(r) \/ FetchRev(r) \/ Aggregate(r) \/ FreeOpen(r) \/ FreeNext(r)
               \/ DeleteAccount(r) \/ Unlist(r)
        PROVE  \E q \in Requests : Buyer(n, q)'
    <2>1. UNCHANGED <<docs, ordered, unsaved>> /\ pc[r] # "save"
      BY <1>8 DEF Reopen, Open, PublicOpen, ReleaseOpen, ListOpen, ListSave, FetchRev,
                  Aggregate, FreeOpen, FreeNext, DeleteAccount, Unlist, dbVars, historyVars
    <2>2. PICK q \in Requests : Buyer(n, q)
      BY <1>3, <2>1 DEF DiscoveryNotPurchased, Buyer
    <2>3. q # r
      BY <2>1, <2>2 DEF Buyer
    <2>4. pc'[q] = pc[q] /\ local'[q] = local[q]
      BY <1>1, <1>8, <2>3
      DEF Reopen, Open, PublicOpen, ReleaseOpen, ListOpen, ListSave, FetchRev,
          Aggregate, FreeOpen, FreeNext, DeleteAccount, Unlist, Goto
    <2>. QED
      BY <2>1, <2>2, <2>4 DEF Buyer
  <1>9. ASSUME NEW r \in Requests, Fault(r)
        PROVE  \E q \in Requests : Buyer(n, q)'
    <2>1. UNCHANGED <<docs, ordered>> /\ unsaved \subseteq unsaved'
          /\ (pc[r] = "save" /\ local[r].copy.state = "discovery"
                => local[r].num \in unsaved')
      BY <1>9 DEF Fault, dbVars
    <2>2. PICK q \in Requests : Buyer(n, q)
      BY <1>3, <2>1 DEF DiscoveryNotPurchased, Buyer
    <2>3. local[q].copy = docs[n]
      BY <2>2 DEF IInv, InHand, CopySteps, Buyer
    <2>4. q # r
      BY <1>3, <2>1, <2>2, <2>3 DEF Buyer
    <2>5. pc'[q] = pc[q] /\ local'[q] = local[q]
      BY <1>1, <1>9, <2>4 DEF Fault, Goto
    <2>. QED
      BY <2>1, <2>2, <2>5 DEF Buyer
  <1>10. ASSUME NEW m \in Numbers, Reclaim(m)
         PROVE  \E q \in Requests : Buyer(n, q)'
    <2>1. UNCHANGED <<ordered, pc, local, unsaved>>
      BY <1>10 DEF Reclaim, requestVars, historyVars
    <2>2. docs'[n] = docs[n]
      BY <1>1, <1>3, <1>10, <2>1 DEF Reclaim, SaveDoc, Doc
    <2>. QED
      BY <1>3, <2>1, <2>2 DEF DiscoveryNotPurchased, Buyer
  <1>. QED
    BY <1>3, <1>5, <1>6, <1>7, <1>8, <1>9, <1>10 DEF Next, Step

\* A number that was bought from its carrier is not left in the state discovery,
\* unless the request that was to save it has failed.
THEOREM PurchasedIsRecorded == Spec => []DiscoveryNotPurchased
  <1>1. Init => DiscoveryNotPurchased
    BY DEF Init, DiscoveryNotPurchased
  <1>. QED
    BY <1>1, NextPurchase, AlwaysIInv, PTL DEF Spec

-----------------------------------------------------------------------------
(* The refinement.                                                         *)

\* One document changes, by a step of the register.
LEMMA RegistryStep ==
  ASSUME docs \in [Numbers -> Doc], docs' \in [Numbers -> Doc], NEW n \in Numbers,
         \A m \in Numbers \ {n} : docs'[m] = docs[m],
         NEW d, docs'[n].state = d.state, docs'[n].owner = d.owner,
         docs'[n].reserved = d.reserved,
         \/ /\ docs[n].state = "none" /\ d.state = "discovery"
            /\ d.owner = docs[n].owner /\ d.reserved = docs[n].reserved
         \/ /\ docs[n].state = "none" /\ d.state = "reserved"
            /\ d.owner = docs[n].owner /\ d.reserved \in Accounts
         \/ /\ \/ docs[n].state \in {"discovery", "available"}
               \/ docs[n].state = "reserved" /\ docs[n].reserved = d.owner
            /\ d.state = "in_service" /\ d.owner \in Accounts
            /\ d.reserved = docs[n].reserved
         \/ /\ docs[n].state = "in_service" /\ d.state = "released"
            /\ d.owner = NoOne /\ d.reserved = docs[n].reserved
         \/ /\ docs[n].state = "released" /\ d.state = "available"
            /\ d.owner = docs[n].owner /\ d.reserved = docs[n].reserved
         \/ /\ d.state = docs[n].state /\ d.owner = docs[n].owner
            /\ d.reserved = docs[n].reserved
  PROVE  [Registry!RegistryNext]_(Registry!regVars)
  <1> DEFINE state == [m \in Numbers |-> docs[m].state]
             owner == [m \in Numbers |-> docs[m].owner]
             reserved == [m \in Numbers |-> docs[m].reserved]
             state1 == [m \in Numbers |-> docs'[m].state]
             owner1 == [m \in Numbers |-> docs'[m].owner]
             reserved1 == [m \in Numbers |-> docs'[m].reserved]
  <1>1. /\ state1 = [state EXCEPT ![n] = d.state]
        /\ owner1 = [owner EXCEPT ![n] = d.owner]
        /\ reserved1 = [reserved EXCEPT ![n] = d.reserved]
    OBVIOUS
  <1>2. /\ d.state = docs[n].state => state1 = state
        /\ d.owner = docs[n].owner => owner1 = owner
        /\ d.reserved = docs[n].reserved => reserved1 = reserved
    OBVIOUS
  <1>3. state[n] = docs[n].state /\ owner[n] = docs[n].owner /\ reserved[n] = docs[n].reserved
    OBVIOUS
  <1>4. CASE docs[n].state = "none" /\ d.state = "discovery"
             /\ d.owner = docs[n].owner /\ d.reserved = docs[n].reserved
    <2>1. Registry!Discover(n)
      BY <1>1, <1>2, <1>3, <1>4 DEF Registry!Discover
    <2>. QED
      BY <2>1 DEF Registry!RegistryNext
  <1>5. CASE docs[n].state = "none" /\ d.state = "reserved"
             /\ d.owner = docs[n].owner /\ d.reserved \in Accounts
    <2>1. Registry!Reserve(n, d.reserved)
      BY <1>1, <1>2, <1>3, <1>5 DEF Registry!Reserve
    <2>. QED
      BY <1>5, <2>1 DEF Registry!RegistryNext
  <1>6. CASE /\ \/ docs[n].state \in {"discovery", "available"}
                \/ docs[n].state = "reserved" /\ docs[n].reserved = d.owner
             /\ d.state = "in_service" /\ d.owner \in Accounts
             /\ d.reserved = docs[n].reserved
    <2>1. Registry!Assign(n, d.owner)
      BY <1>1, <1>2, <1>3, <1>6 DEF Registry!Assign
    <2>. QED
      BY <1>6, <2>1 DEF Registry!RegistryNext
  <1>7. CASE docs[n].state = "in_service" /\ d.state = "released"
             /\ d.owner = NoOne /\ d.reserved = docs[n].reserved
    <2>1. Registry!Release(n)
      BY <1>1, <1>2, <1>3, <1>7 DEF Registry!Release
    <2>. QED
      BY <2>1 DEF Registry!RegistryNext
  <1>8. CASE docs[n].state = "released" /\ d.state = "available"
             /\ d.owner = docs[n].owner /\ d.reserved = docs[n].reserved
    <2>1. Registry!Reclaim(n)
      BY <1>1, <1>2, <1>3, <1>8 DEF Registry!Reclaim
    <2>. QED
      BY <2>1 DEF Registry!RegistryNext
  <1>9. CASE d.state = docs[n].state /\ d.owner = docs[n].owner
             /\ d.reserved = docs[n].reserved
    BY <1>2, <1>9 DEF Registry!regVars
  <1>. QED
    BY <1>4, <1>5, <1>6, <1>7, <1>8, <1>9

LEMMA SavesRefine ==
  ASSUME IInv, IInv', NEW r \in Requests,
         Store(r) \/ Save(r) \/ PublicSave(r) \/ ReleaseSave(r)
  PROVE  [Registry!RegistryNext]_(Registry!regVars)
  <1> DEFINE l == local[r]
             n == l.num
  <1>1. TypeOK /\ InHand(r) /\ docs \in [Numbers -> Doc] /\ docs' \in [Numbers -> Doc]
        /\ l \in Locals
    BY DEF IInv, TypeOK
  <1>2. n \in Numbers /\ docs[n] \in Doc /\ docs[n].rev \in Nat /\ l.copy \in Doc
    BY <1>1 DEF Store, Save, PublicSave, ReleaseSave, InHand, NumberSteps, Locals, Doc
  <1>3. \A m \in Numbers \ {n} : docs'[m] = docs[m]
    BY <1>1 DEF Store, Save, PublicSave, ReleaseSave, SaveOr, SaveDoc
  <1>4. CASE docs'[n] = docs[n]
    BY <1>1, <1>2, <1>3, <1>4, RegistryStep
  <1>5. ASSUME docs'[n] # docs[n], pc[r] \in CopySteps, l.copy.rev = docs[n].rev
        PROVE  l.copy = docs[n]
    BY <1>1, <1>5 DEF InHand
  <1>. SUFFICES ASSUME docs'[n] # docs[n]
                PROVE  [Registry!RegistryNext]_(Registry!regVars)
    BY <1>4
  <1>6. CASE Store(r)
    <2>1. Discovered(r) \in Doc /\ Discovered(r).rev = 0 /\ Discovered(r).owner = NoOne
          /\ \/ Discovered(r).state = "discovery" /\ Discovered(r).reserved = NoOne
             \/ Discovered(r).state = "reserved" /\ Discovered(r).reserved \in Accounts
      BY <1>1, <1>6 DEF Discovered, Doc, NoDoc, States, Locals, Store, InHand
    <2>2. SaveOr(r, Discovered(r), AfterStore(r), "reopen")
      BY <1>6 DEF Store
    <2>3. docs[n].rev = 0 /\ docs'[n].state = Discovered(r).state
          /\ docs'[n].owner = NoOne /\ docs'[n].reserved = Discovered(r).reserved
      BY <1>1, <1>2, <2>1, <2>2, Saved
    <2>4. docs[n].state = "none" /\ docs[n].owner = NoOne /\ docs[n].reserved = NoOne
      BY <1>1, <1>2, <2>3 DEF TypeOK, IInv, Firsts
    <2>. QED
      BY <1>1, <1>2, <1>3, <2>1, <2>3, <2>4, RegistryStep
  <1>7. CASE Save(r)
    <2>1. l.acct \in Accounts /\ Acquirable(l)
      BY <1>1, <1>7 DEF Save, InHand, Steps, NumberSteps
    <2>2. Assigned(l) \in Doc /\ Assigned(l).rev = l.copy.rev
          /\ Assigned(l).state = "in_service" /\ Assigned(l).owner = l.acct
          /\ Assigned(l).reserved = l.copy.reserved
      BY <1>2, <2>1 DEF Assigned, Doc, States
    <2>3. SaveOr(r, Assigned(l), "lopen", "done")
      BY <1>7 DEF Save
    <2>4. l.copy.rev = docs[n].rev /\ docs'[n].state = "in_service"
          /\ docs'[n].owner = l.acct /\ docs'[n].reserved = l.copy.reserved
      BY <1>1, <1>2, <2>2, <2>3, Saved
    <2>5. l.copy = docs[n]
      BY <1>5, <1>7, <2>4 DEF Save, CopySteps
    <2>. QED
      BY <1>1, <1>2, <1>3, <2>1, <2>4, <2>5, RegistryStep DEF Acquirable
  <1>8. CASE PublicSave(r)
    <2>1. SaveOr(r, l.copy, "lopen", "done")
      BY <1>8 DEF PublicSave
    <2>2. l.copy.rev = docs[n].rev /\ docs'[n].state = l.copy.state
          /\ docs'[n].owner = l.copy.owner /\ docs'[n].reserved = l.copy.reserved
      BY <1>1, <1>2, <2>1, Saved
    <2>3. l.copy = docs[n]
      BY <1>5, <1>8, <2>2 DEF PublicSave, CopySteps
    <2>. QED
      BY <1>1, <1>2, <1>3, <2>2, <2>3, RegistryStep
  <1>9. CASE ReleaseSave(r)
    <2> DEFINE doc == [l.copy EXCEPT !.state = "released", !.owner = NoOne]
    <2>1. doc \in Doc /\ doc.state = "released" /\ doc.owner = NoOne
          /\ doc.rev = l.copy.rev /\ doc.reserved = l.copy.reserved
      BY <1>2 DEF Doc, States
    <2>2. SaveOr(r, doc, "lopen", "done")
      BY <1>9 DEF ReleaseSave
    <2>. HIDE DEF doc
    <2>3. l.copy.rev = docs[n].rev /\ docs'[n].state = "released"
          /\ docs'[n].owner = NoOne /\ docs'[n].reserved = l.copy.reserved
      BY <1>1, <1>2, <2>1, <2>2, Saved
    <2>4. l.copy = docs[n] /\ l.copy.state = "in_service"
      BY <1>1, <1>5, <1>9, <2>3 DEF ReleaseSave, CopySteps, InHand
    <2>. QED
      BY <1>1, <1>2, <1>3, <2>3, <2>4, RegistryStep
  <1>. QED
    BY <1>6, <1>7, <1>8, <1>9

LEMMA NextRefines ==
  ASSUME IInv, IInv', [Next]_vars
  PROVE  [Registry!RegistryNext]_(Registry!regVars)
  <1>1. docs \in [Numbers -> Doc] /\ docs' \in [Numbers -> Doc]
    BY DEF IInv, TypeOK
  <1>2. CASE docs' = docs
    BY <1>2 DEF Registry!regVars
  <1>3. ASSUME NEW r \in Requests, Store(r) \/ Save(r) \/ PublicSave(r) \/ ReleaseSave(r)
        PROVE  [Registry!RegistryNext]_(Registry!regVars)
    BY <1>3, SavesRefine
  <1>4. ASSUME NEW n \in Numbers, Reclaim(n)
        PROVE  [Registry!RegistryNext]_(Registry!regVars)
    <2> DEFINE d == [docs[n] EXCEPT !.state = "available"]
    <2>1. /\ d.state = "available" /\ d.owner = docs[n].owner /\ d.reserved = docs[n].reserved
          /\ d \in Doc
      BY <1>1 DEF Doc, States
    <2>2. docs' = [docs EXCEPT ![n] = [d EXCEPT !.rev = @ + 1]] /\ docs[n].state = "released"
      BY <1>4 DEF Reclaim, SaveDoc
    <2>. HIDE DEF d
    <2>3. /\ [d EXCEPT !.rev = @ + 1].state = d.state /\ [d EXCEPT !.rev = @ + 1].owner = d.owner
          /\ [d EXCEPT !.rev = @ + 1].reserved = d.reserved
      BY <2>1 DEF Doc
    <2>4. /\ \A m \in Numbers \ {n} : docs'[m] = docs[m]
          /\ docs'[n].state = d.state /\ docs'[n].owner = d.owner
          /\ docs'[n].reserved = d.reserved
      BY <1>1, <2>2, <2>3
    <2>. QED
      BY <1>1, <2>1, <2>2, <2>4, RegistryStep
  <1>5. docs' = docs
        \/ (\E r \in Requests : Store(r) \/ Save(r) \/ PublicSave(r) \/ ReleaseSave(r))
        \/ (\E n \in Numbers : Reclaim(n))
    BY DEF Next, Start, Step, Fault, vars, dbVars, Find, Reconcile, AssignNumber,
           SetPublicFields, FreeNumbers, Starts, Reopen, Open, Acquire, PublicOpen, ListOpen,
           ListSave, FetchRev, Aggregate, FreeOpen, FreeNext, ReleaseOpen, DeleteAccount, Unlist
  <1>. QED
    BY <1>2, <1>3, <1>4, <1>5

\* The number documents, with requests that overlap, fail and die, are a
\* register of numbers whose states change atomically.
THEOREM DocumentsAreARegister == Spec => ImplementsRegistry
  <1>1. Init => Registry!RegistryInit
    <2>. SUFFICES ASSUME Init PROVE Registry!RegistryInit
      OBVIOUS
    <2>1. PICK stock \in SUBSET Stock :
            docs = [n \in Numbers |-> IF n \in stock
                                      THEN [NoDoc EXCEPT !.rev = 1, !.state = "available"]
                                      ELSE NoDoc]
      BY DEF Init
    <2>2. \A n \in Numbers : /\ docs[n].owner = NoOne /\ docs[n].reserved = NoOne
                             /\ docs[n].state = IF n \in stock THEN "available" ELSE "none"
      BY <2>1 DEF NoDoc
    <2>. QED
      BY <2>2 DEF Registry!RegistryInit
  <1>. QED
    BY <1>1, NextRefines, AlwaysIInv, PTL DEF Spec, ImplementsRegistry, Registry!RegistrySpec

-----------------------------------------------------------------------------
(* The lists agree with the documents.  Of an account whose requests do    *)
(* not overlap at most one runs, and what it is about to do to the list is *)
(* what it has done to the numbers.                                        *)

Serves(a) == {n \in Numbers : docs[n].owner = a}

Settled(a) == /\ Serves(a) = defs[a].list
              /\ defs[a].rev # 0 => accounts[a].list = defs[a].list

OpenSteps == {"store", "reopen", "open", "acquire", "save", "popen", "psave"}
FreeSteps == {"fopen", "next", "ropen", "rsave", "unlist"}
ListSteps == {"lopen", "lsave", "fetch", "aggregate"}

Listing(r) ==
  LET l == local[r] a == l.acct IN
  /\ pc[r] \in OpenSteps => l.op # "free"
  /\ pc[r] \in FreeSteps => l.op = "free"
  /\ pc[r] # "unlist" => defs[a].rev # 0
  /\ pc[r] = "unlist" => defs[a].rev = 0
  /\ pc[r] \in {"lopen", "lsave"} =>
       Serves(a) = IF l.op = "free" THEN defs[a].list \ {l.num} ELSE defs[a].list \cup {l.num}
  /\ pc[r] \notin {"lopen", "lsave"} => Serves(a) = defs[a].list
  /\ pc[r] = "lsave" => l.def = defs[a]
  /\ pc[r] \in {"fetch", "aggregate"} => l.def.list = defs[a].list
  /\ pc[r] \notin {"fetch", "aggregate", "unlist"} => accounts[a].list = defs[a].list
  /\ pc[r] \in {"ropen", "rsave"} => Serves(a) \subseteq l.todo \cup {l.num}
  /\ (pc[r] = "next" \/ (pc[r] \in ListSteps /\ l.op = "free")) => Serves(a) \subseteq l.todo

RunsFor(r, a) == Active(r) /\ local[r].acct = a
Agrees(a) ==
  /\ ~Busy(a) => Settled(a)
  /\ \A r \in Requests : RunsFor(r, a) => Listing(r)
  /\ \A r, q \in Requests : RunsFor(r, a) /\ RunsFor(q, a) => r = q

AllAgree == \A a \in Accounts \ disturbed : Agrees(a)

\* A request moves, and the others stay; it is the only one of the account.
LEMMA OwnMoves ==
  ASSUME NEW a \in Accounts, NEW r \in Requests,
         \A q \in Requests \ {r} : pc'[q] = pc[q] /\ local'[q] = local[q] /\ ~RunsFor(q, a),
         RunsFor(r, a)' => Listing(r)',
         ~RunsFor(r, a)' => Settled(a)'
  PROVE  Agrees(a)'
  <1>1. \A q \in Requests \ {r} : ~RunsFor(q, a)'
    BY DEF RunsFor, Active
  <1>2. Busy(a)' <=> RunsFor(r, a)'
    BY <1>1 DEF Busy, RunsFor
  <1>. QED
    BY <1>1, <1>2 DEF Agrees

\* A step that is none of the account's.
LEMMA OthersMove ==
  ASSUME NEW a \in Accounts, Agrees(a),
         \A q \in Requests : \/ pc'[q] = pc[q] /\ local'[q] = local[q]
                             \/ ~RunsFor(q, a) /\ ~RunsFor(q, a)',
         Serves(a)' = Serves(a), defs'[a] = defs[a], accounts'[a] = accounts[a]
  PROVE  Agrees(a)'
  <1>1. \A q \in Requests : RunsFor(q, a)' <=> RunsFor(q, a)
    BY DEF RunsFor, Active
  <1>2. \A q \in Requests : RunsFor(q, a) => pc'[q] = pc[q] /\ local'[q] = local[q]
    BY <1>1
  <1>3. Busy(a)' <=> Busy(a)
    BY <1>1 DEF Busy, RunsFor
  <1>4. Settled(a)' <=> Settled(a)
    BY DEF Settled
  <1>5. ASSUME NEW q \in Requests, RunsFor(q, a)'
        PROVE  Listing(q)'
    <2>1. RunsFor(q, a) /\ pc'[q] = pc[q] /\ local'[q] = local[q] /\ Listing(q)
      BY <1>1, <1>2, <1>5 DEF Agrees
    <2>2. local[q].acct = a /\ local'[q].acct = a
      BY <2>1 DEF RunsFor
    <2>. QED
      BY <2>1, <2>2 DEF Listing
  <1>. QED
    BY <1>1, <1>3, <1>4, <1>5 DEF Agrees

\* A step of the account's request, by what Goto makes of it.
LEMMA OwnGoes ==
  ASSUME IInv, NEW r \in Requests, NEW a \in Accounts, Agrees(a), RunsFor(r, a),
         NEW step \in Steps, NEW l \in Locals, Goto(r, step, l),
         step # "done" /\ pc'[r] = step /\ local'[r] = l => Listing(r)',
         step = "done" => Settled(a)',
         l.acct = a, step # "new"
  PROVE  Agrees(a)'
  <1>1. /\ pc'[r] = step /\ (step # "done" => local'[r] = l)
        /\ \A q \in Requests \ {r} : pc'[q] = pc[q] /\ local'[q] = local[q]
    BY GotoEffect DEF IInv
  <1>2. \A q \in Requests \ {r} : ~RunsFor(q, a)
    BY DEF Agrees
  <1>3. RunsFor(r, a)' <=> step # "done"
    BY <1>1 DEF RunsFor, Active
  <1>. QED
    BY <1>1, <1>2, <1>3, OwnMoves

\* What a save changes in the numbers of an account.
LEMMA ServesAfter ==
  ASSUME IInv, NEW r \in Requests, local[r].num \in Numbers, NEW step, NEW elsewhere,
         NEW doc \in Doc, SaveOr(r, doc, step, elsewhere), NEW a
  PROVE  \/ /\ Goto(r, step, local[r]) /\ doc.rev = docs[local[r].num].rev
            /\ Serves(a)' = IF doc.owner = a THEN Serves(a) \cup {local[r].num}
                                             ELSE Serves(a) \ {local[r].num}
         \/ Goto(r, elsewhere, local[r]) /\ Serves(a)' = Serves(a)
  <1>1. docs \in [Numbers -> Doc]
    BY DEF IInv, TypeOK
  <1> DEFINE n == local[r].num
             new == [doc EXCEPT !.rev = @ + 1]
  <1>2. new.owner = doc.owner
    BY DEF Doc
  <1>3. CASE docs' = [docs EXCEPT ![n] = new] /\ Goto(r, step, local[r]) /\ doc.rev = docs[n].rev
    <2>. HIDE DEF new
    <2>1. docs'[n].owner = doc.owner /\ \A m \in Numbers \ {n} : docs'[m] = docs[m]
      BY <1>1, <1>2, <1>3
    <2>. HIDE DEF n
    <2>2. Serves(a)' = {m \in Numbers : docs'[m].owner = a}
      BY DEF Serves
    <2>3. Serves(a)' = IF doc.owner = a THEN Serves(a) \cup {n} ELSE Serves(a) \ {n}
      BY <2>1, <2>2 DEF Serves, n
    <2>. QED
      BY <1>3, <2>3 DEF n
  <1>4. CASE docs' = docs /\ Goto(r, elsewhere, local[r])
    BY <1>4 DEF Serves
  <1>. QED
    BY <1>3, <1>4 DEF SaveOr, SaveDoc, Refused

\* Who had the number that a save is not refused for, and who has it then.
LEMMA SavedFor ==
  ASSUME IInv, NEW r \in Requests, Store(r) \/ Save(r) \/ PublicSave(r) \/ ReleaseSave(r)
  PROVE  LET l == local[r] IN
         /\ l \in Locals /\ l.num \in Numbers /\ (pc[r] # "store" => l.acct \in Accounts)
         /\ Store(r) =>
              /\ SaveOr(r, Discovered(r), AfterStore(r), "reopen") /\ Discovered(r) \in Doc
              /\ Discovered(r).owner = NoOne
              /\ Discovered(r).rev = docs[l.num].rev => docs[l.num].owner = NoOne
         /\ Save(r) =>
              /\ SaveOr(r, Assigned(l), "lopen", "done") /\ Assigned(l) \in Doc
              /\ Assigned(l).owner = l.acct
              /\ Assigned(l).rev = docs[l.num].rev => docs[l.num].owner = NoOne
         /\ PublicSave(r) =>
              /\ SaveOr(r, l.copy, "lopen", "done") /\ l.copy \in Doc
              /\ l.copy.owner = l.acct
              /\ l.copy.rev = docs[l.num].rev => docs[l.num].owner = l.acct
         /\ ReleaseSave(r) =>
              LET doc == [l.copy EXCEPT !.state = "released", !.owner = NoOne] IN
              /\ SaveOr(r, doc, "lopen", "done") /\ doc \in Doc /\ doc.owner = NoOne
              /\ doc.rev = docs[l.num].rev => docs[l.num].owner = l.acct
  <1> DEFINE l == local[r]
  <1>1. TypeOK /\ docs \in [Numbers -> Doc] /\ l \in Locals /\ InHand(r)
    BY DEF IInv, TypeOK
  <1>2. l.num \in Numbers /\ l.copy \in Doc /\ docs[l.num] \in Doc
    BY <1>1 DEF Store, Save, PublicSave, ReleaseSave, InHand, NumberSteps, Locals
  <1>3. pc[r] # "store" => l.acct \in Accounts
    BY <1>1 DEF Store, Save, PublicSave, ReleaseSave, InHand, NumberSteps, Steps
  <1>4. l.copy.rev = docs[l.num].rev /\ pc[r] \in CopySteps => l.copy = docs[l.num]
    BY <1>1 DEF InHand
  <1>5. docs[l.num].state # "in_service" => docs[l.num].owner = NoOne
    BY <1>1, <1>2 DEF TypeOK
  <1>6. ASSUME Store(r)
        PROVE  /\ SaveOr(r, Discovered(r), AfterStore(r), "reopen") /\ Discovered(r) \in Doc
               /\ Discovered(r).owner = NoOne
               /\ Discovered(r).rev = docs[l.num].rev => docs[l.num].owner = NoOne
    <2>1. l.op = "find" \/ l.acct \in Accounts
      BY <1>1, <1>6 DEF Store, InHand
    <2>2. Discovered(r) \in Doc /\ Discovered(r).rev = 0 /\ Discovered(r).owner = NoOne
      BY <1>1, <2>1 DEF Discovered, Doc, NoDoc, States, Locals
    <2>3. docs[l.num].rev = 0 => docs[l.num].state # "in_service"
      BY <1>1, <1>2 DEF TypeOK
    <2>. QED
      BY <1>5, <1>6, <2>2, <2>3 DEF Store
  <1>7. ASSUME Save(r)
        PROVE  /\ SaveOr(r, Assigned(l), "lopen", "done") /\ Assigned(l) \in Doc
               /\ Assigned(l).owner = l.acct
               /\ Assigned(l).rev = docs[l.num].rev => docs[l.num].owner = NoOne
    <2>1. l.acct \in Accounts /\ Acquirable(l) /\ pc[r] \in CopySteps
      BY <1>1, <1>3, <1>7 DEF Save, InHand, CopySteps
    <2>2. Assigned(l) \in Doc /\ Assigned(l).rev = l.copy.rev /\ Assigned(l).owner = l.acct
      BY <1>2, <2>1 DEF Assigned, Doc, States
    <2>3. l.copy.state # "in_service"
      BY <2>1 DEF Acquirable
    <2>. QED
      BY <1>4, <1>5, <1>7, <2>1, <2>2, <2>3 DEF Save
  <1>8. ASSUME PublicSave(r)
        PROVE  /\ SaveOr(r, l.copy, "lopen", "done") /\ l.copy \in Doc
               /\ l.copy.owner = l.acct
               /\ l.copy.rev = docs[l.num].rev => docs[l.num].owner = l.acct
    <2>1. pc[r] \in CopySteps /\ l.copy.owner = l.acct
      BY <1>1, <1>8 DEF PublicSave, InHand, CopySteps
    <2>. QED
      BY <1>2, <1>4, <1>8, <2>1 DEF PublicSave
  <1>9. ASSUME ReleaseSave(r), NEW doc,
               doc = [l.copy EXCEPT !.state = "released", !.owner = NoOne]
        PROVE  /\ SaveOr(r, doc, "lopen", "done") /\ doc \in Doc /\ doc.owner = NoOne
               /\ doc.rev = docs[l.num].rev => docs[l.num].owner = l.acct
    <2>1. pc[r] \in CopySteps /\ l.copy.owner = l.acct
      BY <1>1, <1>9 DEF ReleaseSave, InHand, CopySteps
    <2>2. doc \in Doc /\ doc.owner = NoOne /\ doc.rev = l.copy.rev
      BY <1>2, <1>9 DEF Doc, States
    <2>. QED
      BY <1>4, <1>9, <2>1, <2>2 DEF ReleaseSave
  <1>. QED
    BY <1>1, <1>2, <1>3, <1>6, <1>7, <1>8, <1>9


\* The steps up to the save: the lists and the numbers are as they were.
LEMMA OwnOpens ==
  ASSUME IInv, NEW r \in Requests, NEW a \in Accounts, Agrees(a), RunsFor(r, a),
         Reopen(r) \/ Open(r) \/ Acquire(r) \/ PublicOpen(r)
  PROVE  Agrees(a)'
  <1> DEFINE l == local[r]
             opened == [l EXCEPT !.copy = docs[l.num]]
  <1>1. /\ TypeOK /\ l \in Locals /\ InHand(r) /\ Listing(r) /\ l.acct = a
        /\ pc[r] \in {"reopen", "open", "acquire", "popen"}
    BY DEF IInv, TypeOK, Agrees, RunsFor, Reopen, Open, Acquire, PublicOpen
  <1>2. docs[l.num] \in Doc
    BY <1>1 DEF InHand, NumberSteps, TypeOK
  <1>3. /\ opened \in Locals /\ opened.acct = a /\ opened.op = l.op
    BY <1>1, <1>2 DEF Locals
  <1>4. /\ defs' = defs /\ accounts' = accounts /\ Serves(a)' = Serves(a)
    BY DEF Reopen, Open, Acquire, PublicOpen, dbVars, Serves
  <1>5. /\ l.op # "free" /\ defs[a].rev # 0 /\ Serves(a) = defs[a].list
        /\ accounts[a].list = defs[a].list
    BY <1>1 DEF Listing, OpenSteps
  <1>6. PICK x \in {l, opened} : \E step \in OpenSteps \cup {"done"} : Goto(r, step, x)
    BY DEF Reopen, Open, Acquire, PublicOpen, AfterStore, OpenSteps
  <1>7. PICK step \in OpenSteps \cup {"done"} : Goto(r, step, x)
    BY <1>6
  <1>8. x \in Locals /\ x.acct = a /\ x.op # "free"
    BY <1>1, <1>3, <1>5, <1>6
  <1>. HIDE DEF l, opened
  <1>9. ASSUME step # "done", pc'[r] = step, local'[r] = x
        PROVE  Listing(r)'
    BY <1>4, <1>5, <1>7, <1>8, <1>9 DEF Listing, OpenSteps, FreeSteps, ListSteps
  <1>10. Settled(a)'
    BY <1>4, <1>5 DEF Settled
  <1>. QED
    BY <1>7, <1>8, <1>9, <1>10, OwnGoes DEF OpenSteps, Steps, NumberSteps

\* The saves of a number.
LEMMA OwnSaves ==
  ASSUME IInv, NEW r \in Requests, NEW a \in Accounts, Agrees(a), RunsFor(r, a),
         Store(r) \/ Save(r) \/ PublicSave(r) \/ ReleaseSave(r)
  PROVE  Agrees(a)'
  <1> DEFINE l == local[r]
  <1>1. /\ l \in Locals /\ l.num \in Numbers /\ Listing(r) /\ l.acct = a
        /\ pc[r] \in {"store", "save", "psave", "rsave"} /\ NoOne # a
    BY SavedFor, NumberAssumption
       DEF Agrees, RunsFor, Store, Save, PublicSave, ReleaseSave
  <1>2. defs' = defs /\ accounts' = accounts
    BY DEF Store, Save, PublicSave, ReleaseSave
  <1>3. /\ defs[a].rev # 0 /\ Serves(a) = defs[a].list /\ accounts[a].list = defs[a].list
    BY <1>1 DEF Listing
  <1>4. Serves(a) = {n \in Numbers : docs[n].owner = a}
    BY DEF Serves
  <1>. HIDE DEF l
  <1>5. CASE Store(r)
    <2>1. /\ SaveOr(r, Discovered(r), AfterStore(r), "reopen") /\ Discovered(r) \in Doc
          /\ Discovered(r).owner = NoOne
          /\ Discovered(r).rev = docs[l.num].rev => docs[l.num].owner = NoOne
      BY <1>5, SavedFor DEF l
    <2>2. l.op # "free"
      BY <1>1, <1>5 DEF Listing, OpenSteps, Store, l
    <2>3. PICK step \in {"open", "reopen", "done"} :
            Goto(r, step, l) /\ Serves(a)' = Serves(a)
      <3>1. AfterStore(r) \in {"open", "done"}
        BY DEF AfterStore
      <3>2. \/ Goto(r, "reopen", l) /\ Serves(a)' = Serves(a)
            \/ /\ Goto(r, AfterStore(r), l) /\ docs[l.num].owner = NoOne
               /\ Serves(a)' = Serves(a) \ {l.num}
        BY <1>1, <2>1, ServesAfter DEF l
      <3>3. docs[l.num].owner = NoOne => Serves(a) \ {l.num} = Serves(a)
        BY <1>1, <1>4
      <3>. QED
        BY <3>1, <3>2, <3>3
    <2>4. ASSUME step # "done", pc'[r] = step, local'[r] = l
          PROVE  Listing(r)'
      BY <1>1, <1>2, <1>3, <2>2, <2>3, <2>4 DEF Listing, OpenSteps, FreeSteps, ListSteps
    <2>5. Settled(a)'
      BY <1>2, <1>3, <2>3 DEF Settled
    <2>. QED
      BY <1>1, <2>3, <2>4, <2>5, OwnGoes DEF Steps, NumberSteps
  <1>6. ASSUME NEW doc \in Doc, SaveOr(r, doc, "lopen", "done"), doc.owner = a,
               pc[r] \in {"save", "psave"}
        PROVE  Agrees(a)'
    <2>1. l.op # "free"
      BY <1>1, <1>6 DEF Listing, OpenSteps, l
    <2>2. \/ Goto(r, "lopen", l) /\ Serves(a)' = Serves(a) \cup {l.num}
          \/ Goto(r, "done", l) /\ Serves(a)' = Serves(a)
      BY <1>1, <1>6, ServesAfter DEF l
    <2>3. CASE Goto(r, "lopen", l) /\ Serves(a)' = Serves(a) \cup {l.num}
      <3>1. ASSUME pc'[r] = "lopen", local'[r] = l
            PROVE  Listing(r)'
        BY <1>1, <1>2, <1>3, <2>1, <2>3, <3>1 DEF Listing, OpenSteps, FreeSteps, ListSteps
      <3>. QED
        BY <1>1, <2>3, <3>1, OwnGoes DEF Steps, NumberSteps
    <2>4. CASE Goto(r, "done", l) /\ Serves(a)' = Serves(a)
      <3>1. Settled(a)'
        BY <1>2, <1>3, <2>4 DEF Settled
      <3>. QED
        BY <1>1, <2>4, <3>1, OwnGoes DEF Steps, NumberSteps
    <2>. QED
      BY <2>2, <2>3, <2>4
  <1>7. CASE Save(r)
    BY <1>1, <1>6, <1>7, SavedFor DEF l, Save
  <1>8. CASE PublicSave(r)
    BY <1>1, <1>6, <1>8, SavedFor DEF l, PublicSave
  <1>9. CASE ReleaseSave(r)
    <2>1. PICK doc \in Doc : SaveOr(r, doc, "lopen", "done") /\ doc.owner = NoOne
      BY <1>9, SavedFor
    <2>2. l.op = "free" /\ Serves(a) \subseteq l.todo \cup {l.num}
      BY <1>1, <1>9 DEF Listing, FreeSteps, ReleaseSave, l
    <2>3. \/ Goto(r, "lopen", l) /\ Serves(a)' = Serves(a) \ {l.num}
          \/ Goto(r, "done", l) /\ Serves(a)' = Serves(a)
      BY <1>1, <2>1, ServesAfter DEF l
    <2>4. CASE Goto(r, "lopen", l) /\ Serves(a)' = Serves(a) \ {l.num}
      <3>1. ASSUME pc'[r] = "lopen", local'[r] = l
            PROVE  Listing(r)'
        BY <1>1, <1>2, <1>3, <2>2, <2>4, <3>1 DEF Listing, OpenSteps, FreeSteps, ListSteps
      <3>. QED
        BY <1>1, <2>4, <3>1, OwnGoes DEF Steps, NumberSteps
    <2>5. CASE Goto(r, "done", l) /\ Serves(a)' = Serves(a)
      <3>1. Settled(a)'
        BY <1>2, <1>3, <2>5 DEF Settled
      <3>. QED
        BY <1>1, <2>5, <3>1, OwnGoes DEF Steps, NumberSteps
    <2>. QED
      BY <2>3, <2>4, <2>5
  <1>. QED
    BY <1>5, <1>7, <1>8, <1>9

\* The steps on the account's list.
LEMMA OwnLists ==
  ASSUME IInv, NEW r \in Requests, NEW a \in Accounts, Agrees(a), RunsFor(r, a),
         ListOpen(r) \/ ListSave(r) \/ FetchRev(r) \/ Aggregate(r)
  PROVE  Agrees(a)'
  <1> DEFINE l == local[r]
  <1>1. /\ l \in Locals /\ InHand(r) /\ Listing(r) /\ l.acct = a
        /\ pc[r] \in {"lopen", "lsave", "fetch", "aggregate"}
        /\ defs \in [Accounts -> Def] /\ accounts \in [Accounts -> Def]
    BY DEF IInv, TypeOK, Agrees, RunsFor, ListOpen, ListSave, FetchRev, Aggregate
  <1>2. docs' = docs /\ Serves(a)' = Serves(a) /\ l.num \in Numbers
    BY <1>1 DEF ListOpen, ListSave, FetchRev, Aggregate, dbVars, Serves, InHand,
                NumberSteps
  <1>3. defs[a].rev # 0 /\ (l.op = "free" => Serves(a) \subseteq l.todo)
    BY <1>1 DEF Listing, ListSteps
  <1>4. pc[r] \in {"lopen", "lsave"} =>
          /\ accounts[a].list = defs[a].list
          /\ Serves(a) = IF l.op = "free" THEN defs[a].list \ {l.num}
                                          ELSE defs[a].list \cup {l.num}
    BY <1>1 DEF Listing
  <1>5. /\ pc[r] = "lsave" => l.def = defs[a]
        /\ pc[r] \in {"fetch", "aggregate"} =>
             l.def.list = defs[a].list /\ Serves(a) = defs[a].list
    BY <1>1 DEF Listing
  <1>6. AfterList(r) = IF l.op = "free" THEN "next" ELSE "done"
    BY DEF AfterList
  <1>. HIDE DEF l
  <1>7. CASE ListOpen(r)
    <2> DEFINE x == [l EXCEPT !.def = defs[a]]
    <2>1. /\ x \in Locals /\ x.acct = a /\ x.num = l.num /\ x.op = l.op
          /\ x.def = defs[a] /\ x.todo = l.todo
      BY <1>1 DEF Locals
    <2>2. Goto(r, "lsave", x) /\ defs' = defs /\ accounts' = accounts
      BY <1>1, <1>3, <1>7 DEF ListOpen, dbVars, l
    <2>. HIDE DEF x
    <2>3. ASSUME pc'[r] = "lsave", local'[r] = x
          PROVE  Listing(r)'
      BY <1>2, <1>3, <1>4, <1>7, <2>1, <2>2, <2>3
         DEF Listing, OpenSteps, FreeSteps, ListSteps, ListOpen
    <2>. QED
      BY <2>1, <2>2, <2>3, OwnGoes DEF Steps, NumberSteps
  <1>8. CASE ListSave(r)
    <2> DEFINE saved == [rev |-> l.def.rev + 1, list |-> NewList(l)]
               x == [l EXCEPT !.def = saved]
    <2>1. /\ NewList(l) = Serves(a) /\ l.def = defs[a] /\ accounts' = accounts
      BY <1>4, <1>5, <1>8 DEF ListSave, NewList
    <2>2. saved \in Def /\ saved.rev # 0 /\ saved.list = Serves(a)
      BY <1>1, <1>2, <2>1 DEF Def, Serves
    <2>3. defs' = [defs EXCEPT ![a] = saved] /\ Goto(r, "fetch", x)
      BY <1>1, <1>8, <2>1 DEF ListSave, l
    <2>. HIDE DEF saved
    <2>4. /\ x \in Locals /\ x.acct = a /\ x.op = l.op
          /\ x.def = saved /\ x.todo = l.todo
      BY <1>1, <2>2 DEF Locals
    <2>5. defs'[a] = saved
      BY <1>1, <2>3
    <2>. HIDE DEF x
    <2>6. ASSUME pc'[r] = "fetch", local'[r] = x
          PROVE  Listing(r)'
      BY <1>2, <1>3, <2>2, <2>4, <2>5, <2>6 DEF Listing, OpenSteps, FreeSteps, ListSteps
    <2>. QED
      BY <2>3, <2>4, <2>6, OwnGoes DEF Steps, NumberSteps
  <1>9. CASE FetchRev(r)
    <2> DEFINE x == [l EXCEPT !.def.rev = accounts[a].rev]
    <2>1. accounts[a].rev \in Nat
      BY <1>1 DEF Def
    <2>2. /\ x \in Locals /\ x.acct = a /\ x.op = l.op /\ x.todo = l.todo
          /\ x.def.list = l.def.list
      BY <1>1, <2>1 DEF Locals, Def
    <2>3. /\ Goto(r, "aggregate", x) /\ defs' = defs /\ accounts' = accounts
          /\ l.def.list = defs[a].list /\ Serves(a) = defs[a].list
      BY <1>1, <1>5, <1>9 DEF FetchRev, dbVars, l
    <2>. HIDE DEF x
    <2>4. ASSUME pc'[r] = "aggregate", local'[r] = x
          PROVE  Listing(r)'
      BY <1>2, <1>3, <2>2, <2>3, <2>4 DEF Listing, OpenSteps, FreeSteps, ListSteps
    <2>. QED
      BY <2>2, <2>3, <2>4, OwnGoes DEF Steps, NumberSteps
  <1>10. CASE Aggregate(r) /\ l.def.rev # accounts[a].rev
    <2>1. /\ Goto(r, "fetch", l) /\ defs' = defs /\ accounts' = accounts
          /\ l.def.list = defs[a].list /\ Serves(a) = defs[a].list
      BY <1>1, <1>5, <1>10 DEF Aggregate, l
    <2>2. ASSUME pc'[r] = "fetch", local'[r] = l
          PROVE  Listing(r)'
      BY <1>1, <1>2, <1>3, <2>1, <2>2 DEF Listing, OpenSteps, FreeSteps, ListSteps
    <2>. QED
      BY <1>1, <2>1, <2>2, OwnGoes DEF Steps, NumberSteps
  <1>11. CASE Aggregate(r) /\ l.def.rev = accounts[a].rev
    <2> DEFINE copy == [rev |-> l.def.rev + 1, list |-> l.def.list]
    <2>1. l.def.list = defs[a].list /\ Serves(a) = defs[a].list
      BY <1>5, <1>11 DEF Aggregate
    <2>2. /\ defs' = defs /\ accounts' = [accounts EXCEPT ![a] = copy]
          /\ Goto(r, AfterList(r), l)
      BY <1>1, <1>11 DEF Aggregate, l
    <2>3. accounts'[a].list = defs[a].list
      BY <1>1, <2>1, <2>2
    <2>4. CASE l.op = "free"
      <3>1. Goto(r, "next", l)
        BY <1>6, <2>2, <2>4
      <3>2. ASSUME pc'[r] = "next", local'[r] = l
            PROVE  Listing(r)'
        BY <1>1, <1>2, <1>3, <2>1, <2>2, <2>3, <2>4, <3>2
           DEF Listing, OpenSteps, FreeSteps, ListSteps
      <3>. QED
        BY <1>1, <3>1, <3>2, OwnGoes DEF Steps, NumberSteps
    <2>5. CASE l.op # "free"
      <3>1. Goto(r, "done", l)
        BY <1>6, <2>2, <2>5
      <3>2. Settled(a)'
        BY <1>2, <2>1, <2>2, <2>3 DEF Settled
      <3>. QED
        BY <1>1, <3>1, <3>2, OwnGoes DEF Steps, NumberSteps
    <2>. QED
      BY <2>4, <2>5
  <1>. QED
    BY <1>7, <1>8, <1>9, <1>10, <1>11

\* The steps of free_numbers/1, and of the deletion of the account.
LEMMA OwnFrees ==
  ASSUME IInv, NEW r \in Requests, NEW a \in Accounts, Agrees(a), RunsFor(r, a),
         FreeOpen(r) \/ FreeNext(r) \/ ReleaseOpen(r) \/ DeleteAccount(r) \/ Unlist(r)
  PROVE  Agrees(a)'
  <1> DEFINE l == local[r]
  <1>1. /\ TypeOK /\ l \in Locals /\ InHand(r) /\ Listing(r) /\ l.acct = a
        /\ pc[r] \in {"fopen", "next", "ropen", "unlist"} /\ NoOne # a
        /\ defs \in [Accounts -> Def] /\ accounts \in [Accounts -> Def]
    BY NumberAssumption
       DEF IInv, TypeOK, Agrees, RunsFor, FreeOpen, FreeNext, ReleaseOpen, DeleteAccount,
           Unlist
  <1>2. docs' = docs /\ Serves(a)' = Serves(a)
    BY DEF FreeOpen, FreeNext, ReleaseOpen, DeleteAccount, Unlist, dbVars, Serves
  <1>3. l.op = "free" /\ Serves(a) = defs[a].list
    BY <1>1 DEF Listing, FreeSteps
  <1>4. pc[r] # "unlist" => defs[a].rev # 0 /\ accounts[a].list = defs[a].list
    BY <1>1 DEF Listing
  <1>. HIDE DEF l
  <1>5. CASE FreeOpen(r)
    <2> DEFINE x == [l EXCEPT !.todo = defs[a].list]
    <2>1. x \in Locals /\ x.acct = a /\ x.op = "free" /\ x.todo = defs[a].list
      BY <1>1, <1>3 DEF Locals, Def
    <2>2. Goto(r, "next", x) /\ defs' = defs /\ accounts' = accounts /\ pc[r] = "fopen"
      BY <1>1, <1>5 DEF FreeOpen, dbVars, l
    <2>. HIDE DEF x
    <2>3. ASSUME pc'[r] = "next", local'[r] = x
          PROVE  Listing(r)'
      BY <1>2, <1>3, <1>4, <2>1, <2>2, <2>3 DEF Listing, OpenSteps, FreeSteps, ListSteps
    <2>. QED
      BY <2>1, <2>2, <2>3, OwnGoes DEF Steps, NumberSteps
  <1>6. CASE FreeNext(r)
    <2>1. PICK n \in l.todo : Goto(r, "ropen", [l EXCEPT !.num = n, !.todo = @ \ {n}])
      BY <1>6 DEF FreeNext, l
    <2> DEFINE x == [l EXCEPT !.num = n, !.todo = @ \ {n}]
    <2>2. /\ x \in Locals /\ x.acct = a /\ x.op = "free" /\ x.num = n
          /\ x.todo = l.todo \ {n}
      BY <1>1, <1>3, <2>1 DEF Locals
    <2>3. Goto(r, "ropen", x) /\ defs' = defs /\ accounts' = accounts /\ pc[r] = "next"
      BY <1>6, <2>1 DEF FreeNext, dbVars
    <2>4. Serves(a) \subseteq l.todo
      BY <1>1, <2>3 DEF Listing, l
    <2>. HIDE DEF x
    <2>5. ASSUME pc'[r] = "ropen", local'[r] = x
          PROVE  Listing(r)'
      BY <1>2, <1>3, <1>4, <2>2, <2>3, <2>4, <2>5
         DEF Listing, OpenSteps, FreeSteps, ListSteps
    <2>. QED
      BY <2>2, <2>3, <2>5, OwnGoes DEF Steps, NumberSteps
  <1>7. CASE ReleaseOpen(r)
    <2> DEFINE doc == docs[l.num]
               x == [l EXCEPT !.copy = doc]
               step == CASE doc.rev = 0 -> "lopen"
                         [] doc.state = "in_service" /\ doc.owner = l.acct -> "rsave"
                         [] OTHER -> "done"
    <2>1. Goto(r, step, x) /\ defs' = defs /\ accounts' = accounts /\ pc[r] = "ropen"
      BY <1>7 DEF ReleaseOpen, dbVars, l
    <2>2. l.num \in Numbers /\ doc \in Doc
      BY <1>1, <2>1 DEF InHand, NumberSteps, TypeOK, l
    <2>3. x \in Locals /\ x.acct = a /\ x.op = "free" /\ x.num = l.num /\ x.todo = l.todo
      BY <1>1, <1>3, <2>2 DEF Locals
    <2>4. Serves(a) \subseteq l.todo \cup {l.num}
      BY <1>1, <2>1 DEF Listing, l
    <2>5. /\ step \in {"lopen", "rsave", "done"}
          /\ step = "lopen" => l.num \notin Serves(a)
      <3>1. CASE doc.rev = 0
        <4>1. doc.state = "none" /\ doc.owner = NoOne
          BY <1>1, <2>2, <3>1 DEF TypeOK
        <4>. QED
          BY <1>1, <3>1, <4>1 DEF Serves
      <3>2. CASE doc.rev # 0
        BY <3>2
      <3>. QED
        BY <3>1, <3>2
    <2>. HIDE DEF x, step, doc
    <2>6. ASSUME step # "done", pc'[r] = step, local'[r] = x
          PROVE  Listing(r)'
      <3>1. CASE step = "lopen"
        <4>1. Serves(a) = defs[a].list \ {l.num} /\ Serves(a) \subseteq l.todo
          BY <1>3, <2>4, <2>5, <3>1
        <4>. QED
          BY <1>2, <1>4, <2>1, <2>3, <2>6, <3>1, <4>1
             DEF Listing, OpenSteps, FreeSteps, ListSteps
      <3>2. CASE step = "rsave"
        BY <1>2, <1>3, <1>4, <2>1, <2>3, <2>4, <2>6, <3>2
           DEF Listing, OpenSteps, FreeSteps, ListSteps
      <3>. QED
        BY <2>5, <2>6, <3>1, <3>2
    <2>7. Settled(a)'
      BY <1>2, <1>3, <1>4, <2>1 DEF Settled
    <2>. QED
      BY <2>1, <2>3, <2>5, <2>6, <2>7, OwnGoes DEF Steps, NumberSteps
  <1>8. CASE DeleteAccount(r)
    <2>1. Serves(a) = {}
      BY <1>1, <1>8 DEF Listing, DeleteAccount, l
    <2>2. /\ defs' = [defs EXCEPT ![a] = NoDef] /\ Goto(r, "unlist", l)
          /\ accounts' = accounts
      BY <1>1, <1>8 DEF DeleteAccount, l
    <2>3. defs'[a].rev = 0 /\ defs'[a].list = {}
      BY <1>1, <2>2 DEF NoDef
    <2>4. ASSUME pc'[r] = "unlist", local'[r] = l
          PROVE  Listing(r)'
      BY <1>1, <1>2, <1>3, <2>1, <2>2, <2>3, <2>4
         DEF Listing, OpenSteps, FreeSteps, ListSteps
    <2>. QED
      BY <1>1, <2>2, <2>4, OwnGoes DEF Steps, NumberSteps
  <1>9. CASE Unlist(r)
    <2>1. Goto(r, "done", l) /\ defs' = defs
      BY <1>9 DEF Unlist, l
    <2>2. defs[a].rev = 0
      BY <1>1, <1>9 DEF Listing, Unlist, l
    <2>3. Settled(a)'
      BY <1>2, <1>3, <2>1, <2>2 DEF Settled
    <2>. QED
      BY <1>1, <2>1, <2>3, OwnGoes DEF Steps, NumberSteps
  <1>. QED
    BY <1>5, <1>6, <1>7, <1>8, <1>9

\* The steps of any request.
OneMoves(r) == /\ \A q \in Requests \ {r} : pc'[q] = pc[q] /\ local'[q] = local[q]
               /\ pc'[r] = "done" \/ local'[r].acct = local[r].acct

LEMMA StepMoves ==
  ASSUME TypeOK, NEW r \in Requests, Step(r)
  PROVE  OneMoves(r)
  <1> DEFINE l == local[r]
  <1>1. /\ l \in Locals /\ DOMAIN pc = Requests /\ DOMAIN local = Requests
    BY DEF TypeOK
  <1>2. ASSUME NEW step, NEW x, Goto(r, step, x), x.acct = l.acct
        PROVE  OneMoves(r)
    <2>1. CASE step = "done"
      BY <1>1, <1>2, <2>1 DEF Goto, OneMoves
    <2>2. CASE step # "done"
      BY <1>1, <1>2, <2>2 DEF Goto, OneMoves
    <2>. QED
      BY <2>1, <2>2
  <1>3. \A c, d, t, n : /\ [l EXCEPT !.copy = c].acct = l.acct
                        /\ [l EXCEPT !.def = d].acct = l.acct
                        /\ [l EXCEPT !.def.rev = d].acct = l.acct
                        /\ [l EXCEPT !.todo = t].acct = l.acct
                        /\ [l EXCEPT !.num = n, !.todo = t].acct = l.acct
    BY <1>1 DEF Locals
  <1>4. CASE Store(r) \/ Save(r) \/ PublicSave(r) \/ ReleaseSave(r)
    BY <1>2, <1>4 DEF Store, Save, PublicSave, ReleaseSave, SaveOr
  <1>5. CASE Reopen(r) \/ Acquire(r) \/ Aggregate(r) \/ DeleteAccount(r) \/ Unlist(r)
    BY <1>2, <1>5 DEF Reopen, Acquire, Aggregate, DeleteAccount, Unlist
  <1>6. CASE Open(r)
    BY <1>2, <1>3, <1>6 DEF Open
  <1>7. CASE PublicOpen(r)
    BY <1>2, <1>3, <1>7 DEF PublicOpen
  <1>8. CASE ReleaseOpen(r)
    BY <1>2, <1>3, <1>8 DEF ReleaseOpen
  <1>9. CASE ListOpen(r)
    BY <1>2, <1>3, <1>9 DEF ListOpen
  <1>10. CASE ListSave(r)
    BY <1>2, <1>3, <1>10 DEF ListSave
  <1>11. CASE FreeOpen(r)
    BY <1>2, <1>3, <1>11 DEF FreeOpen
  <1>12. CASE FreeNext(r)
    <2>1. PICK n \in l.todo : Goto(r, "ropen", [l EXCEPT !.num = n, !.todo = l.todo \ {n}])
      BY <1>12 DEF FreeNext
    <2>. QED
      BY <1>2, <1>3, <2>1
  <1>13. CASE FetchRev(r)
    BY <1>2, <1>3, <1>13 DEF FetchRev
  <1>. QED
    BY <1>4, <1>5, <1>6, <1>7, <1>8, <1>9, <1>10, <1>11, <1>12, <1>13 DEF Step

\* A save takes a number only from the account it is saved for, or from none.
LEMMA OtherServes ==
  ASSUME IInv, NEW r \in Requests, Step(r), NEW a \in Accounts, local[r].acct # a
  PROVE  Serves(a)' = Serves(a)
  <1> DEFINE l == local[r]
  <1>1. NoOne # a
    BY NumberAssumption
  <1>2. CASE Store(r) \/ Save(r) \/ PublicSave(r) \/ ReleaseSave(r)
    <2>1. PICK doc \in Doc : \E step \in Steps : \E elsewhere \in Steps :
             /\ SaveOr(r, doc, step, elsewhere) /\ doc.owner # a
             /\ doc.rev = docs[l.num].rev => docs[l.num].owner # a
      <3>1. CASE Store(r)
        <4>1. AfterStore(r) \in Steps
          BY DEF AfterStore, Steps, NumberSteps
        <4>. QED
          BY <1>1, <3>1, <4>1, SavedFor DEF Steps, NumberSteps
      <3>2. CASE Save(r)
        BY <1>1, <3>2, SavedFor DEF Steps, NumberSteps
      <3>3. CASE PublicSave(r)
        BY <1>1, <3>3, SavedFor DEF Steps, NumberSteps
      <3>4. CASE ReleaseSave(r)
        BY <1>1, <3>4, SavedFor DEF Steps, NumberSteps
      <3>. QED
        BY <1>2, <3>1, <3>2, <3>3, <3>4
    <2>2. l.num \in Numbers
      BY <1>2, SavedFor
    <2>3. \/ Serves(a)' = Serves(a)
          \/ doc.rev = docs[l.num].rev /\ Serves(a)' = Serves(a) \ {l.num}
      BY <2>1, <2>2, ServesAfter
    <2>4. docs[l.num].owner # a => l.num \notin Serves(a)
      BY DEF Serves
    <2>. QED
      BY <2>1, <2>3, <2>4
  <1>3. CASE ~(Store(r) \/ Save(r) \/ PublicSave(r) \/ ReleaseSave(r))
    <2>1. docs' = docs
      BY <1>3 DEF Step, Reopen, Open, Acquire, PublicOpen, ListOpen, ListSave, FetchRev,
                  Aggregate, FreeOpen, FreeNext, ReleaseOpen, DeleteAccount, Unlist, dbVars
    <2>. QED
      BY <2>1 DEF Serves
  <1>. QED
    BY <1>2, <1>3

LEMMA StepAgrees ==
  ASSUME IInv, NEW r \in Requests, Step(r), NEW a \in Accounts, Agrees(a)
  PROVE  Agrees(a)'
  <1>1. CASE RunsFor(r, a)
    BY <1>1, OwnOpens, OwnSaves, OwnLists, OwnFrees DEF Step
  <1>2. CASE ~RunsFor(r, a)
    <2>1. TypeOK /\ OneMoves(r)
      BY StepMoves DEF IInv
    <2>2. Active(r)
      BY DEF Active, Step, Store, Reopen, Open, Acquire, Save, PublicOpen, PublicSave,
             ListOpen, ListSave, FetchRev, Aggregate, FreeOpen, FreeNext, ReleaseOpen, ReleaseSave,
             DeleteAccount, Unlist
    <2>3. local[r].acct # a
      BY <1>2, <2>2 DEF RunsFor
    <2>4. ~RunsFor(r, a)'
      BY <2>1, <2>3 DEF RunsFor, Active, OneMoves
    <2>5. defs'[a] = defs[a] /\ accounts'[a] = accounts[a]
      <3>1. DOMAIN defs = Accounts /\ DOMAIN accounts = Accounts
        BY <2>1 DEF TypeOK
      <3>2. \/ defs' = defs
            \/ \E d : defs' = [defs EXCEPT ![local[r].acct] = d]
        BY DEF Step, Store, Reopen, Open, Acquire, Save, PublicOpen, PublicSave,
               ListOpen, ListSave, FetchRev, Aggregate, FreeOpen, FreeNext, ReleaseOpen,
               ReleaseSave, DeleteAccount, Unlist, dbVars
      <3>3. \/ accounts' = accounts
            \/ \E d : accounts' = [accounts EXCEPT ![local[r].acct] = d]
        BY DEF Step, Store, Reopen, Open, Acquire, Save, PublicOpen, PublicSave,
               ListOpen, ListSave, FetchRev, Aggregate, FreeOpen, FreeNext, ReleaseOpen,
               ReleaseSave, DeleteAccount, Unlist, dbVars
      <3>. QED
        BY <2>3, <3>1, <3>2, <3>3
    <2>. QED
      BY <1>2, <2>1, <2>3, <2>4, <2>5, OtherServes, OthersMove DEF OneMoves
  <1>. QED
    BY <1>1, <1>2

LEMMA StartAgrees ==
  ASSUME IInv, NEW r \in Requests, Start(r), NEW a \in Accounts \ disturbed', Agrees(a)
  PROVE  Agrees(a)'
  <1>1. TypeOK /\ NoOne # a
    BY NumberAssumption DEF IInv
  <1>2. ASSUME NEW o \in {"find", "reconcile", "assign", "publish", "free"},
               NEW n \in Numbers \cup {NoOne}, NEW b \in Accounts \cup {NoOne},
               NEW step \in {"store", "open", "popen", "fopen"},
               Starts(r, o, n, b, step), step = "fopen" <=> o = "free"
        PROVE  Agrees(a)'
    <2> DEFINE l == [NoLocals EXCEPT !.op = o, !.num = n, !.acct = b]
    <2>1. l \in Locals /\ l.op = o /\ l.acct = b
      BY <1>2 DEF NoLocals, Locals, NoDoc, NoDef, Doc, Def, States
    <2>2. /\ pc'[r] = step /\ local'[r] = l
          /\ \A q \in Requests \ {r} : pc'[q] = pc[q] /\ local'[q] = local[q]
      <3>1. Goto(r, step, l) /\ step \in Steps /\ step # "done"
        BY <1>2 DEF Starts, Steps, NumberSteps
      <3>. QED
        BY <1>1, <2>1, <3>1, GotoEffect
    <2>. HIDE DEF l
    <2>3. UNCHANGED <<docs, defs, accounts>> /\ ~RunsFor(r, a)
      BY <1>2 DEF Starts, dbVars, RunsFor, Active
    <2>4. Serves(a)' = Serves(a)
      BY <2>3 DEF Serves
    <2>5. CASE b = a
      <3>1. ~Busy(a) /\ defs[a].rev # 0
        BY <1>2, <2>5 DEF Starts
      <3>2. Settled(a) /\ \A q \in Requests : ~RunsFor(q, a)
        BY <3>1 DEF Agrees, Busy, RunsFor
      <3>3. RunsFor(r, a)'
        BY <1>2, <2>1, <2>2, <2>5 DEF RunsFor, Active
      <3>4. Listing(r)'
        BY <1>2, <2>1, <2>2, <2>3, <2>4, <2>5, <3>1, <3>2
           DEF Listing, Settled, OpenSteps, FreeSteps, ListSteps
      <3>. QED
        BY <2>2, <3>2, <3>3, <3>4, OwnMoves
    <2>6. CASE b # a
      <3>1. ~RunsFor(r, a)'
        BY <2>1, <2>2, <2>6 DEF RunsFor
      <3>. QED
        BY <2>2, <2>3, <2>4, <3>1, OthersMove
    <2>. QED
      BY <2>5, <2>6
  <1>. QED
    BY <1>2 DEF Start, Find, Reconcile, AssignNumber, SetPublicFields, FreeNumbers

\* A failure is the account's own, and leaves the others alone.
LEMMA FaultAgrees ==
  ASSUME IInv, NEW r \in Requests, Fault(r), NEW a \in Accounts \ disturbed', Agrees(a)
  PROVE  Agrees(a)'
  <1>1. /\ local[r].acct # a /\ UNCHANGED <<docs, defs, accounts>>
        /\ DOMAIN pc = Requests /\ DOMAIN local = Requests
    BY DEF Fault, dbVars, IInv, TypeOK
  <1>2. PICK step : Goto(r, step, local[r])
    BY DEF Fault
  <1>3. \A q \in Requests \ {r} : pc'[q] = pc[q] /\ local'[q] = local[q]
    BY <1>1, <1>2 DEF Goto
  <1>4. pc'[r] = "done" \/ local'[r] = local[r]
    BY <1>1, <1>2 DEF Goto
  <1>5. ~RunsFor(r, a) /\ ~RunsFor(r, a)' /\ Serves(a)' = Serves(a)
    BY <1>1, <1>4 DEF RunsFor, Active, Serves
  <1>. QED
    BY <1>1, <1>3, <1>5, OthersMove

LEMMA ReclaimAgrees ==
  ASSUME IInv, NEW n \in Numbers, Reclaim(n), NEW a \in Accounts, Agrees(a)
  PROVE  Agrees(a)'
  <1>1. UNCHANGED <<defs, accounts, pc, local>> /\ docs \in [Numbers -> Doc]
    BY DEF Reclaim, requestVars, IInv, TypeOK
  <1>2. \A m \in Numbers : docs'[m].owner = docs[m].owner
    <2> DEFINE d == [docs[n] EXCEPT !.state = "available"]
               saved == [d EXCEPT !.rev = @ + 1]
    <2>1. saved.owner = docs[n].owner
      BY <1>1 DEF Doc
    <2>2. docs' = [docs EXCEPT ![n] = saved]
      BY DEF Reclaim, SaveDoc
    <2>. HIDE DEF saved
    <2>. QED
      BY <1>1, <2>1, <2>2
  <1>3. Serves(a)' = Serves(a)
    BY <1>2 DEF Serves
  <1>. QED
    BY <1>1, <1>3, OthersMove

LEMMA InitAgrees == Init => AllAgree
  <1>. SUFFICES ASSUME Init, NEW a \in Accounts
                PROVE  Agrees(a)
    BY DEF AllAgree
  <1>1. \A r \in Requests : ~Active(r)
    BY DEF Init, Active
  <1>2. Serves(a) = {} /\ defs[a].list = {} /\ accounts[a].list = {}
    BY NumberAssumption DEF Init, Serves, NoDoc
  <1>. QED
    BY <1>1, <1>2 DEF Agrees, Settled, RunsFor

LEMMA NextAgrees == IInv /\ AllAgree /\ [Next]_vars => AllAgree'
  <1>. SUFFICES ASSUME IInv, AllAgree, [Next]_vars, NEW a \in Accounts \ disturbed'
                PROVE  Agrees(a)'
    BY DEF AllAgree
  <1>1. disturbed \subseteq disturbed'
    BY DEF Next, Start, Find, Reconcile, AssignNumber, SetPublicFields, FreeNumbers, Starts,
           Step, Store, Reopen, Open, Acquire, Save, PublicOpen, PublicSave,
           ListOpen, ListSave, FetchRev, Aggregate, FreeOpen, FreeNext, ReleaseOpen, ReleaseSave,
           DeleteAccount, Unlist, Fault, Reclaim, historyVars, vars
  <1>2. Agrees(a)
    BY <1>1 DEF AllAgree
  <1>3. CASE UNCHANGED vars
    <2>1. UNCHANGED <<docs, defs, accounts, pc, local>>
      BY <1>3 DEF vars, dbVars, requestVars
    <2>. QED
      BY <1>2, <2>1, OthersMove DEF Serves
  <1>4. CASE Next
    BY <1>2, <1>4, StartAgrees, StepAgrees, FaultAgrees, ReclaimAgrees DEF Next
  <1>. QED
    BY <1>3, <1>4

\* The definition of an account, and its copy in the accounts database, list the
\* numbers whose documents are in service for it whenever none of its requests
\* runs (the saves of wh_number_manager.erl:433-467), unless requests of the
\* account overlapped or failed: no request of another account can part them.
THEOREM ListsStayInAgreement == Spec => []ListsAgree
  <1>1. AllAgree => ListsAgree
    BY DEF AllAgree, Agrees, Settled, Serves, ListsAgree
  <1>. QED
    BY <1>1, InitIInv, NextIInv, InitAgrees, NextAgrees, PTL DEF Spec

=============================================================================
