---------------------------- MODULE NumberManager ----------------------------
(***************************************************************************)
(* The number manager (wh_number_manager.erl): requests of crossbar, each  *)
(* in a process of its own, that discover, reserve, assign, edit and free  *)
(* phone numbers.                                                          *)
(*                                                                         *)
(* Nothing is locked.  A number is a CouchDB document, an account has a    *)
(* definition with the list of its numbers, and a request reads a document,*)
(* decides, perhaps calls the number's carrier, and saves what it read     *)
(* with its changes; CouchDB refuses the save when the document's revision *)
(* has moved on.  Every call to the database or to a carrier is a step, so *)
(* other requests run in between; any may fail, and a request may die.     *)
(*                                                                         *)
(* Lists of numbers are sets: their order means nothing.                   *)
(***************************************************************************)
EXTENDS Integers, FiniteSets

CONSTANTS
  Numbers, Accounts,
  NoOne,          \* no account, and no number
  Stock,          \* numbers the system admins may have made available
  MaxRequests,    \* bound: requests ever made, each by a process of its own
  MaxRunning,     \* bound: requests running at once
  MaxFaults       \* bound: calls that fail and requests that die

ASSUME NumberAssumption ==
  /\ NoOne \notin Accounts \cup Numbers
  /\ Stock \subseteq Numbers
  /\ MaxRequests \in Nat /\ MaxRunning \in Nat /\ MaxFaults \in Nat

\* A request is the number of its start.
Requests == 1..MaxRequests

VARIABLES
  docs,           \* the number documents; revision 0 is no document
  defs,           \* the account definitions, each in the account's database
  accounts,       \* the copies of them in the accounts database
  ordered,        \* numbers bought from their carrier
  pc,             \* what a request does next
  local,          \* the variables of its function; none when it has ended
  faults,         \* faults so far
  unsaved,        \* history: numbers bought by a request that failed after it
  disturbed       \* history: accounts with overlapping or failed requests

dbVars == <<docs, defs, accounts>>
requestVars == <<pc, local>>
historyVars == <<faults, unsaved, disturbed>>
vars == <<dbVars, ordered, requestVars, historyVars>>

States == {"none", "discovery", "available", "reserved", "in_service", "released"}
Doc == [rev : Nat, state : States, owner : Accounts \cup {NoOne},
        reserved : Accounts \cup {NoOne}, module : {"wnm_local", "wnm_bandwidth"}]
Def == [rev : Nat, list : SUBSET Numbers]

NoDoc == [rev |-> 0, state |-> "none", owner |-> NoOne, reserved |-> NoOne,
          module |-> "wnm_local"]
NoDef == [rev |-> 0, list |-> {}]

\* op: the function; num, acct: its arguments; copy, def: the documents it has
\* opened; todo: the numbers free_numbers/1 has still to release.
Locals == [op : {"none", "find", "reconcile", "assign", "publish", "free"},
           num : Numbers \cup {NoOne}, acct : Accounts \cup {NoOne},
           copy : Doc, def : Def, todo : SUBSET Numbers]
NoLocals == [op |-> "none", num |-> NoOne, acct |-> NoOne, copy |-> NoDoc,
             def |-> NoDef, todo |-> {}]

\* Some numbers are there to be had; of the others nothing is known.
Init ==
  /\ \E stock \in SUBSET Stock :
       docs = [n \in Numbers |-> IF n \in stock
                                 THEN [NoDoc EXCEPT !.rev = 1, !.state = "available"]
                                 ELSE NoDoc]
  /\ defs = [a \in Accounts |-> [rev |-> 1, list |-> {}]]
  /\ accounts = defs /\ ordered = {}
  /\ pc = [r \in Requests |-> "new"] /\ local = [r \in Requests |-> NoLocals]
  /\ faults = 0 /\ unsaved = {} /\ disturbed = {}

-----------------------------------------------------------------------------
(* Requests and the database.                                              *)

Active(r) == pc[r] \notin {"new", "done"}
Busy(a) == \E r \in Requests : Active(r) /\ local[r].acct = a

Goto(r, step, l) ==
  /\ pc' = [pc EXCEPT ![r] = step]
  /\ local' = [local EXCEPT ![r] = IF step = "done" THEN NoLocals ELSE l]

\* couch_mgr:save_doc of a document with the revision of the one opened.
Refused(n, doc) == doc.rev # docs[n].rev
SaveDoc(n, doc) == docs' = [docs EXCEPT ![n] = [doc EXCEPT !.rev = @ + 1]]

\* Save the document, and go on; when it is refused, go elsewhere.
SaveOr(r, doc, step, elsewhere) ==
  LET l == local[r] IN
  \/ /\ ~Refused(l.num, doc)
     /\ SaveDoc(l.num, doc)
     /\ Goto(r, step, l)
  \/ /\ Refused(l.num, doc)
     /\ Goto(r, elsewhere, l)
     /\ UNCHANGED docs

\* After the account's list a request is done, but for free_numbers/1.
AfterList(r) == IF local[r].op = "free" THEN "next" ELSE "done"

-----------------------------------------------------------------------------
(* The start of a request.  Crossbar runs it for an account that exists.   *)

Starts(r, o, n, a, step) ==
  /\ Cardinality({q \in Requests : Active(q)}) < MaxRunning
  /\ pc[r] = "new" /\ \A q \in 1..(r - 1) : pc[q] # "new"
  /\ a \in Accounts => defs[a].rev # 0
  /\ Goto(r, step, [NoLocals EXCEPT !.op = o, !.num = n, !.acct = a])
  /\ disturbed' = IF Busy(a) THEN disturbed \cup {a} ELSE disturbed
  /\ UNCHANGED <<dbVars, ordered, faults, unsaved>>

Find(r) == \E n \in Numbers : Starts(r, "find", n, NoOne, "store")
Reconcile(r) ==
  \E n \in Numbers, a \in Accounts : Starts(r, "reconcile", n, a, "store")
AssignNumber(r) ==
  \E n \in Numbers, a \in Accounts : Starts(r, "assign", n, a, "open")
SetPublicFields(r) ==
  \E n \in Numbers, a \in Accounts : Starts(r, "publish", n, a, "popen")
FreeNumbers(r) == \E a \in Accounts : Starts(r, "free", NoOne, a, "fopen")

-----------------------------------------------------------------------------
(* store_discovery/4, for prepare_find_results/4 and reconcile_number/2.   *)

Discovered(r) ==
  IF local[r].op = "find"
  THEN [NoDoc EXCEPT !.state = "discovery", !.module = "wnm_bandwidth"]
  ELSE [NoDoc EXCEPT !.state = "reserved", !.reserved = local[r].acct]

AfterStore(r) == IF local[r].op = "find" THEN "done" ELSE "open"

\* Mutant: the document is saved over an existing one.
Overwriting_Store(r) ==
  LET n == local[r].num IN
  /\ pc[r] = "store"
  /\ SaveOr(r, [Discovered(r) EXCEPT !.rev = docs[n].rev], AfterStore(r), "reopen")
  /\ UNCHANGED <<defs, accounts, ordered, historyVars>>

Store(r) ==
  /\ pc[r] = "store"
  /\ SaveOr(r, Discovered(r), AfterStore(r), "reopen")
  /\ UNCHANGED <<defs, accounts, ordered, historyVars>>

\* The existing document: a find reports its state, reconcile_number/2 goes on
\* to assign the number unless the account has it.
Reopen(r) ==
  LET l == local[r] IN
  /\ pc[r] = "reopen"
  /\ Goto(r, IF docs[l.num].owner = l.acct THEN "done" ELSE AfterStore(r), l)
  /\ UNCHANGED <<dbVars, ordered, historyVars>>

-----------------------------------------------------------------------------
(* assign_number_to_account/2.                                             *)

Open(r) ==
  LET l == local[r] doc == docs[l.num] IN
  /\ pc[r] = "open"
  /\ Goto(r, IF doc.rev = 0 THEN "done" ELSE "acquire", [l EXCEPT !.copy = doc])
  /\ UNCHANGED <<dbVars, ordered, historyVars>>

\* The clauses of wnm_local:acquire_number/3 and wnm_bandwidth:acquire_number/3
\* that do not refuse; a number reserved for the account is there to be claimed.
Acquirable(l) ==
  \/ l.copy.state = "available"
  \/ l.copy.state = "reserved" /\ l.copy.reserved = l.acct
  \/ l.copy.state = "discovery" /\ l.copy.module = "wnm_bandwidth"

\* A discovered number is bought (order_number/1), which may fail.
Acquire(r) ==
  LET l == local[r] IN
  /\ pc[r] = "acquire"
  /\ \/ /\ Acquirable(l)
        /\ ordered' = IF l.copy.state = "discovery" THEN ordered \cup {l.num} ELSE ordered
        /\ Goto(r, "save", l)
     \/ /\ ~Acquirable(l) \/ l.copy.state = "discovery"
        /\ Goto(r, "done", l)
        /\ UNCHANGED ordered
  /\ UNCHANGED <<dbVars, historyVars>>

Assigned(l) == [l.copy EXCEPT !.state = "in_service", !.owner = l.acct]

\* Mutant: the save is forced through with the current revision.
Forced_Save(r) ==
  LET l == local[r] IN
  /\ pc[r] = "save"
  /\ SaveOr(r, [Assigned(l) EXCEPT !.rev = docs[l.num].rev], "lopen", "done")
  /\ UNCHANGED <<defs, accounts, ordered, historyVars>>

\* Mutant: the list is changed whether or not the number was saved.
Careless_Save(r) ==
  /\ pc[r] = "save"
  /\ SaveOr(r, Assigned(local[r]), "lopen", "lopen")
  /\ UNCHANGED <<defs, accounts, ordered, historyVars>>

Save(r) ==
  /\ pc[r] = "save"
  /\ SaveOr(r, Assigned(local[r]), "lopen", "done")
  /\ UNCHANGED <<defs, accounts, ordered, historyVars>>

-----------------------------------------------------------------------------
(* set_public_fields/3: the private fields stay as they were opened.       *)

PublicOpen(r) ==
  LET l == local[r] doc == docs[l.num] IN
  /\ pc[r] = "popen"
  /\ Goto(r, IF doc.owner = l.acct THEN "psave" ELSE "done", [l EXCEPT !.copy = doc])
  /\ UNCHANGED <<dbVars, ordered, historyVars>>

PublicSave(r) ==
  /\ pc[r] = "psave"
  /\ SaveOr(r, local[r].copy, "lopen", "done")
  /\ UNCHANGED <<defs, accounts, ordered, historyVars>>

-----------------------------------------------------------------------------
(* add_number_to_account/2 and remove_number_from_account/2.  A definition *)
(* that cannot be opened, or is in conflict, stays as it is; the caller    *)
(* goes on.                                                                *)

ListOpen(r) ==
  LET l == local[r] def == defs[l.acct] IN
  /\ pc[r] = "lopen"
  /\ Goto(r, IF def.rev = 0 THEN AfterList(r) ELSE "lsave", [l EXCEPT !.def = def])
  /\ UNCHANGED <<dbVars, ordered, historyVars>>

NewList(l) == IF l.op = "free" THEN l.def.list \ {l.num} ELSE l.def.list \cup {l.num}

ListSave(r) ==
  LET l == local[r]
      saved == [rev |-> l.def.rev + 1, list |-> NewList(l)] IN
  /\ pc[r] = "lsave"
  /\ \/ /\ l.def.rev = defs[l.acct].rev
        /\ defs' = [defs EXCEPT ![l.acct] = saved]
        /\ Goto(r, "fetch", [l EXCEPT !.def = saved])
     \/ /\ l.def.rev # defs[l.acct].rev
        /\ Goto(r, AfterList(r), l)
        /\ UNCHANGED defs
  /\ UNCHANGED <<docs, accounts, ordered, historyVars>>

\* couch_mgr:ensure_saved of the definition as saved.  Its first save carries the
\* definition's revision, which is not the copy's, and is refused (were it the
\* copy's, to save is what to fetch and save is); so it fetches the copy's.

\* Mutant: the document keeps the revision it has.
Stale_FetchRev(r) ==
  /\ pc[r] = "fetch"
  /\ Goto(r, "aggregate", local[r])
  /\ UNCHANGED <<dbVars, ordered, historyVars>>

FetchRev(r) ==
  LET l == local[r] IN
  /\ pc[r] = "fetch"
  /\ Goto(r, "aggregate", [l EXCEPT !.def.rev = accounts[l.acct].rev])
  /\ UNCHANGED <<dbVars, ordered, historyVars>>

\* It saves over whatever is there, unless another save got in between: then it
\* fetches again.
Aggregate(r) ==
  LET l == local[r] a == l.acct IN
  /\ pc[r] = "aggregate"
  /\ \/ /\ l.def.rev = accounts[a].rev
        /\ accounts' = [accounts EXCEPT ![a] = [rev |-> l.def.rev + 1, list |-> l.def.list]]
        /\ Goto(r, AfterList(r), l)
     \/ /\ l.def.rev # accounts[a].rev
        /\ Goto(r, "fetch", l)
        /\ UNCHANGED accounts
  /\ UNCHANGED <<docs, defs, ordered, historyVars>>

-----------------------------------------------------------------------------
(* free_numbers/1, which releases the numbers of the list one by one.      *)

FreeOpen(r) ==
  LET l == local[r] IN
  /\ pc[r] = "fopen"
  /\ Goto(r, "next", [l EXCEPT !.todo = defs[l.acct].list])
  /\ UNCHANGED <<dbVars, ordered, historyVars>>

FreeNext(r) ==
  LET l == local[r] IN
  /\ pc[r] = "next"
  /\ \E n \in l.todo : Goto(r, "ropen", [l EXCEPT !.num = n, !.todo = @ \ {n}])
  /\ UNCHANGED <<dbVars, ordered, historyVars>>

\* A number without a document is taken off the list; one that is not in
\* service for the account makes release_number/2 return an error, on which
\* free_numbers/1 fails.  Neither carrier does anything on a release.
ReleaseOpen(r) ==
  LET l == local[r] doc == docs[l.num]
      step == CASE doc.rev = 0 -> "lopen"
                [] doc.state = "in_service" /\ doc.owner = l.acct -> "rsave"
                [] OTHER -> "done" IN
  /\ pc[r] = "ropen"
  /\ Goto(r, step, [l EXCEPT !.copy = doc])
  /\ UNCHANGED <<dbVars, ordered, historyVars>>

ReleaseSave(r) ==
  /\ pc[r] = "rsave"
  /\ SaveOr(r, [local[r].copy EXCEPT !.state = "released", !.owner = NoOne], "lopen", "done")
  /\ UNCHANGED <<defs, accounts, ordered, historyVars>>

\* free_numbers/1 returned ok: crossbar deletes the account's database, then
\* marks the copy in the accounts database deleted, unless that is in conflict.
DeleteAccount(r) ==
  LET l == local[r] IN
  /\ pc[r] = "next" /\ l.todo = {}
  /\ defs' = [defs EXCEPT ![l.acct] = NoDef]
  /\ Goto(r, "unlist", l)
  /\ UNCHANGED <<docs, accounts, ordered, historyVars>>

Unlist(r) ==
  LET l == local[r]
      deleted == [rev |-> accounts[l.acct].rev + 1, list |-> {}] IN
  /\ pc[r] = "unlist"
  /\ accounts' \in {accounts, [accounts EXCEPT ![l.acct] = deleted]}
  /\ Goto(r, "done", l)
  /\ UNCHANGED <<docs, defs, ordered, historyVars>>

-----------------------------------------------------------------------------
(* Faults, and the administrators.                                         *)

\* Where a call to the database that fails leaves the request.  Most end it (also a
\* fetch of a revision, but not the save refused before it);
\* release_number/2 takes any failure to open the document for a number that
\* is not there, and free_numbers/1 an account it cannot open for one that has
\* no numbers.
OnError(r) ==
  CASE pc[r] \in {"lopen", "lsave", "fetch", "aggregate"} -> AfterList(r)
    [] pc[r] = "ropen" -> "lopen"
    [] pc[r] = "fopen" -> "next"
    [] OTHER -> "done"

\* A call fails, or the request dies.
Fault(r) ==
  LET l == local[r] IN
  /\ Active(r) /\ faults < MaxFaults
  /\ \E step \in {OnError(r), "done"} : Goto(r, step, l)
  /\ faults' = faults + 1
  /\ unsaved' = IF pc[r] = "save" /\ l.copy.state = "discovery"
                THEN unsaved \cup {l.num} ELSE unsaved
  /\ disturbed' = disturbed \cup {l.acct}
  /\ UNCHANGED <<dbVars, ordered>>

\* Released numbers are made available again by hand; no code does it.
Reclaim(n) ==
  /\ docs[n].state = "released"
  /\ SaveDoc(n, [docs[n] EXCEPT !.state = "available"])
  /\ UNCHANGED <<defs, accounts, ordered, requestVars, historyVars>>

Start(r) ==
  Find(r) \/ Reconcile(r) \/ AssignNumber(r) \/ SetPublicFields(r) \/ FreeNumbers(r)

Step(r) ==
  \/ Store(r) \/ Reopen(r) \/ Open(r) \/ Acquire(r) \/ Save(r)
  \/ PublicOpen(r) \/ PublicSave(r)
  \/ ListOpen(r) \/ ListSave(r) \/ FetchRev(r) \/ Aggregate(r)
  \/ FreeOpen(r) \/ FreeNext(r) \/ ReleaseOpen(r) \/ ReleaseSave(r)
  \/ DeleteAccount(r) \/ Unlist(r)

Next ==
  \/ \E r \in Requests : Start(r) \/ Step(r) \/ Fault(r)
  \/ \E n \in Numbers : Reclaim(n)

Spec == Init /\ [][Next]_vars

\* A request that was started is run.
FairSpec == Spec /\ WF_vars(\E r \in Requests : Step(r))

-----------------------------------------------------------------------------
(* Properties.                                                             *)

\* Types; revision 0 is no document, and a number has an account exactly when
\* it is in service (release_number/2 deletes pvt_assigned_to).
TypeOK ==
  /\ docs \in [Numbers -> Doc] /\ defs \in [Accounts -> Def]
  /\ accounts \in [Accounts -> Def] /\ ordered \subseteq Numbers
  /\ \A n \in Numbers : /\ docs[n].rev = 0 <=> docs[n].state = "none"
                        /\ docs[n].state = "in_service" <=> docs[n].owner # NoOne
  /\ pc \in [Requests -> {"new", "store", "reopen", "open", "acquire", "save", "popen",
                          "psave", "lopen", "lsave", "aggregate", "fetch", "fopen",
                          "next", "ropen", "rsave", "unlist", "done"}]
  /\ local \in [Requests -> Locals]
  /\ faults \in 0..MaxFaults /\ unsaved \subseteq Numbers
  /\ disturbed \subseteq Accounts \cup {NoOne}

\* The documents, opened and saved in separate steps by requests that overlap,
\* fail and die, are a register of numbers that changes atomically: no number is
\* taken from an account that did not release it, none is given to two, none
\* goes back to a state it has left, whoever saves last.
Registry == INSTANCE NumberRegistry WITH
  state <- [n \in Numbers |-> docs[n].state],
  owner <- [n \in Numbers |-> docs[n].owner],
  reserved <- [n \in Numbers |-> docs[n].reserved]
ImplementsRegistry == Registry!RegistrySpec

\* "discovery - The number was discovered via a carrier lookup but has not been
\* reserved or purchased" (wh_number_manager.hrl:16).  The purchase comes before
\* the save, and another request may save in between; still a purchased number
\* leaves that state, unless the one request that could save it has failed.
DiscoveryNotPurchased ==
  \A n \in ordered :
    docs[n].state = "discovery" =>
      \/ n \in unsaved
      \/ \E r \in Requests :
           pc[r] = "save" /\ local[r].num = n /\ local[r].copy.rev = docs[n].rev

\* An account's list, and the copy in the accounts database, are the numbers in
\* service for it whenever none of its requests runs, whatever the requests of
\* the other accounts did to the same numbers.  Requests of one account that
\* overlap, and failures, are excepted: a conflict on the definition is logged
\* and dropped (wh_number_manager.erl:439, 466).  A deleted account has none.
ListsAgree ==
  \A a \in Accounts \ disturbed :
    ~Busy(a) =>
      /\ defs[a].list = {n \in Numbers : docs[n].owner = a}
      /\ defs[a].rev # 0 => accounts[a].list = defs[a].list

\* The requests started come to their end.  ensure_saved tries again as long as it is
\* refused, with no limit and no pause (couch_util.erl:245-258): it ends because each
\* refusal is another request's save, and there is one such save to a number's change.
Finishes == []<>(\A r \in Requests : ~Active(r))

=============================================================================
