--------------------------- MODULE AccountsProofs ---------------------------
(***************************************************************************)
(* Proofs about module Accounts, for any customers, records, identifiers   *)
(* and requests: the types and the two unique columns, that a customer     *)
(* sees the orders of a record only if he has proved an identifier of it,  *)
(* that no account is left standing for a record that is gone, and that a  *)
(* record with orders stays with the customer it is linked to.             *)
(***************************************************************************)
EXTENDS Accounts, TLAPS

(***************************************************************************)
(* What a request has in hand                                              *)
(***************************************************************************)

Hands == [pc : Steps, cust : Customers \cup {None}, id : Identifiers \cup Customers \cup {None},
          kind : {"LOGIN", "LINK", None}, found : SUBSET Records, ids : SUBSET Identifiers,
          best : Records \cup {None}, other : Records \cup {None}, gone : Records \cup {None}]

\* A request that does nothing has nothing in hand.
LEMMA IdleShape ==
  /\ Idle \in Hands
  /\ Idle.pc = "idle" /\ Idle.cust = None /\ Idle.id = None /\ Idle.kind = None
  /\ Idle.found = {} /\ Idle.best = None /\ Idle.other = None /\ Idle.gone = None
  BY DEF Idle, Hands, Steps

\* A step changes what its own request has in hand, and nobody else's.
LEMMA BecomeShape ==
  ASSUME req \in [Requests -> Hands], NEW r \in Requests, NEW q \in Hands, Become(r, q)
  PROVE  /\ req' \in [Requests -> Hands]
         /\ \A p \in Requests \ {r} : req'[p] = req[p]
         /\ req'[r] = IF q.pc = "idle" THEN Idle ELSE q
  BY IdleShape DEF Become

\* Going on keeps what is in hand, but for the record chosen, which the calls of
\* ensureShopifyCustomer and reconcileAfterEmailVerified choose again.
LEMMA GotoShape ==
  ASSUME req \in [Requests -> Hands], NEW r \in Requests, NEW step \in Steps, Goto(r, step)
  PROVE  /\ req' \in [Requests -> Hands]
         /\ \A p \in Requests \ {r} : req'[p] = req[p]
         /\ step = "idle" => req'[r] = Idle
         /\ step # "idle" =>
              /\ req'[r].pc = step
              /\ req'[r].cust = req[r].cust /\ req'[r].id = req[r].id
              /\ req'[r].kind = req[r].kind /\ req'[r].found = req[r].found
              /\ req'[r].other = req[r].other /\ req'[r].gone = req[r].gone
              /\ req'[r].best \in {req[r].best, None}
              /\ step \notin {"ensure", "recon"} => req'[r].best = req[r].best
  <1> DEFINE b == IF step \in {"ensure", "recon"} THEN None ELSE req[r].best
             q == [req[r] EXCEPT !.pc = step, !.best = b]
  <1>1. req[r] \in Hands /\ b \in Records \cup {None}
    BY DEF Hands
  <1>2. /\ q \in Hands
        /\ q.pc = step /\ q.best = b /\ q.cust = req[r].cust /\ q.id = req[r].id
        /\ q.kind = req[r].kind /\ q.found = req[r].found /\ q.other = req[r].other
        /\ q.gone = req[r].gone
    BY <1>1 DEF Hands
  <1>3. PICK h \in Hands :
          /\ Become(r, h)
          /\ h.pc = step /\ h.cust = req[r].cust /\ h.id = req[r].id /\ h.kind = req[r].kind
          /\ h.found = req[r].found /\ h.other = req[r].other /\ h.gone = req[r].gone
          /\ h.best \in {req[r].best, None}
          /\ step \notin {"ensure", "recon"} => h.best = req[r].best
    BY <1>2 DEF Goto
  <1>4. QED
    BY <1>3, BecomeShape

Working == LinkSteps \cup ReconcileSteps

\* A record that is gone for good: no record the app creates will have its id.
Left(x) == x \notin exists /\ (x \in Fresh => contact[x] # {})

\* What a request with q in hand may rely on at its step.
Sane(q) ==
  /\ q.pc = "idle" => q = Idle
  /\ q.pc \in Working => q.cust \in Customers /\ q.id \in Identifiers
  /\ q.pc \in {"move", "commit"} => q.cust \in Customers /\ q.id \in Customers /\ q.cust # q.id
  /\ q.pc \in {"check", "delete", "merge"} => q.best # q.other
  /\ q.pc = "unlink" => q.gone # None
  /\ q.gone # None => q.pc \in {"switch", "unlink"} /\ Left(q.gone)

Sound ==
  /\ \A r \in Requests : Sane(req[r])
  /\ \A x \in Fresh \cap exists : contact[x] # {}
  /\ \A x \in Records : contact[x] \subseteq had[x]

\* What a step of a login or a verification leaves in hand: nothing, or records that
\* were in hand before, have the identifier, or were the primary one.
Onward(q, n) ==
  \/ n = Idle
  \/ /\ n.pc \in Working /\ n.cust = q.cust /\ n.id = q.id
     /\ n.found \subseteq q.found \cup {x \in exists' : q.id \in had'[x]}
     /\ n.pc = "links" => n.found \subseteq exists'
     /\ n.best \in {None, q.best} \cup {x \in exists' : x = q.other \/ q.id \in had'[x]}
     /\ n.other \in {None, q.other, primary[q.cust]}

Turn(r) ==
  /\ req' \in [Requests -> Hands]
  /\ \A p \in Requests \ {r} : req'[p] = req[p]
  /\ Onward(req[r], req'[r])

\* What a record has had includes what it has.
LEMMA HadGrows ==
  ASSUME TypeOK, Remember, contact' \in [Records -> SUBSET Identifiers]
  PROVE  /\ had' \in [Records -> SUBSET Identifiers]
         /\ \A x \in Records : had[x] \subseteq had'[x] /\ contact'[x] \subseteq had'[x]
  BY DEF TypeOK, Remember

\* The steps have different names.
LEMMA StepNames ==
  /\ "idle" \notin Working /\ "move" \notin Working /\ "commit" \notin Working
  /\ LinkSteps \subseteq Working /\ ReconcileSteps \subseteq Working /\ Working \subseteq Steps
  /\ "idle" \in Steps /\ "move" \in Steps /\ "commit" \in Steps
  /\ Steps = Working \cup {"idle", "move", "commit"}
  /\ LinkSteps \cap {"check", "delete", "merge", "switch", "unlink"} = {}
  BY DEF Working, LinkSteps, ReconcileSteps, Steps

\* A working request that goes on with n in hand, and has removed nothing.
LEMMA HandOn ==
  ASSUME req \in [Requests -> Hands], NEW r \in Requests, Sane(req[r]), req[r].pc \in Working,
         NEW n \in Hands, Become(r, n), Onward(req[r], n), n.pc \in Working,
         n.pc \in {"check", "delete", "merge"} => n.best # n.other,
         n.pc # "unlink", n.gone = None
  PROVE  Turn(r) /\ Sane(req'[r])
  <1>1. n.pc # "idle" /\ n.pc # "move" /\ n.pc # "commit"
    BY StepNames
  <1>2. /\ req' \in [Requests -> Hands] /\ req'[r] = n
        /\ \A p \in Requests \ {r} : req'[p] = req[p]
    BY <1>1, BecomeShape
  <1>3. n.cust \in Customers /\ n.id \in Identifiers
    BY <1>1, IdleShape DEF Onward, Sane
  <1>4. QED
    BY <1>1, <1>2, <1>3 DEF Turn, Sane

\* A working request that goes to another step, and has removed nothing.
LEMMA GoOn ==
  ASSUME req \in [Requests -> Hands], NEW r \in Requests, Sane(req[r]), req[r].pc \in Working,
         req[r].gone = None, NEW step \in Working \cup {"idle"}, Goto(r, step),
         step \in {"check", "delete", "merge"} => req[r].best # req[r].other,
         step # "unlink", step # "links"
  PROVE  Turn(r) /\ Sane(req'[r])
  <1>1. step \in Steps /\ step # "move" /\ step # "commit"
    BY StepNames
  <1>2. CASE step = "idle"
    BY <1>1, <1>2, GotoShape, IdleShape, StepNames DEF Turn, Onward, Sane
  <1>3. CASE step # "idle"
    <2>1. Turn(r)
      BY <1>1, <1>3, GotoShape DEF Turn, Onward
    <2>2. Sane(req'[r])
      BY <1>1, <1>3, GotoShape DEF Sane
    <2>3. QED
      BY <2>1, <2>2
  <1>4. QED
    BY <1>2, <1>3

\* The steps that read, and those that fail: what they leave in hand.
LEMMA ReadsHand ==
  ASSUME TypeOK, Sound, Remember, UNCHANGED storeVars, NEW r \in Requests,
         \/ Search(r) \/ CheckTaken(r) \/ EnsureRead(r) \/ SearchAgain(r)
         \/ ReconcileRead(r) \/ CheckOrphan(r)
  PROVE  Turn(r) /\ Sane(req'[r])
  <1>1. /\ req \in [Requests -> Hands] /\ req[r] \in Hands
        /\ exists \subseteq Records /\ Sane(req[r])
    BY DEF TypeOK, Hands, Sound
  <1>2. /\ req[r].pc \in {"search", "taken", "retaken", "ensure", "again", "recon", "check"}
        /\ req[r].pc \in Working /\ req[r].gone = None
    BY <1>1 DEF Search, CheckTaken, EnsureRead, SearchAgain, ReconcileRead, CheckOrphan, At,
                Working, LinkSteps, ReconcileSteps, Sane
  <1>3. AfterLinks(r) \in {"recon", "idle"}
    BY DEF AfterLinks
  <1>4. {"ensure", "recon", "primary", "reprimary", "again", "create", "switch", "merge", "delete",
         "links", "retaken", "lookup"} \subseteq Working
    BY DEF Working, LinkSteps, ReconcileSteps
  <1> DEFINE M == Matches(req[r].id)
  <1>5. M \subseteq {x \in exists' : req[r].id \in had'[x]} /\ M \subseteq Records
    <2>1. \A x \in Records : contact[x] \subseteq had'[x]
      BY HadGrows DEF TypeOK, storeVars
    <2>2. QED
      BY <1>1, <2>1 DEF Matches, ActuallyMatches, storeVars
  <1>6. CASE \E step \in {"ensure", "recon", "idle", "primary", "reprimary", "again", "create"} :
               Goto(r, step)
    BY <1>1, <1>2, <1>4, <1>6, GoOn
  <1>7. CASE CheckOrphan(r)
    <2>1. PICK step \in {"switch", "merge", "delete"} : Goto(r, step)
      BY <1>7 DEF CheckOrphan
    <2>2. req[r].best # req[r].other
      BY <1>1, <1>7 DEF Sane, CheckOrphan, At
    <2>3. QED
      BY <1>1, <1>2, <1>4, <2>1, <2>2, GoOn
  <1>8. CASE ReconcileRead(r)
    <2> DEFINE n == [req[r] EXCEPT !.pc = "lookup", !.other = primary[req[r].cust]]
    <2>1. req[r].cust \in Customers /\ primary[req[r].cust] \in Records \cup {None}
      BY <1>1, <1>2 DEF Sane, TypeOK
    <2>2. /\ n \in Hands /\ n.pc = "lookup" /\ n.found = req[r].found /\ n.best = req[r].best
          /\ n.cust = req[r].cust /\ n.id = req[r].id /\ n.other = primary[req[r].cust]
          /\ n.gone = req[r].gone
      BY <1>1, <1>4, <2>1, StepNames DEF Hands
    <2>3. Onward(req[r], n) /\ Become(r, n)
      BY <1>4, <1>8, <2>2 DEF Onward, ReconcileRead
    <2>4. QED
      BY <1>1, <1>2, <1>4, <2>2, <2>3, HandOn
  <1>9. CASE Search(r) /\ M # {}
    <2>1. PICK b \in M : Become(r, [req[r] EXCEPT !.pc = "links", !.found = M, !.best = b])
      BY <1>9 DEF Search, BestOf
    <2> DEFINE n == [req[r] EXCEPT !.pc = "links", !.found = M, !.best = b]
    <2>2. /\ n \in Hands /\ n.pc = "links" /\ n.found = M /\ n.best = b
          /\ n.cust = req[r].cust /\ n.id = req[r].id /\ n.other = req[r].other
          /\ n.gone = req[r].gone
      BY <1>1, <1>4, <1>5, StepNames DEF Hands
    <2>3. Onward(req[r], n)
      BY <1>4, <1>5, <2>2 DEF Onward
    <2>4. QED
      BY <1>1, <1>2, <1>4, <2>1, <2>2, <2>3, HandOn
  <1>10. CASE SearchAgain(r) /\ M # {}
    <2>1. PICK b \in M : Become(r, [req[r] EXCEPT !.pc = "retaken", !.best = b])
      BY <1>10 DEF SearchAgain, BestOf
    <2> DEFINE n == [req[r] EXCEPT !.pc = "retaken", !.best = b]
    <2>2. /\ n \in Hands /\ n.pc = "retaken" /\ n.found = req[r].found /\ n.best = b
          /\ n.cust = req[r].cust /\ n.id = req[r].id /\ n.other = req[r].other
          /\ n.gone = req[r].gone
      BY <1>1, <1>4, <1>5, StepNames DEF Hands
    <2>3. Onward(req[r], n)
      BY <1>4, <1>5, <2>2 DEF Onward
    <2>4. QED
      BY <1>1, <1>2, <1>4, <2>1, <2>2, <2>3, HandOn
  <1>11. QED
    BY <1>3, <1>6, <1>7, <1>8, <1>9, <1>10
    DEF Search, CheckTaken, EnsureRead, SearchAgain, AfterPrimary

(***************************************************************************)
(* What the store does                                                     *)
(***************************************************************************)

\* The store keeps its types; what left does not come back, and what the app
\* created has an identifier.
StoreSound ==
  /\ exists' \subseteq Records /\ ordered' \subseteq Records
  /\ contact' \in [Records -> SUBSET Identifiers]
  /\ \A x \in Records : Left(x) => Left(x)'
  /\ \A x \in Fresh \cap exists' : contact'[x] # {}

\* A call that changes nothing.
LEMMA StoreStays ==
  ASSUME TypeOK, Sound, UNCHANGED storeVars
  PROVE  StoreSound
  BY DEF TypeOK, Sound, storeVars, StoreSound, Left

\* A record is created with an identifier.
LEMMA StoreCreates ==
  ASSUME TypeOK, Sound, NEW i \in Identifiers, NEW x \in Fresh \ exists, contact[x] = {},
         exists' = exists \cup {x}, contact' = NewContact(x, i), ordered' \subseteq Records
  PROVE  StoreSound
  <1>1. x \in Records /\ contact \in [Records -> SUBSET Identifiers] /\ exists \subseteq Records
    BY DEF TypeOK, Records
  <1>2. contact' = [contact EXCEPT ![x] = contact[x] \cup {i}]
    BY DEF NewContact
  <1>3. /\ contact' \in [Records -> SUBSET Identifiers] /\ contact'[x] # {}
        /\ \A y \in Records \ {x} : contact'[y] = contact[y]
    BY <1>1, <1>2
  <1>4. QED
    BY <1>1, <1>3 DEF StoreSound, Left, Sound

\* A record the store has gets an identifier.
LEMMA StoreUpdates ==
  ASSUME TypeOK, Sound, UNCHANGED <<exists, ordered>>, NEW i \in Identifiers, NEW x, Gets(x, i)
  PROVE  StoreSound
  <1>1. contact \in [Records -> SUBSET Identifiers] /\ exists \subseteq Records
    BY DEF TypeOK
  <1>2. CASE x \in exists /\ ~TakenAtStore(i)
    <2>1. x \in Records /\ contact' = [contact EXCEPT ![x] = {j \in contact[x] : ~SameType(i, j)} \cup {i}]
      BY <1>1, <1>2 DEF Gets
    <2>2. /\ contact' \in [Records -> SUBSET Identifiers] /\ contact'[x] # {}
          /\ \A y \in Records \ {x} : contact'[y] = contact[y]
      BY <1>1, <2>1
    <2>3. QED
      BY <1>1, <1>2, <2>2 DEF StoreSound, Left, Sound, TypeOK
  <1>3. CASE ~(x \in exists /\ ~TakenAtStore(i))
    BY <1>3, StoreStays DEF Gets, storeVars
  <1>4. QED
    BY <1>2, <1>3

\* A record is deleted.
LEMMA StoreDeletes ==
  ASSUME TypeOK, Sound, UNCHANGED <<contact, ordered>>, NEW x, exists' = exists \ {x}
  PROVE  StoreSound
  BY DEF TypeOK, Sound, StoreSound, Left

\* Two records are merged: the survivor has the identifiers of the record it was
\* merged with, and those of its own that this one lacked.
LEMMA StoreMerges ==
  ASSUME TypeOK, Sound, NEW b \in exists, NEW x \in exists, NEW kept \in {b, x}, NEW dead,
         exists' = exists \ {dead}, ordered' = ordered \cup {kept},
         contact' = [contact EXCEPT ![kept] = contact[b] \cup {i \in contact[x] : Lacks(b, i)}]
  PROVE  StoreSound
  <1>1. /\ contact \in [Records -> SUBSET Identifiers] /\ exists \subseteq Records
        /\ b \in Records /\ x \in Records /\ kept \in Records /\ ordered \subseteq Records
    BY DEF TypeOK
  <1>2. /\ contact' \in [Records -> SUBSET Identifiers]
        /\ \A y \in Records \ {kept} : contact'[y] = contact[y]
        /\ contact'[kept] = contact[b] \cup {i \in contact[x] : Lacks(b, i)}
    BY <1>1
  <1>3. kept \in Fresh => contact'[kept] # {}
    <2>1. CASE contact[b] # {}
      BY <1>2, <2>1
    <2>2. CASE contact[b] = {}
      <3>1. \A i : Lacks(b, i)
        BY <2>2 DEF Lacks
      <3>2. contact'[kept] = contact[x]
        BY <1>2, <2>2, <3>1
      <3>3. b \notin Fresh
        BY <2>2 DEF Sound
      <3>4. QED
        BY <3>2, <3>3 DEF Sound
    <2>3. QED
      BY <2>1, <2>2
  <1>4. QED
    BY <1>1, <1>2, <1>3 DEF StoreSound, Left, Sound

(***************************************************************************)
(* What the steps that write leave in hand                                 *)
(***************************************************************************)

\* The writes of rows.
LEMMA RowsHand ==
  ASSUME TypeOK, Sound, Remember, UNCHANGED storeVars, NEW r \in Requests,
         \/ CreateLinks(r) \/ SetPrimary(r) \/ Adopt(r) \/ Switch(r) \/ Unlink(r) \/ Relink(r)
  PROVE  Turn(r) /\ Sane(req'[r])
  <1>1. /\ req \in [Requests -> Hands] /\ req[r] \in Hands /\ Sane(req[r])
    BY DEF TypeOK, Hands, Sound
  <1>2. AfterLinks(r) \in {"recon", "idle"}
    BY DEF AfterLinks
  <1>3. {"taken", "recon", "ensure", "unlink", "relink", "phone", "links", "primary", "reprimary",
         "adopt", "switch"} \subseteq Working
    BY DEF Working, LinkSteps, ReconcileSteps
  <1>4. CASE CreateLinks(r)
    <2> DEFINE n == [req[r] EXCEPT !.pc = "taken", !.found = {}]
    <2>1. /\ n \in Hands /\ n.pc = "taken" /\ n.found = {} /\ n.best = req[r].best
          /\ n.cust = req[r].cust /\ n.id = req[r].id /\ n.other = req[r].other
          /\ n.gone = req[r].gone
      BY <1>1, <1>3, StepNames DEF Hands
    <2>2. Onward(req[r], n) /\ Become(r, n) /\ req[r].pc = "links" /\ n.gone = None
      BY <1>1, <1>3, <1>4, <2>1 DEF Onward, CreateLinks, At, Sane
    <2>3. QED
      BY <1>1, <1>3, <2>1, <2>2, HandOn
  <1>5. CASE SetPrimary(r) \/ Adopt(r) \/ Relink(r)
    <2>1. PICK step \in {"ensure", "recon", "phone", "idle"} : Goto(r, step)
      BY <1>2, <1>5 DEF SetPrimary, AfterPrimary, Adopt, Relink
    <2>2. req[r].pc \in Working /\ req[r].gone = None
      BY <1>1, <1>3, <1>5 DEF SetPrimary, Adopt, Relink, At, Sane
    <2>3. QED
      BY <1>1, <1>3, <2>1, <2>2, GoOn
  <1>6. CASE Switch(r)
    <2>1. req[r].pc = "switch"
      BY <1>6 DEF Switch, At
    <2>2. CASE req[r].gone = None
      <3>1. Goto(r, "relink")
        BY <1>6, <2>2 DEF Switch
      <3>2. QED
        BY <1>1, <1>3, <2>1, <2>2, <3>1, GoOn
    <2>3. CASE req[r].gone # None
      <3>1. Goto(r, "unlink")
        BY <1>6, <2>3 DEF Switch
      <3>2. "unlink" \in Steps
        BY <1>3, StepNames
      <3>3. Turn(r)
        BY <1>1, <1>3, <3>1, <3>2, GotoShape DEF Turn, Onward
      <3>4. Sane(req'[r])
        BY <1>1, <1>3, <2>1, <2>3, <3>1, <3>2, GotoShape DEF Sane
      <3>5. QED
        BY <3>3, <3>4
    <2>4. QED
      BY <2>2, <2>3
  <1>7. CASE Unlink(r)
    <2> DEFINE n == [req[r] EXCEPT !.pc = "relink", !.gone = None]
    <2>1. /\ n \in Hands /\ n.pc = "relink" /\ n.found = req[r].found /\ n.best = req[r].best
          /\ n.cust = req[r].cust /\ n.id = req[r].id /\ n.other = req[r].other
          /\ n.gone = None
      BY <1>1, <1>3, StepNames DEF Hands
    <2>2. Onward(req[r], n) /\ Become(r, n) /\ req[r].pc = "unlink"
      BY <1>1, <1>3, <1>7, <2>1 DEF Onward, Unlink, At
    <2>3. QED
      BY <1>1, <1>3, <2>1, <2>2, HandOn
  <1>8. QED
    BY <1>4, <1>5, <1>6, <1>7

\* A call that failed, or a server that stopped.
LEMMA EndsHand ==
  ASSUME TypeOK, Sound, NEW r \in Requests, Throws(r) \/ Stop(r)
  PROVE  Turn(r) /\ Sane(req'[r])
  <1>1. /\ req \in [Requests -> Hands] /\ req[r] \in Hands /\ Sane(req[r])
    BY DEF TypeOK, Hands, Sound
  <1>2. CASE Goto(r, "idle")
    BY <1>1, <1>2, GotoShape, IdleShape, StepNames DEF Turn, Onward, Sane
  <1>3. CASE Throws(r) /\ ~Goto(r, "idle")
    <2>1. Goto(r, "recon") /\ req[r].pc \in LinkSteps
      BY <1>3 DEF Throws, AfterLinks
    <2>2. req[r].gone = None /\ req[r].pc \in Working /\ "recon" \in Working
      BY <1>1, <2>1 DEF Sane, Working, LinkSteps, ReconcileSteps
    <2>3. QED
      BY <1>1, <2>1, <2>2, GoOn
  <1>4. QED
    BY <1>2, <1>3 DEF Stop, Return

SaneAfter(r) == \E n \in Hands : n = req'[r] /\ Sane(n)'

\* What a request may rely on outlives what the store does.
LEMMA SaneStays ==
  ASSUME StoreSound, NEW r \in Requests, req'[r] \in Hands, Sane(req'[r])
  PROVE  SaneAfter(r)
  <1>1. PICK n \in Hands : n = req'[r]
    OBVIOUS
  <1>2. n.gone # None => Left(n.gone)'
    BY <1>1 DEF Sane, StoreSound, Hands
  <1>3. Sane(n)'
    BY <1>1, <1>2 DEF Sane
  <1>4. QED
    BY <1>1, <1>3 DEF SaneAfter

\* The outcomes of a mutation.
LEMMA OutcomesShape ==
  ASSUME NEW accepted \in BOOLEAN, NEW o \in Outcomes(accepted)
  PROVE  /\ Done(o) => accepted
         /\ o = "done" => Done(o) /\ ~Throw(o)
  BY DEF Outcomes, Done, Throw

\* createCustomer.
LEMMA CreateHand ==
  ASSUME TypeOK, Sound, Remember, NEW r \in Requests, NEW x \in Fresh, NEW o,
         CreateCustomer(r, x, o)
  PROVE  StoreSound /\ Turn(r) /\ SaneAfter(r)
  <1>1. /\ req \in [Requests -> Hands] /\ req[r] \in Hands /\ Sane(req[r])
        /\ x \in Records
    BY DEF TypeOK, Hands, Sound, Records
  <1>2. req[r].pc = "create" /\ req[r].pc \in Working /\ {"recon", "adopt"} \subseteq Working
    BY DEF CreateCustomer, At, Working, LinkSteps, ReconcileSteps
  <1>3. req[r].gone = None /\ req[r].id \in Identifiers
    BY <1>1, <1>2 DEF Sane
  <1>4. StoreSound
    <2>1. ordered' \subseteq Records
      BY DEF CreateCustomer, TypeOK
    <2>2. CASE Done(o)
      BY <1>3, <2>1, <2>2, StoreCreates DEF CreateCustomer
    <2>3. CASE ~Done(o)
      BY <2>3, StoreStays DEF CreateCustomer, storeVars
    <2>4. QED
      BY <2>2, <2>3
  <1>5. CASE o # "done"
    <2>1. PICK step \in {"recon", "idle"} : Goto(r, step)
      BY <1>5 DEF CreateCustomer, AfterLinks
    <2>2. Turn(r) /\ Sane(req'[r])
      BY <1>1, <1>2, <1>3, <2>1, GoOn
    <2>3. QED
      BY <1>4, <2>2, SaneStays DEF Turn
  <1>6. CASE o = "done"
    <2> DEFINE n == [req[r] EXCEPT !.pc = "adopt", !.best = x]
    <2>1. /\ n \in Hands /\ n.pc = "adopt" /\ n.found = req[r].found /\ n.best = x
          /\ n.cust = req[r].cust /\ n.id = req[r].id /\ n.other = req[r].other
          /\ n.gone = req[r].gone
      BY <1>1, <1>2, StepNames DEF Hands
    <2>2. x \in exists' /\ req[r].id \in contact'[x]
      BY <1>1, <1>3, <1>6 DEF CreateCustomer, Done, NewContact, TypeOK
    <2>3. req[r].id \in had'[x]
      BY <1>1, <1>4, <2>2, HadGrows DEF StoreSound
    <2>4. Onward(req[r], n) /\ Become(r, n)
      BY <1>2, <1>6, <2>1, <2>2, <2>3 DEF Onward, CreateCustomer
    <2>5. Turn(r) /\ Sane(req'[r])
      BY <1>1, <1>2, <1>3, <2>1, <2>4, HandOn
    <2>6. QED
      BY <1>4, <2>5, SaneStays DEF Turn
  <1>7. QED
    BY <1>5, <1>6

\* The search of reconcileAfterEmailVerified, and the phone at its end.
LEMMA ContactHand ==
  ASSUME TypeOK, Sound, Remember, NEW r \in Requests, Lookup(r) \/ SendPhone(r)
  PROVE  StoreSound /\ Turn(r) /\ SaneAfter(r)
  <1>1. /\ req \in [Requests -> Hands] /\ req[r] \in Hands /\ Sane(req[r])
        /\ exists \subseteq Records
    BY DEF TypeOK, Hands, Sound
  <1>2. /\ req[r].pc \in {"lookup", "phone"} /\ req[r].pc \in Working
        /\ {"switch", "check"} \subseteq Working
    BY DEF Lookup, SendPhone, At, Working, LinkSteps, ReconcileSteps
  <1>3. req[r].gone = None /\ req[r].id \in Identifiers
    BY <1>1, <1>2 DEF Sane
  <1>4. StoreSound
    <2>1. UNCHANGED <<exists, ordered>> /\ \/ UNCHANGED contact
                                           \/ \E i \in Identifiers : \E x : Gets(x, i)
      BY <1>3 DEF Lookup, SendPhone, Identifiers
    <2>2. QED
      BY <2>1, StoreStays, StoreUpdates DEF storeVars
  <1> DEFINE M == Matches(req[r].id)
             cur == req[r].other
  <1>5. CASE Return(r)
    <2>1. Turn(r) /\ Sane(req'[r])
      BY <1>1, <1>2, <1>3, <1>5, GoOn DEF Return
    <2>2. QED
      BY <1>4, <2>1, SaneStays DEF Turn
  <1>6. CASE Lookup(r) /\ M # {}
    <2>1. PICK b \in M : Become(r, [req[r] EXCEPT !.best = b,
                                !.pc = IF cur \in {None, b} THEN "switch" ELSE "check",
                                !.other = IF cur = b THEN None ELSE cur])
      BY <1>6 DEF Lookup, BestOf
    <2>2. b \in exists' /\ b \in Records /\ req[r].id \in had'[b]
      <3>1. b \in exists /\ req[r].id \in contact'[b] /\ exists' = exists
        BY <1>6 DEF Lookup, Matches, ActuallyMatches
      <3>2. QED
        BY <1>1, <1>4, <3>1, HadGrows DEF StoreSound
    <2> DEFINE step == IF cur \in {None, b} THEN "switch" ELSE "check"
               rest == IF cur = b THEN None ELSE cur
               n == [req[r] EXCEPT !.best = b, !.pc = step, !.other = rest]
    <2>3. step \in Working /\ rest \in {None, cur} /\ (step = "check" => b # rest) /\ step # "unlink"
          /\ step \notin {"delete", "merge", "links"}
      BY <1>2
    <2>4. rest \in Records \cup {None} /\ step \in Steps
      BY <1>1, <2>3, StepNames DEF Hands
    <2> HIDE DEF step, rest
    <2>5. /\ n \in Hands /\ n.pc = step /\ n.found = req[r].found /\ n.best = b
          /\ n.cust = req[r].cust /\ n.id = req[r].id /\ n.other = rest
          /\ n.gone = req[r].gone
      BY <1>1, <2>2, <2>4 DEF Hands
    <2>6. Onward(req[r], n)
      BY <2>2, <2>3, <2>5 DEF Onward
    <2>7. Become(r, n)
      BY <2>1 DEF step, rest
    <2>8. Turn(r) /\ Sane(req'[r])
      BY <1>1, <1>2, <1>3, <2>3, <2>5, <2>6, <2>7, HandOn
    <2>9. QED
      BY <1>4, <2>8, SaneStays DEF Turn
  <1>7. QED
    BY <1>5, <1>6 DEF Lookup, SendPhone

\* A record that goes leaves the rows in the hands of the request that removed it,
\* alone at work, with another record to write, for the only customer who stands for it.
Removes(r) ==
  \A x \in exists \ exists' :
    torn' \/ /\ req'[r].gone = x /\ req'[r].pc = "switch" /\ req'[r].cust = req[r].cust
             /\ req'[r].best # x /\ ~Busy(r, x)

\* A request that goes on to switch with a record gone.
LEMMA GoneOn ==
  ASSUME req \in [Requests -> Hands], NEW r \in Requests, Sane(req[r]), req[r].pc \in Working,
         NEW n \in Hands, Become(r, n), Onward(req[r], n), n.pc = "switch",
         n.gone \in exists \ exists', n.gone \in Fresh => contact'[n.gone] # {},
         exists \subseteq Records, AccountsAssumption
  PROVE  Turn(r) /\ SaneAfter(r) /\ req'[r] = n
  <1>1. n.pc # "idle" /\ n.pc # "move" /\ n.pc # "commit" /\ n.pc \in Working
    BY DEF Working, LinkSteps, ReconcileSteps
  <1>2. /\ req' \in [Requests -> Hands] /\ req'[r] = n
        /\ \A p \in Requests \ {r} : req'[p] = req[p]
    BY <1>1, BecomeShape
  <1>3. n.cust \in Customers /\ n.id \in Identifiers
    BY <1>1, IdleShape DEF Onward, Sane
  <1>4. Sane(n)'
    BY <1>1, <1>3 DEF Sane, Left
  <1>5. QED
    BY <1>2, <1>4 DEF Turn, SaneAfter

\* deleteCustomerIfEmpty.
LEMMA DeleteHand ==
  ASSUME TypeOK, Sound, Remember, NEW r \in Requests, NEW o, DeleteOrphan(r, o)
  PROVE  StoreSound /\ Turn(r) /\ SaneAfter(r) /\ Removes(r)
  <1>1. /\ req \in [Requests -> Hands] /\ req[r] \in Hands /\ Sane(req[r])
        /\ exists \subseteq Records
    BY DEF TypeOK, Hands, Sound
  <1>2. /\ req[r].pc = "delete" /\ req[r].pc \in Working /\ "switch" \in Working
    BY DEF DeleteOrphan, At, Working, LinkSteps, ReconcileSteps
  <1>3. req[r].gone = None /\ req[r].best # req[r].other
    BY <1>1, <1>2 DEF Sane
  <1> DEFINE x == req[r].other
  <1>4. StoreSound
    BY StoreStays, StoreDeletes DEF DeleteOrphan, storeVars
  <1>5. CASE o # "done"
    <2>1. PICK step \in {"switch", "idle"} : Goto(r, step)
      BY <1>5 DEF DeleteOrphan, Return
    <2>2. Turn(r) /\ Sane(req'[r])
      BY <1>1, <1>2, <1>3, <2>1, GoOn
    <2>3. exists' # exists => torn'
      BY <1>5 DEF DeleteOrphan
    <2>4. QED
      BY <1>4, <2>2, <2>3, SaneStays DEF Turn, Removes
  <1>6. CASE o = "done"
    <2> DEFINE n == [req[r] EXCEPT !.pc = "switch", !.other = None, !.gone = x]
    <2>1. /\ n \in Hands /\ n.pc = "switch" /\ n.found = req[r].found /\ n.best = req[r].best
          /\ n.cust = req[r].cust /\ n.id = req[r].id /\ n.other = None /\ n.gone = x
      BY <1>1, <1>2, StepNames DEF Hands
    <2>2. x \in exists /\ exists' = exists \ {x} /\ contact' = contact
      <3>1. x \in exists
        BY <1>6 DEF DeleteOrphan, Outcomes
      <3>2. QED
        BY <1>6, <3>1 DEF DeleteOrphan, Done
    <2>3. x \in Fresh => contact[x] # {}
      BY <2>2 DEF Sound
    <2>4. Onward(req[r], n) /\ Become(r, n)
      BY <1>2, <1>6, <2>1, OutcomesShape DEF Onward, DeleteOrphan, Outcomes, Throw
    <2>5. PICK h \in Hands : /\ Become(r, h) /\ Onward(req[r], h)
                              /\ h.pc = "switch" /\ h.gone = x /\ h.cust = req[r].cust
                              /\ h.best # x
      BY <1>3, <2>1, <2>4
    <2>6. Turn(r) /\ SaneAfter(r) /\ req'[r] = h
      BY <1>1, <1>2, <2>2, <2>3, <2>5, GoneOn, AccountsAssumption
    <2>7. torn' \/ ~Busy(r, x)
      BY <1>6 DEF DeleteOrphan, Done
    <2>8. QED
      BY <1>4, <2>2, <2>5, <2>6, <2>7 DEF Removes
  <1>7. QED
    BY <1>5, <1>6

\* mergeCustomers.
LEMMA MergeHand ==
  ASSUME TypeOK, Sound, Remember, NEW r \in Requests, NEW kept, NEW o, MergeRecords(r, kept, o)
  PROVE  StoreSound /\ Turn(r) /\ SaneAfter(r) /\ Removes(r)
  <1>1. /\ req \in [Requests -> Hands] /\ req[r] \in Hands /\ Sane(req[r])
        /\ exists \subseteq Records
    BY DEF TypeOK, Hands, Sound
  <1>2. /\ req[r].pc = "merge" /\ req[r].pc \in Working /\ "switch" \in Working
    BY DEF MergeRecords, At, Working, LinkSteps, ReconcileSteps
  <1> DEFINE b == req[r].best
             x == req[r].other
             dead == IF kept = b THEN x ELSE b
  <1>3. req[r].gone = None /\ b # x /\ kept \in {b, x} /\ dead \in {b, x} /\ dead # kept
    BY <1>1, <1>2 DEF Sane, MergeRecords
  <1>4. Done(o) => b \in exists /\ x \in exists
    BY OutcomesShape DEF MergeRecords, Done, Outcomes
  <1>5. /\ Done(o) => /\ exists' = exists \ {dead}
                      /\ contact' = [contact EXCEPT ![kept] =
                                       contact[b] \cup {i \in contact[x] : Lacks(b, i)}]
                      /\ ordered' = ordered \cup {kept}
        /\ ~Done(o) => UNCHANGED storeVars
        /\ torn' = (torn \/ (Done(o) /\ (o # "done" \/ Busy(r, dead))))
        /\ o # "done" => Goto(r, "switch")
        /\ o = "done" => Become(r, [req[r] EXCEPT !.pc = "switch", !.best = kept, !.gone = dead])
    BY DEF MergeRecords, Survivor
  <1> HIDE DEF dead
  <1>6. StoreSound
    <2>1. CASE ~Done(o)
      BY <1>5, <2>1, StoreStays
    <2>2. CASE Done(o)
      <3>1. b \in exists /\ x \in exists /\ kept \in {b, x} /\ exists' = exists \ {dead}
        BY <1>3, <1>4, <1>5, <2>2
      <3>2. ordered' = ordered \cup {kept}
        BY <1>5, <2>2
      <3>3. contact' = [contact EXCEPT ![kept] = contact[b] \cup {i \in contact[x] : Lacks(b, i)}]
        BY <1>5, <2>2
      <3> HIDE DEF b, x
      <3>4. QED
        BY <3>1, <3>2, <3>3, StoreMerges
    <2>3. QED
      BY <2>1, <2>2
  <1>7. CASE o # "done"
    <2>1. Turn(r) /\ Sane(req'[r])
      BY <1>1, <1>2, <1>3, <1>5, <1>7, GoOn
    <2>2. exists' # exists => torn'
      BY <1>5, <1>7 DEF storeVars
    <2>3. QED
      BY <1>6, <2>1, <2>2, SaneStays DEF Turn, Removes
  <1>8. CASE o = "done"
    <2>0. Done(o) /\ kept \in exists /\ dead \in exists /\ kept \in exists'
      BY <1>3, <1>4, <1>5, <1>8 DEF Done
    <2> DEFINE n == [req[r] EXCEPT !.pc = "switch", !.best = kept, !.gone = dead]
    <2>1. /\ n \in Hands /\ n.pc = "switch" /\ n.found = req[r].found /\ n.best = kept
          /\ n.cust = req[r].cust /\ n.id = req[r].id /\ n.other = x /\ n.gone = dead
      BY <1>1, <1>2, <2>0, StepNames DEF Hands
    <2>2. dead \in Fresh => contact'[dead] # {}
      BY <1>1, <1>3, <1>5, <2>0 DEF Sound, TypeOK
    <2>3. Onward(req[r], n) /\ Become(r, n)
      BY <1>2, <1>3, <1>5, <1>8, <2>0, <2>1 DEF Onward
    <2>4. PICK h \in Hands : /\ Become(r, h) /\ Onward(req[r], h)
                              /\ h.pc = "switch" /\ h.gone = dead /\ h.cust = req[r].cust
                              /\ h.best # dead
      BY <1>3, <2>1, <2>3
    <2>5. dead \in exists \ exists' /\ exists' = exists \ {dead}
      BY <1>5, <2>0
    <2>6. Turn(r) /\ SaneAfter(r) /\ req'[r] = h
      BY <1>1, <1>2, <2>2, <2>4, <2>5, GoneOn, AccountsAssumption
    <2>7. torn' \/ ~Busy(r, dead)
      BY <1>5, <2>0
    <2>8. QED
      BY <1>6, <2>4, <2>5, <2>6, <2>7 DEF Removes
  <1>9. QED
    BY <1>7, <1>8

\* A step of a login or a verification, whatever it is.
Works(r) == LinkStep(r) \/ ReconcileStep(r) \/ Throws(r) \/ Stop(r)

LEMMA WorkHand ==
  ASSUME TypeOK, Sound, Remember, NEW r \in Requests, Works(r)
  PROVE  StoreSound /\ Turn(r) /\ SaneAfter(r) /\ Removes(r)
  <1>1. CASE \/ Search(r) \/ CheckTaken(r) \/ EnsureRead(r) \/ SearchAgain(r)
             \/ ReconcileRead(r) \/ CheckOrphan(r)
    <2>1. UNCHANGED storeVars
      BY <1>1 DEF Search, CheckTaken, EnsureRead, SearchAgain, ReconcileRead, CheckOrphan
    <2>2. QED
      BY <1>1, <2>1, ReadsHand, StoreStays, SaneStays DEF Turn, Removes, storeVars
  <1>2. CASE \/ CreateLinks(r) \/ SetPrimary(r) \/ Adopt(r) \/ Switch(r) \/ Unlink(r) \/ Relink(r)
    <2>1. UNCHANGED storeVars
      BY <1>2 DEF CreateLinks, SetPrimary, Adopt, Switch, Unlink, Relink
    <2>2. QED
      BY <1>2, <2>1, RowsHand, StoreStays, SaneStays DEF Turn, Removes, storeVars
  <1>3. CASE Throws(r) \/ Stop(r)
    <2>1. UNCHANGED storeVars
      BY <1>3 DEF Throws, Stop
    <2>2. QED
      BY <1>3, <2>1, EndsHand, StoreStays, SaneStays DEF Turn, Removes, storeVars
  <1>4. CASE \E x \in Fresh, o \in Outcomes(TRUE) \cup Outcomes(FALSE) : CreateCustomer(r, x, o)
    <2>1. exists \subseteq exists'
      BY <1>4 DEF CreateCustomer
    <2>2. QED
      BY <1>4, <2>1, CreateHand DEF Removes
  <1>5. CASE Lookup(r) \/ SendPhone(r)
    <2>1. exists' = exists
      BY <1>5 DEF Lookup, SendPhone
    <2>2. QED
      BY <1>5, <2>1, ContactHand DEF Removes
  <1>6. CASE \E o : DeleteOrphan(r, o) \/ \E kept \in Records : MergeRecords(r, kept, o)
    BY <1>6, DeleteHand, MergeHand
  <1>7. QED
    BY <1>1, <1>2, <1>3, <1>4, <1>5, <1>6 DEF Works, LinkStep, ReconcileStep

(***************************************************************************)
(* Types                                                                   *)
(***************************************************************************)

Rows ==
  /\ proof \in [Identifiers -> Customers \cup {None}]
  /\ into \in [Customers -> Customers \cup {None}]
  /\ primary \in [Customers -> Records \cup {None}]
  /\ link \in [Records -> Customers \cup {None}]
  /\ \A c, d \in Customers : primary[c] # None /\ primary[c] = primary[d] => c = d

\* The primary column is written only if the record is no other customer's.
LEMMA PrimaryWritten ==
  ASSUME Rows, NEW c \in Customers, NEW x \in Records \cup {None}, ~PrimaryOfAnother(c, x),
         primary' = [primary EXCEPT ![c] = x]
  PROVE  /\ primary' \in [Customers -> Records \cup {None}]
         /\ \A d, e \in Customers : primary'[d] # None /\ primary'[d] = primary'[e] => d = e
  <1>1. /\ primary'[c] = x
        /\ \A d \in Customers \ {c} : primary'[d] = primary[d] /\ primary[d] # x
    BY DEF Rows, PrimaryOfAnother
  <1>2. QED
    BY <1>1 DEF Rows

\* A step of a login or a verification keeps the rows' types.
LEMMA WorkRows ==
  ASSUME TypeOK, Sound, NEW r \in Requests, Works(r)
  PROVE  Rows'
  <1>1. Rows /\ req[r] \in Hands /\ Sane(req[r])
    BY DEF TypeOK, Rows, Sound, Hands
  <1>2. /\ req[r].best \in Records \cup {None} /\ req[r].cust \in Customers \cup {None}
        /\ req[r].pc \in Working => req[r].cust \in Customers
    BY <1>1 DEF Hands, Sane
  <1>3. {"primary", "reprimary", "adopt", "switch"} \subseteq Working
    BY DEF Working, LinkSteps, ReconcileSteps
  <1>4. CASE UNCHANGED rowVars
    BY <1>1, <1>4 DEF rowVars, Rows
  <1>5. CASE CreateLinks(r)
    BY <1>1, <1>2, <1>5 DEF CreateLinks, Linked, Rows
  <1>6. CASE SetPrimary(r) \/ Switch(r)
    <2>1. CASE UNCHANGED primary
      BY <1>1, <1>6, <2>1 DEF SetPrimary, Switch, Rows
    <2>2. CASE ~UNCHANGED primary
      <3>1. /\ primary' = [primary EXCEPT ![req[r].cust] = req[r].best]
            /\ ~PrimaryOfAnother(req[r].cust, req[r].best) /\ req[r].cust \in Customers
        BY <1>2, <1>3, <1>6, <2>2 DEF SetPrimary, Switch, At
      <3>2. QED
        BY <1>1, <1>2, <1>6, <3>1, PrimaryWritten DEF SetPrimary, Switch, Rows
    <2>3. QED
      BY <2>1, <2>2
  <1>7. CASE Adopt(r)
    <2>1. /\ primary' = [primary EXCEPT ![req[r].cust] = req[r].best]
          /\ ~PrimaryOfAnother(req[r].cust, req[r].best) /\ req[r].cust \in Customers
          /\ link' = [link EXCEPT ![req[r].best] = req[r].cust]
      BY <1>2, <1>3, <1>7 DEF Adopt, At
    <2>2. link' \in [Records -> Customers \cup {None}]
      BY <1>1, <2>1 DEF Rows
    <2>3. QED
      BY <1>1, <1>2, <1>7, <2>1, <2>2, PrimaryWritten DEF Adopt, Rows
  <1>8. CASE Unlink(r) \/ Relink(r)
    <2>1. link' \in [Records -> Customers \cup {None}]
      BY <1>1, <1>2, <1>8 DEF Unlink, Relink, Rows
    <2>2. QED
      BY <1>1, <1>8, <2>1 DEF Unlink, Relink, Rows
  <1>9. QED
    BY <1>4, <1>5, <1>6, <1>7, <1>8
    DEF Works, LinkStep, ReconcileStep, Search, CheckTaken, EnsureRead, SearchAgain,
        CreateCustomer, ReconcileRead, Lookup, CheckOrphan, DeleteOrphan, MergeRecords, SendPhone,
        Throws, Stop

\* A request begins with an identity it has proved, or with a merge to be made.
LEMMA StartHand ==
  ASSUME TypeOK, NEW r \in Requests, Start(r)
  PROVE  /\ UNCHANGED <<into, primary, link, storeVars, history>>
         /\ req' \in [Requests -> Hands]
         /\ \A p \in Requests \ {r} : req'[p] = req[p]
         /\ \E n \in Hands :
              /\ n = req'[r] /\ n.found = {} /\ n.gone = None /\ n.cust \in Customers
              /\ \/ /\ n.pc = "search" /\ n.best = None /\ n.other = None /\ n.id \in Identifiers
                    /\ into[n.cust] = None /\ proof[n.id] \in {n.cust, None}
                    /\ proof' = [proof EXCEPT ![n.id] = n.cust]
                 \/ /\ n.pc = "move" /\ n.id \in Customers /\ n.cust # n.id
                    /\ n.best = primary[n.cust] /\ UNCHANGED proof
  <1>1. req \in [Requests -> Hands] /\ primary \in [Customers -> Records \cup {None}]
    BY DEF TypeOK, Hands
  <1>2. "search" \in Steps /\ "move" \in Steps
    BY DEF Steps, LinkSteps
  <1>3. ASSUME NEW c \in Customers, NEW i \in Identifiers, NEW kind \in {"LOGIN", "LINK"},
               Begin(r, c, i, kind)
        PROVE  /\ UNCHANGED <<into, primary, link, storeVars, history>>
               /\ req' \in [Requests -> Hands]
               /\ \A p \in Requests \ {r} : req'[p] = req[p]
               /\ \E n \in Hands :
                    /\ n = req'[r] /\ n.found = {} /\ n.gone = None /\ n.cust \in Customers
                    /\ n.pc = "search" /\ n.best = None /\ n.other = None /\ n.id \in Identifiers
                    /\ into[n.cust] = None /\ proof[n.id] \in {n.cust, None}
                    /\ proof' = [proof EXCEPT ![n.id] = n.cust]
    <2> DEFINE h == [Idle EXCEPT !.pc = "search", !.cust = c, !.id = i, !.kind = kind]
    <2>1. /\ h \in Hands /\ h.pc = "search" /\ h.cust = c /\ h.id = i /\ h.found = {}
          /\ h.best = None /\ h.other = None /\ h.gone = None
      BY <1>2, IdleShape DEF Hands
    <2>2. PICK n \in Hands :
            /\ Become(r, n) /\ n.pc = "search" /\ n.cust = c /\ n.id = i /\ n.found = {}
            /\ n.best = None /\ n.other = None /\ n.gone = None
      BY <1>3, <2>1 DEF Begin
    <2>3. /\ req' \in [Requests -> Hands] /\ req'[r] = n
          /\ \A p \in Requests \ {r} : req'[p] = req[p]
      BY <1>1, <2>2, BecomeShape
    <2>4. /\ UNCHANGED <<into, primary, link, storeVars, history>> /\ into[c] = None
          /\ proof[i] \in {c, None} /\ proof' = [proof EXCEPT ![i] = c]
      BY <1>3 DEF Begin, history
    <2>5. QED
      BY <2>2, <2>3, <2>4
  <1>4. ASSUME NEW s \in Customers, NEW t \in Customers, MergeRead(r, s, t)
        PROVE  /\ UNCHANGED <<into, primary, link, storeVars, history>>
               /\ req' \in [Requests -> Hands]
               /\ \A p \in Requests \ {r} : req'[p] = req[p]
               /\ \E n \in Hands :
                    /\ n = req'[r] /\ n.found = {} /\ n.gone = None /\ n.cust \in Customers
                    /\ n.pc = "move" /\ n.id \in Customers /\ n.cust # n.id
                    /\ n.best = primary[n.cust] /\ UNCHANGED proof
    <2> DEFINE h == [Idle EXCEPT !.pc = "move", !.cust = s, !.id = t,
                                 !.best = primary[s], !.other = primary[t]]
    <2>1. /\ h \in Hands /\ h.pc = "move" /\ h.cust = s /\ h.id = t /\ h.found = {}
          /\ h.best = primary[s] /\ h.gone = None
      BY <1>1, <1>2, IdleShape DEF Hands
    <2>2. PICK n \in Hands :
            /\ Become(r, n) /\ n.pc = "move" /\ n.cust = s /\ n.id = t /\ n.found = {}
            /\ n.best = primary[s] /\ n.gone = None
      BY <1>4, <2>1 DEF MergeRead
    <2>3. /\ req' \in [Requests -> Hands] /\ req'[r] = n
          /\ \A p \in Requests \ {r} : req'[p] = req[p]
      BY <1>1, <2>2, BecomeShape
    <2>4. UNCHANGED <<rowVars, storeVars, history>> /\ s # t
      BY <1>4 DEF MergeRead
    <2>5. QED
      BY <2>2, <2>3, <2>4 DEF rowVars
  <1>5. QED
    BY <1>3, <1>4 DEF Start, Login, VerifyIdentity

\* What a merge has in hand once it has picked the rows it moves.
LEMMA MoveHand ==
  ASSUME TypeOK, Sound, NEW r \in Requests, MergeMove(r)
  PROVE  /\ UNCHANGED <<rowVars, storeVars, history>>
         /\ req' \in [Requests -> Hands]
         /\ \A p \in Requests \ {r} : req'[p] = req[p]
         /\ req[r].gone = None
         /\ \E n \in Hands :
              /\ n = req'[r] /\ n.pc = "commit" /\ n.gone = None
              /\ n.cust \in Customers /\ n.id \in Customers /\ n.cust # n.id
  <1>1. /\ req \in [Requests -> Hands] /\ req[r] \in Hands /\ req[r].pc = "move"
        /\ req[r].gone = None /\ req[r].cust \in Customers
        /\ req[r].id \in Customers /\ req[r].cust # req[r].id
    BY DEF TypeOK, Hands, Sound, Sane, MergeMove, At
  <1> DEFINE I == ProofsOf(req[r].cust)
             L == LinksOf(req[r].cust)
             h == [req[r] EXCEPT !.pc = "commit", !.ids = I, !.found = L]
  <1>2. I \in SUBSET Identifiers /\ L \in SUBSET Records
    BY DEF ProofsOf, LinksOf
  <1>3. /\ h \in Hands /\ h.pc = "commit" /\ h.gone = req[r].gone
        /\ h.cust = req[r].cust /\ h.id = req[r].id
    <2> HIDE DEF I, L
    <2>1. QED
      BY <1>1, <1>2, StepNames DEF Hands
  <1>4. PICK n \in Hands :
          /\ Become(r, n) /\ n.pc = "commit" /\ n.gone = None
          /\ n.cust = req[r].cust /\ n.id = req[r].id
    BY <1>1, <1>3 DEF MergeMove
  <1>5. /\ req' \in [Requests -> Hands] /\ req'[r] = n
        /\ \A p \in Requests \ {r} : req'[p] = req[p]
    BY <1>1, <1>4, BecomeShape
  <1>6. UNCHANGED <<rowVars, storeVars, history>>
    BY DEF MergeMove
  <1>7. QED
    BY <1>1, <1>4, <1>5, <1>6

\* The merge keeps the rows' types, and has nothing in hand afterwards.
LEMMA CommitRows ==
  ASSUME TypeOK, Sound, NEW r \in Requests, MergeCommit(r)
  PROVE  /\ Rows' /\ UNCHANGED storeVars
         /\ req' \in [Requests -> Hands] /\ req'[r] = Idle
         /\ \A p \in Requests \ {r} : req'[p] = req[p]
  <1>1. /\ Rows /\ req \in [Requests -> Hands] /\ req[r] \in Hands /\ Sane(req[r])
    BY DEF TypeOK, Rows, Sound, Hands
  <1> DEFINE s == req[r].cust
             t == req[r].id
             b == req[r].best
  <1>2. s \in Customers /\ t \in Customers /\ s # t /\ b \in Records \cup {None}
    BY <1>1 DEF MergeCommit, At, Sane, Hands
  <1>3. /\ proof' \in [Identifiers -> Customers \cup {None}]
        /\ into' \in [Customers -> Customers \cup {None}]
        /\ link' \in [Records -> Customers \cup {None}]
    BY <1>1, <1>2 DEF MergeCommit, LinksMoved, Rows
  <1>4. /\ primary' \in [Customers -> Records \cup {None}]
        /\ \A c, d \in Customers : primary'[c] # None /\ primary'[c] = primary'[d] => c = d
    <2>1. CASE ~Inherits(r)
      BY <1>1, <2>1 DEF MergeCommit, Rows
    <2>2. CASE Inherits(r)
      <3>1. /\ primary' = [primary EXCEPT ![s] = None, ![t] = b]
            /\ \A d \in Customers \ {s, t} : primary[d] # b
        BY <2>2 DEF MergeCommit, Handed
      <3>2. /\ primary' \in [Customers -> Records \cup {None}]
            /\ primary'[s] = None /\ primary'[t] = b
            /\ \A d \in Customers \ {s, t} : primary'[d] = primary[d]
        BY <1>1, <1>2, <3>1 DEF Rows
      <3>3. QED
        BY <1>1, <1>2, <3>1, <3>2 DEF Rows
    <2>3. QED
      BY <2>1, <2>2
  <1>5. /\ req' \in [Requests -> Hands] /\ req'[r] = Idle
        /\ \A p \in Requests \ {r} : req'[p] = req[p]
    BY <1>1, GotoShape, StepNames DEF MergeCommit, Return
  <1>6. QED
    BY <1>3, <1>4, <1>5 DEF MergeCommit, Rows

\* A step that moves one request, if any, keeps the types and what requests rely on.
LEMMA StepKeeps ==
  ASSUME TypeOK, Sound, Remember, Rows', StoreSound, NEW r \in Requests,
         req' \in [Requests -> Hands], \A p \in Requests \ {r} : req'[p] = req[p], SaneAfter(r),
         begun' \in 0 .. MaxRequests, torn' \in BOOLEAN, crossed' \in BOOLEAN
  PROVE  TypeOK' /\ Sound'
  <1>1. had' \in [Records -> SUBSET Identifiers] /\ \A x \in Records : contact'[x] \subseteq had'[x]
    BY HadGrows DEF StoreSound
  <1>2. TypeOK'
    BY <1>1 DEF TypeOK, Rows, StoreSound, Hands
  <1>3. \A p \in Requests : Sane(req[p])'
    <2>1. Sane(req[r])'
      BY DEF SaneAfter
    <2>2. ASSUME NEW p \in Requests \ {r} PROVE Sane(req[p])'
      <3>1. PICK n \in Hands : n = req'[p] /\ n = req[p]
        BY DEF TypeOK, Hands
      <3>2. Sane(req'[p])
        BY <3>1 DEF Sound
      <3>3. SaneAfter(p)
        BY <3>1, <3>2, SaneStays
      <3>4. QED
        BY <3>3 DEF SaneAfter
    <2>3. QED
      BY <2>1, <2>2
  <1>4. QED
    BY <1>1, <1>2, <1>3 DEF Sound, StoreSound

\* With nothing in hand there is nothing to rely on.
LEMMA IdleSane ==
  ASSUME NEW r \in Requests, req'[r] = Idle
  PROVE  SaneAfter(r)
  <1>1. PICK n \in Hands : n = Idle
    BY IdleShape
  <1>2. n.pc = "idle" /\ n.gone = None /\ Idle = Idle'
    BY <1>1, IdleShape DEF Idle
  <1>3. Sane(n)'
    BY <1>1, <1>2, StepNames DEF Sane
  <1>4. QED
    BY <1>1, <1>3 DEF SaneAfter

\* At first.
LEMMA SoundAtFirst ==
  ASSUME Init
  PROVE  TypeOK /\ Sound
  <1>1. Rows
    <2>1. \A c, d \in Customers : primary[c] # None /\ primary[c] = primary[d] => c = d
      <3>1. ASSUME NEW c \in Customers, NEW d \in Customers, primary[c] # None,
                   primary[c] = primary[d]
            PROVE  c = d
        <4>1. primary[c] \in Store
          BY <3>1 DEF Init
        <4>2. link[primary[c]] = c /\ link[primary[c]] = d
          BY <3>1, <4>1 DEF Init
        <4>3. QED
          BY <4>2
      <3>2. QED
        BY <3>1
    <2>2. QED
      BY <2>1 DEF Init, Rows, Records
  <1>2. \A r \in Requests : req[r] = Idle /\ Sane(req[r])
    BY IdleShape, StepNames DEF Init, Sane
  <1>3. TypeOK
    <2>1. req \in [Requests -> Hands]
      BY IdleShape DEF Init
    <2>2. begun \in 0 .. MaxRequests
      BY AccountsAssumption DEF Init, AccountsAssumption
    <2>3. /\ exists \subseteq Records /\ ordered \subseteq Records
          /\ contact \in [Records -> SUBSET Identifiers] /\ had = contact
          /\ torn \in BOOLEAN /\ crossed \in BOOLEAN
      BY DEF Init, Records
    <2>4. QED
      BY <1>1, <2>1, <2>2, <2>3 DEF TypeOK, Rows, Hands
  <1>4. QED
    BY <1>2, <1>3, AccountsAssumption DEF Init, Sound, AccountsAssumption

\* Every step.
LEMMA SoundKept ==
  ASSUME TypeOK, Sound, [Next]_vars
  PROVE  TypeOK' /\ Sound'
  <1>1. CASE UNCHANGED vars
    <2>1. TypeOK'
      BY <1>1 DEF vars, rowVars, storeVars, history, TypeOK
    <2>2. Sound'
      BY <1>1 DEF vars, storeVars, Sound, Sane, Left, Idle
    <2>3. QED
      BY <2>1, <2>2
  <1>2. ASSUME NEW r \in Requests, Start(r), begun < MaxRequests, begun' = begun + 1, Remember
        PROVE  TypeOK' /\ Sound'
    <2>1. StoreSound /\ UNCHANGED <<storeVars, history>>
      BY <1>2, StartHand, StoreStays
    <2>2. Rows'
      BY <1>2, StartHand DEF TypeOK, Rows
    <2>3. SaneAfter(r)
      <3>1. PICK n \in Hands :
              /\ n = req'[r] /\ n.gone = None /\ n.cust \in Customers
              /\ \/ n.pc = "search" /\ n.id \in Identifiers
                 \/ n.pc = "move" /\ n.id \in Customers /\ n.cust # n.id
        BY <1>2, StartHand
      <3>2. Sane(n)'
        BY <3>1, StepNames DEF Sane
      <3>3. QED
        BY <3>1, <3>2 DEF SaneAfter
    <2>4. begun' \in 0 .. MaxRequests
      BY <1>2, AccountsAssumption DEF TypeOK, AccountsAssumption
    <2>5. QED
      BY <1>2, <2>1, <2>2, <2>3, <2>4, StartHand, StepKeeps DEF TypeOK, history
  <1>3. ASSUME NEW r \in Requests, Works(r), UNCHANGED begun, Remember
        PROVE  TypeOK' /\ Sound'
    <2>1. torn' \in BOOLEAN /\ crossed' \in BOOLEAN
      BY <1>3 DEF Works, LinkStep, ReconcileStep, Search, CheckTaken, EnsureRead, SearchAgain,
        CreateCustomer, ReconcileRead, Lookup, CheckOrphan, DeleteOrphan, MergeRecords, SendPhone,
        Throws, Stop, CreateLinks, SetPrimary, Adopt, Switch, Unlink, Relink, history, TypeOK
    <2>2. QED
      BY <1>3, <2>1, WorkHand, WorkRows, StepKeeps DEF Turn, TypeOK
  <1>4. ASSUME NEW r \in Requests, MergeCommit(r), UNCHANGED begun, Remember
        PROVE  TypeOK' /\ Sound'
    <2>1. torn' \in BOOLEAN /\ crossed' \in BOOLEAN
      BY <1>4 DEF MergeCommit, TypeOK
    <2>2. QED
      BY <1>4, <2>1, CommitRows, StoreStays, IdleSane, StepKeeps DEF TypeOK
  <1>9. ASSUME NEW r \in Requests, MergeMove(r), UNCHANGED begun, Remember
        PROVE  TypeOK' /\ Sound'
    <2>1. StoreSound /\ UNCHANGED <<storeVars, history>>
      BY <1>9, MoveHand, StoreStays
    <2>2. Rows'
      BY <1>9, MoveHand DEF TypeOK, Rows, rowVars
    <2>3. SaneAfter(r)
      <3>1. PICK n \in Hands :
              /\ n = req'[r] /\ n.pc = "commit" /\ n.gone = None
              /\ n.cust \in Customers /\ n.id \in Customers /\ n.cust # n.id
        BY <1>9, MoveHand
      <3>2. Sane(n)'
        BY <3>1, StepNames DEF Sane
      <3>3. QED
        BY <3>1, <3>2 DEF SaneAfter
    <2>4. QED
      BY <1>9, <2>1, <2>2, <2>3, MoveHand, StepKeeps DEF TypeOK, history
  <1>5. ASSUME StoreSound, UNCHANGED <<rowVars, req, history, begun>>, Remember
        PROVE  TypeOK' /\ Sound'
    <2>1. had' \in [Records -> SUBSET Identifiers] /\ \A x \in Records : contact'[x] \subseteq had'[x]
      BY <1>5, HadGrows DEF StoreSound
    <2>2. TypeOK'
      BY <1>5, <2>1 DEF TypeOK, rowVars, history, StoreSound
    <2>3. \A p \in Requests : Sane(req[p])'
      BY <1>5 DEF Sound, Sane, StoreSound, TypeOK, Idle
    <2>4. QED
      BY <1>5, <2>1, <2>2, <2>3 DEF Sound, StoreSound
  <1>6. ASSUME NEW x \in Records, Order(x), UNCHANGED begun, Remember
        PROVE  TypeOK' /\ Sound'
    <2>1. StoreSound /\ UNCHANGED <<rowVars, req, history>>
      BY <1>6 DEF Order, StoreSound, TypeOK, Sound, Left
    <2>2. QED
      BY <1>5, <1>6, <2>1
  <1>7. ASSUME NEW c \in Customers, NEW i \in Identifiers, NEW x \in Records, Checkout(c, i, x),
               UNCHANGED begun, Remember
        PROVE  TypeOK' /\ Sound'
    <2>1. ordered' \subseteq Records /\ CreateCart(i, x)
      BY <1>7 DEF Checkout, CreateCart, TypeOK
    <2>2. StoreSound
      <3>1. CASE TakenAtStore(i)
        BY <2>1, <3>1 DEF CreateCart, StoreSound, TypeOK, Sound, Left
      <3>2. CASE ~TakenAtStore(i)
        BY <2>1, <3>2, StoreCreates DEF CreateCart
      <3>3. QED
        BY <3>1, <3>2
    <2>3. QED
      BY <1>5, <1>7, <2>2 DEF Checkout
  <1>8. QED
    BY <1>1, <1>2, <1>3, <1>4, <1>6, <1>7, <1>9 DEF Next, Goes, Works

\* Theorem: the variables stay within their types, and no two accounts have one record
\* for their primary one, however searches, reconciles and merges overlap.
THEOREM TypeCorrect == Spec => []TypeOK
  <1>1. Init => TypeOK /\ Sound
    BY SoundAtFirst
  <1>2. TypeOK /\ Sound /\ [Next]_vars => (TypeOK /\ Sound)'
    BY SoundKept
  <1>3. QED
    BY <1>1, <1>2, PTL DEF Spec

(***************************************************************************)
(* A customer sees what is his                                             *)
(***************************************************************************)

Owned(c, x) == x \in Imported \/ \E i \in had[x] : proof[i] = c

\* What a login or a verification has in hand is the customer's own.
Mine(q) ==
  q.pc \in Working =>
    /\ into[q.cust] = None /\ proof[q.id] = q.cust
    /\ \A x \in Records : x \in q.found \cup {q.best, q.other} => Owned(q.cust, x)

\* And so is what he sees.  A merge of rows that have changed voids it.
OwnInv ==
  ~crossed =>
    /\ \A r \in Requests : Mine(req[r])
    /\ \A c \in Customers, x \in Records : Sees(c, x) /\ into[c] = None => Owned(c, x)

\* A step of a login or a verification proves nothing and merges nobody, and its
\* customer gains the sight only of records it has in hand.
LEMMA SightGained ==
  ASSUME TypeOK, Sound, NEW r \in Requests, Works(r)
  PROVE  /\ UNCHANGED <<proof, into, crossed>>
         /\ \A c \in Customers, x \in Records :
              Sees(c, x)' => \/ Sees(c, x)
                             \/ /\ req[r].pc \in Working /\ c = req[r].cust
                                /\ x \in req[r].found \cup {req[r].best}
  <1>1. Rows /\ req[r] \in Hands
    BY DEF TypeOK, Rows, Hands
  <1>2. {"links", "primary", "reprimary", "adopt", "switch", "relink"} \subseteq Working
    BY DEF Working, LinkSteps, ReconcileSteps
  <1>3. UNCHANGED <<proof, into, crossed>>
    BY DEF Works, LinkStep, ReconcileStep, Search, CheckTaken, EnsureRead, SearchAgain,
        CreateCustomer, ReconcileRead, Lookup, CheckOrphan, DeleteOrphan, MergeRecords, SendPhone,
        Throws, Stop, CreateLinks, SetPrimary, Adopt, Switch, Unlink, Relink, history, rowVars
  <1>4. \/ UNCHANGED <<primary, link>>
        \/ CreateLinks(r) \/ SetPrimary(r) \/ Adopt(r) \/ Switch(r) \/ Unlink(r) \/ Relink(r)
    BY DEF Works, LinkStep, ReconcileStep, Search, CheckTaken, EnsureRead, SearchAgain,
        CreateCustomer, ReconcileRead, Lookup, CheckOrphan, DeleteOrphan, MergeRecords, SendPhone,
        Throws, Stop, rowVars
  <1>5. ASSUME NEW c \in Customers, NEW x \in Records, Sees(c, x)', ~Sees(c, x)
        PROVE  /\ req[r].pc \in Working /\ c = req[r].cust
               /\ x \in req[r].found \cup {req[r].best}
    <2>1. CASE CreateLinks(r)
      BY <1>1, <1>2, <1>5, <2>1 DEF CreateLinks, Linked, At, Sees, Rows
    <2>2. CASE SetPrimary(r) \/ Switch(r)
      BY <1>1, <1>2, <1>5, <2>2 DEF SetPrimary, Switch, At, Sees, Rows
    <2>3. CASE Adopt(r)
      BY <1>1, <1>2, <1>5, <2>3 DEF Adopt, At, Sees, Rows
    <2>4. CASE Unlink(r)
      BY <1>1, <1>5, <2>4, AccountsAssumption DEF Unlink, Sees, Rows, AccountsAssumption
    <2>5. CASE Relink(r)
      BY <1>1, <1>2, <1>5, <2>5 DEF Relink, At, Sees, Rows
    <2>6. QED
      BY <1>4, <1>5, <2>1, <2>2, <2>3, <2>4, <2>5 DEF Sees
  <1>6. QED
    BY <1>3, <1>5

\* A request goes on from a step of a login or a verification, or ends.
LEMMA WorksOn ==
  ASSUME TypeOK, NEW r \in Requests, Works(r)
  PROVE  req[r].pc \in Working \/ req'[r] = Idle
  <1>1. req \in [Requests -> Hands]
    BY DEF TypeOK, Hands
  <1>2. CASE Stop(r)
    BY <1>1, <1>2, GotoShape, StepNames DEF Stop, Return
  <1>3. CASE ~Stop(r)
    BY <1>3
    DEF Works, LinkStep, ReconcileStep, Search, CheckTaken, EnsureRead, SearchAgain,
        CreateCustomer, ReconcileRead, Lookup, CheckOrphan, DeleteOrphan, MergeRecords, SendPhone,
        Throws, CreateLinks, SetPrimary, Adopt, Switch, Unlink, Relink, At, Working, LinkSteps,
        ReconcileSteps
  <1>4. QED
    BY <1>2, <1>3

\* What is proved stays proved, and a record does not lose what it has had.
LEMMA OwnedStays ==
  ASSUME TypeOK, Remember, NEW c, NEW x \in Records, Owned(c, x),
         \A i \in Identifiers : proof[i] = c => proof'[i] = c
  PROVE  Owned(c, x)'
  <1>1. had[x] \subseteq Identifiers /\ had[x] \subseteq had'[x]
    BY DEF TypeOK, Remember
  <1>2. QED
    BY <1>1 DEF Owned

\* A step of a login or a verification.
LEMMA OwnWorks ==
  ASSUME TypeOK, Sound, OwnInv, Remember, NEW r \in Requests, Works(r), ~crossed'
  PROVE  OwnInv'
  <1>1. /\ UNCHANGED <<proof, into>> /\ ~crossed
        /\ \A c \in Customers, x \in Records :
              Sees(c, x)' => \/ Sees(c, x)
                             \/ /\ req[r].pc \in Working /\ c = req[r].cust
                                /\ x \in req[r].found \cup {req[r].best}
    BY SightGained
  <1>2. \A c, x : x \in Records /\ Owned(c, x) => Owned(c, x)'
    BY <1>1, OwnedStays
  <1>3. /\ Mine(req[r]) /\ Sane(req[r]) /\ Turn(r) /\ Rows
        /\ req \in [Requests -> Hands]
    BY <1>1, WorkHand DEF OwnInv, Sound, TypeOK, Rows, Hands
  <1>4. ASSUME NEW c \in Customers, NEW x \in Records, Sees(c, x)', into[c] = None
        PROVE  Owned(c, x)'
    BY <1>1, <1>2, <1>3, <1>4 DEF OwnInv, Mine
  <1>5. ASSUME NEW n \in Hands, Onward(req[r], n), req[r].pc \in Working \/ n = Idle
        PROVE  Mine(n)'
    <2>1. CASE n = Idle
      BY <2>1, IdleShape, StepNames DEF Mine
    <2>2. CASE n # Idle
      <3>1. /\ n.cust = req[r].cust /\ n.id = req[r].id /\ req[r].pc \in Working
            /\ n.cust \in Customers /\ into[n.cust] = None /\ proof[n.id] = n.cust
        BY <1>3, <1>5, <2>2 DEF Onward, Mine, Sane
      <3>2. ASSUME NEW x \in Records, x \in n.found \cup {n.best, n.other}
            PROVE  Owned(n.cust, x)'
        <4>1. CASE n.id \in had'[x]
          BY <1>1, <3>1, <4>1 DEF Owned
        <4>2. CASE x \in req[r].found \cup {req[r].best, req[r].other}
          BY <1>2, <1>3, <3>1, <4>2 DEF Mine
        <4>3. CASE x = primary[req[r].cust]
          BY <1>1, <1>2, <3>1, <4>3 DEF OwnInv, Sees
        <4>4. QED
          BY <1>5, <2>2, <3>1, <3>2, <4>1, <4>2, <4>3, AccountsAssumption
          DEF Onward, AccountsAssumption
      <3>3. QED
        BY <1>1, <3>1, <3>2 DEF Mine
    <2>3. QED
      BY <2>1, <2>2
  <1>6. \A p \in Requests : Mine(req[p])'
    <2>1. ASSUME NEW p \in Requests \ {r} PROVE Mine(req[p])'
      <3>1. req'[p] = req[p] /\ Mine(req[p])
        BY <1>1, <1>3 DEF Turn, OwnInv
      <3>2. QED
        BY <1>1, <1>2, <3>1 DEF Mine
    <2>2. Mine(req[r])'
      <3>1. PICK n \in Hands : n = req'[r]
        BY <1>3 DEF Turn
      <3>2. req[r].pc \in Working \/ n = Idle
        BY <3>1, WorksOn
      <3>3. Mine(n)'
        BY <1>3, <1>5, <3>1, <3>2 DEF Turn
      <3>4. QED
        BY <3>1, <3>3
    <2>3. QED
      BY <2>1, <2>2
  <1>7. QED
    BY <1>1, <1>4, <1>6 DEF OwnInv

\* The beginning of a request: a login proves what nobody else has proved.
LEMMA OwnStart ==
  ASSUME TypeOK, Sound, OwnInv, Remember, NEW r \in Requests, Start(r), ~crossed'
  PROVE  OwnInv'
  <1>1. UNCHANGED <<into, primary, link, crossed>> /\ ~crossed
    BY StartHand DEF history
  <1>2. PICK n \in Hands :
          /\ n = req'[r] /\ n.found = {} /\ n.cust \in Customers
          /\ \/ /\ n.pc = "search" /\ n.best = None /\ n.other = None /\ n.id \in Identifiers
                /\ into[n.cust] = None /\ proof[n.id] \in {n.cust, None}
                /\ proof' = [proof EXCEPT ![n.id] = n.cust]
             \/ n.pc = "move" /\ UNCHANGED proof
    BY StartHand
  <1>3. \A c \in Customers, i \in Identifiers : proof[i] = c => proof'[i] = c
    BY <1>2, AccountsAssumption DEF TypeOK, AccountsAssumption
  <1>4. \A c \in Customers, x \in Records : Owned(c, x) => Owned(c, x)'
    BY <1>3, OwnedStays
  <1>5. Mine(n)'
    <2>1. CASE n.pc = "search"
      <3>1. proof'[n.id] = n.cust /\ into'[n.cust] = None
        BY <1>1, <1>2, <2>1 DEF TypeOK
      <3>2. QED
        BY <1>2, <2>1, <3>1, AccountsAssumption DEF Mine, AccountsAssumption
    <2>2. CASE n.pc = "move"
      BY <2>2, StepNames DEF Mine
    <2>3. QED
      BY <1>2, <2>1, <2>2
  <1>6. ASSUME NEW p \in Requests \ {r} PROVE Mine(req[p])'
    <2>1. req'[p] = req[p] /\ Mine(req[p]) /\ Sane(req[p])
      BY <1>1, StartHand DEF OwnInv, Sound
    <2>2. QED
      BY <1>1, <1>3, <1>4, <2>1 DEF Mine, Sane
  <1>7. \A p \in Requests : Mine(req[p])'
    BY <1>2, <1>5, <1>6
  <1>8. QED
    BY <1>1, <1>4, <1>7 DEF OwnInv, Sees

\* A merge that picks its rows changes none.
LEMMA OwnMove ==
  ASSUME TypeOK, Sound, OwnInv, Remember, NEW r \in Requests, MergeMove(r), ~crossed'
  PROVE  OwnInv'
  <1>1. UNCHANGED <<proof, into, primary, link, crossed>> /\ ~crossed
    BY MoveHand DEF rowVars, history
  <1>2. \A c \in Customers, x \in Records : Owned(c, x) => Owned(c, x)'
    BY <1>1, OwnedStays
  <1>3. ASSUME NEW p \in Requests PROVE Mine(req[p])'
    <2>1. CASE p = r
      <3>1. PICK n \in Hands : n = req'[r] /\ n.pc = "commit"
        BY MoveHand
      <3>2. QED
        BY <2>1, <3>1, StepNames DEF Mine
    <2>2. CASE p # r
      <3>1. req'[p] = req[p] /\ Mine(req[p]) /\ Sane(req[p])
        BY <1>1, <2>2, MoveHand DEF OwnInv, Sound
      <3>2. QED
        BY <1>1, <1>2, <3>1 DEF Mine, Sane
    <2>3. QED
      BY <2>1, <2>2
  <1>4. QED
    BY <1>1, <1>2, <1>3 DEF OwnInv, Sees

\* The merge of s into t, on rows that have not changed: what s has proved and sees
\* goes to t, and no request of either is at work.
LEMMA OwnCommit ==
  ASSUME TypeOK, Sound, OwnInv, Remember, NEW r \in Requests, MergeCommit(r), ~crossed'
  PROVE  OwnInv'
  <1>1. req[r].cust \in Customers /\ req[r].id \in Customers /\ req[r].cust # req[r].id
    BY DEF MergeCommit, At, Sound, Sane
  <1>2. PICK s \in Customers, t \in Customers, b \in Records \cup {None} :
          s = req[r].cust /\ t = req[r].id /\ b = req[r].best
    BY <1>1 DEF TypeOK
  <1>3. s # t /\ Rows /\ req \in [Requests -> Hands]
    BY <1>1, <1>2 DEF TypeOK, Rows, Hands
  <1>4. /\ ~crossed /\ into[s] = None /\ into[t] = None /\ primary[s] = b
        /\ \A q \in Requests \ {r} : req[q].cust \notin {s, t} /\ req[q].id \notin {s, t}
        /\ \A i \in Identifiers : proof[i] = s => i \in req[r].ids
        /\ \A x \in Records : link[x] = s => x \in req[r].found
    BY <1>2 DEF MergeCommit, ProofsOf, LinksOf
  <1>5. /\ into' = [into EXCEPT ![s] = t]
        /\ proof' = [i \in Identifiers |-> IF proof[i] = s THEN t ELSE proof[i]]
        /\ link' = [x \in Records |-> IF link[x] = s \/ x = b THEN t ELSE link[x]]
        /\ \/ UNCHANGED primary
           \/ primary' = [primary EXCEPT ![s] = None, ![t] = b]
    BY <1>2, <1>4 DEF MergeCommit, LinksMoved, Handed
  <1>6. \A c, x : x \in Records /\ c # s /\ Owned(c, x) => Owned(c, x)'
    <2>1. \A c : c # s => \A i \in Identifiers : proof[i] = c => proof'[i] = c
      BY <1>5
    <2>2. QED
      BY <2>1, OwnedStays
  <1>7. \A x \in Records : Owned(s, x) => Owned(t, x)'
    <2>1. \A i \in Identifiers : proof[i] = s => proof'[i] = t
      BY <1>5
    <2>2. \A x \in Records : had[x] \subseteq Identifiers /\ had[x] \subseteq had'[x]
      BY DEF TypeOK, Remember
    <2>3. QED
      BY <2>1, <2>2 DEF Owned
  <1>8. ASSUME NEW c \in Customers, NEW x \in Records, Sees(c, x)', into'[c] = None
        PROVE  Owned(c, x)'
    <2>1. c # s /\ into[c] = None
      BY <1>3, <1>5, <1>8, AccountsAssumption DEF Rows, AccountsAssumption
    <2>2. CASE Sees(c, x)
      BY <1>4, <1>6, <2>1, <2>2 DEF OwnInv
    <2>3. CASE ~Sees(c, x)
      <3>1. c = t /\ Sees(s, x)
        BY <1>3, <1>4, <1>5, <1>8, <2>1, <2>3, AccountsAssumption
        DEF Rows, Sees, AccountsAssumption
      <3>2. QED
        BY <1>3, <1>4, <1>7, <3>1 DEF OwnInv
    <2>4. QED
      BY <2>2, <2>3
  <1>9. ASSUME NEW p \in Requests PROVE Mine(req[p])'
    <2>1. CASE p = r
      <3>1. PICK n \in Hands : n = req'[r] /\ n.pc = "idle"
        BY CommitRows, IdleShape
      <3>2. QED
        BY <2>1, <3>1, StepNames DEF Mine
    <2>2. CASE p # r
      <3>1. req'[p] = req[p] /\ Mine(req[p]) /\ Sane(req[p])
        BY <1>4, <2>2, CommitRows DEF OwnInv, Sound
      <3>2. req[p].cust # s
        BY <1>4, <2>2
      <3>3. QED
        BY <1>3, <1>5, <1>6, <3>1, <3>2 DEF Mine, Sane, Rows
    <2>3. QED
      BY <2>1, <2>2
  <1>10. QED
    BY <1>8, <1>9 DEF OwnInv

\* Theorem: a customer sees the orders of a record only because he has proved an email
\* or phone that it has or has had, or was imported with it, for any customers, records
\* and requests and however they overlap, until a merge is made of rows that changed.
THEOREM SeesOnlyHisOwn == Spec => []OwnRecordsOnly
  <1> DEFINE Inv == TypeOK /\ Sound /\ OwnInv
  <1>1. Init => Inv
    <2>1. ASSUME Init PROVE OwnInv
      <3>1. \A r \in Requests : Mine(req[r])
        BY <2>1, IdleShape, StepNames DEF Init, Mine
      <3>2. ASSUME NEW c \in Customers, NEW x \in Records, Sees(c, x) PROVE x \in Imported
        BY <2>1, <3>2, AccountsAssumption DEF Init, Sees, Records, AccountsAssumption
      <3>3. QED
        BY <3>1, <3>2 DEF OwnInv, Owned
    <2>2. QED
      BY <2>1, SoundAtFirst
  <1>2. Inv /\ [Next]_vars => Inv'
    <2> SUFFICES ASSUME Inv, [Next]_vars, ~crossed' PROVE OwnInv'
      BY SoundKept DEF OwnInv
    <2>1. CASE UNCHANGED vars
      BY <2>1 DEF vars, rowVars, history, OwnInv, Mine, Owned, Sees
    <2>2. ASSUME NEW r \in Requests, Start(r), Remember PROVE OwnInv'
      BY <2>2, OwnStart
    <2>3. ASSUME NEW r \in Requests, Works(r), Remember PROVE OwnInv'
      BY <2>3, OwnWorks
    <2>4. ASSUME NEW r \in Requests, MergeCommit(r), Remember PROVE OwnInv'
      BY <2>4, OwnCommit
    <2>7. ASSUME NEW r \in Requests, MergeMove(r), Remember PROVE OwnInv'
      BY <2>7, OwnMove
    <2>5. ASSUME UNCHANGED <<rowVars, req, history>>, Remember PROVE OwnInv'
      <3>1. \A c \in Customers, x \in Records : Owned(c, x) => Owned(c, x)'
        BY <2>5, OwnedStays DEF rowVars
      <3>2. \A r \in Requests : Mine(req[r])'
        BY <2>5, <3>1 DEF OwnInv, Mine, Sound, Sane, rowVars, history
      <3>3. QED
        BY <2>5, <3>1, <3>2 DEF OwnInv, Sees, rowVars, history
    <2>6. QED
      BY <2>1, <2>2, <2>3, <2>4, <2>5, <2>7 DEF Next, Goes, Works, Order, Checkout
  <1>3. Inv => OwnRecordsOnly
    BY DEF OwnInv, OwnRecordsOnly, Owned, TypeOK
  <1>4. QED
    BY <1>1, <1>2, <1>3, PTL DEF Spec

(***************************************************************************)
(* No account stands for a record that is gone                             *)
(***************************************************************************)

\* What a request is about to write is a record the store has.
Stands(q) ==
  /\ q.pc \notin {"move", "commit"} => q.best \in exists \cup {None}
  /\ q.pc = "links" => q.found \subseteq exists

\* A column names a record that is gone only while the request that removed it is
\* about to overwrite it, and a link only until that request deletes it.
StandInv ==
  ~torn /\ ~crossed =>
    /\ \A r \in Requests : Stands(req[r])
    /\ \A c \in Customers :
         \/ primary[c] \in exists \cup {None}
         \/ \E r \in Requests : /\ req[r].gone = primary[c] /\ req[r].pc = "switch"
                                /\ req[r].cust = c
    /\ \A x \in Records \ exists : link[x] # None => \E r \in Requests : req[r].gone = x

\* What a step of a login or a verification leaves of the record that went, and what it
\* writes: a record it has in hand.
LEMMA StandRows ==
  ASSUME TypeOK, Sound, NEW r \in Requests, Works(r)
  PROVE  /\ \A c \in Customers :
              primary'[c] # primary[c] =>
                req[r].pc \in Working /\ c = req[r].cust /\ primary'[c] = req[r].best
         /\ \A x \in Records :
              link'[x] \notin {link[x], None} =>
                \/ x = req[r].best /\ req[r].pc \in Working
                \/ x \in req[r].found /\ req[r].pc = "links"
         /\ torn => torn'
         /\ req[r].gone # None /\ req'[r].gone # req[r].gone =>
              torn' \/ (req[r].pc = "unlink" /\ link'[req[r].gone] = None)
         /\ req[r].gone # None /\ req[r].pc = "switch" /\ req'[r].pc # "switch" =>
              torn' \/ primary'[req[r].cust] = req[r].best
  <1>1. Rows /\ req[r] \in Hands /\ req \in [Requests -> Hands] /\ Sane(req[r])
    BY DEF TypeOK, Rows, Hands, Sound
  <1>2. {"links", "primary", "reprimary", "adopt", "switch", "relink", "unlink"} \subseteq Working
    BY DEF Working, LinkSteps, ReconcileSteps
  <1>3. \A c \in Customers :
          primary'[c] # primary[c] =>
            req[r].pc \in Working /\ c = req[r].cust /\ primary'[c] = req[r].best
    BY <1>1, <1>2 DEF Works, LinkStep, ReconcileStep, Search, CheckTaken, EnsureRead, SearchAgain,
        CreateCustomer, ReconcileRead, Lookup, CheckOrphan, DeleteOrphan, MergeRecords, SendPhone,
        Throws, Stop, CreateLinks, SetPrimary, Adopt, Switch, Unlink, Relink, rowVars, At, Rows
  <1>4. ASSUME NEW x \in Records, link'[x] \notin {link[x], None}
        PROVE  \/ x = req[r].best /\ req[r].pc \in Working
               \/ x \in req[r].found /\ req[r].pc = "links"
    <2>1. CreateLinks(r) \/ Adopt(r) \/ Unlink(r) \/ Relink(r)
      BY <1>4 DEF Works, LinkStep, ReconcileStep, Search, CheckTaken, EnsureRead, SearchAgain,
        CreateCustomer, ReconcileRead, Lookup, CheckOrphan, DeleteOrphan, MergeRecords, SendPhone,
        Throws, Stop, SetPrimary, Switch, rowVars
    <2>2. CASE CreateLinks(r)
      BY <1>4, <2>2 DEF CreateLinks, Linked, At
    <2>3. CASE Adopt(r) \/ Unlink(r) \/ Relink(r)
      BY <1>1, <1>2, <1>4, <2>3 DEF Adopt, Unlink, Relink, At, Rows
    <2>4. QED
      BY <2>1, <2>2, <2>3
  <1>5. torn => torn'
    BY DEF Works, LinkStep, ReconcileStep, Search, CheckTaken, EnsureRead, SearchAgain,
        CreateCustomer, ReconcileRead, Lookup, CheckOrphan, DeleteOrphan, MergeRecords, SendPhone,
        Throws, Stop, CreateLinks, SetPrimary, Adopt, Switch, Unlink, Relink, history
  <1>6. CASE req[r].gone = None
    BY <1>3, <1>4, <1>5, <1>6
  <1>7. CASE req[r].gone # None
    <2>1. req[r].pc \in {"switch", "unlink"}
      BY <1>1, <1>7 DEF Sane
    <2>2. Switch(r) \/ Unlink(r) \/ torn'
      BY <1>7, <2>1 DEF Works, LinkStep, ReconcileStep, Search, CheckTaken, EnsureRead,
        SearchAgain, CreateCustomer, ReconcileRead, Lookup, CheckOrphan, DeleteOrphan, MergeRecords,
        SendPhone, Throws, Stop, CreateLinks, SetPrimary, Adopt, Relink, At
    <2>3. CASE Switch(r)
      <3>1. Goto(r, "unlink") /\ primary' = [primary EXCEPT ![req[r].cust] = req[r].best]
            /\ req[r].pc = "switch"
        BY <1>7, <2>3 DEF Switch, At
      <3>2. req'[r].gone = req[r].gone
        BY <1>1, <1>2, <3>1, GotoShape, StepNames
      <3>3. req[r].cust \in Customers
        BY <1>1, <1>2, <3>1 DEF Sane
      <3>4. QED
        BY <1>1, <1>3, <1>4, <1>5, <3>1, <3>2, <3>3 DEF Rows
    <2>4. CASE Unlink(r)
      BY <1>1, <1>3, <1>4, <1>5, <1>7, <2>4 DEF Unlink, At, Rows, Hands
    <2>5. QED
      BY <1>3, <1>4, <1>5, <2>2, <2>3, <2>4
  <1>8. QED
    BY <1>6, <1>7

\* A step of a login or a verification: the request that removes a record is alone at
\* work, and its customer is the only one with a column to change.
LEMMA StandWorks ==
  ASSUME TypeOK, Sound, StandInv, Remember, NEW r \in Requests, Works(r), ~torn', ~crossed'
  PROVE  StandInv'
  <1>1. /\ req \in [Requests -> Hands] /\ req' \in [Requests -> Hands] /\ Rows /\ Rows'
        /\ Turn(r) /\ Removes(r) /\ exists \subseteq Records /\ None \notin Records
        /\ Sane(req[r])
    BY WorkHand, WorkRows, AccountsAssumption
    DEF TypeOK, Hands, Rows, Turn, Sound, AccountsAssumption, Records
  <1>2. ~torn /\ ~crossed /\ ~(torn \/ crossed)
    BY StandRows, SightGained
  <1>3. PICK q \in Hands, n \in Hands : q = req[r] /\ n = req'[r]
    BY <1>1
  <1>4. /\ \A p \in Requests \ {r} : req'[p] = req[p]
        /\ \A p \in Requests : Stands(req[p])
        /\ \A c \in Customers :
             \/ primary[c] \in exists \cup {None}
             \/ \E p \in Requests : /\ req[p].gone = primary[c] /\ req[p].pc = "switch"
                                    /\ req[p].cust = c
        /\ \A x \in Records \ exists : link[x] # None => \E p \in Requests : req[p].gone = x
    BY <1>1, <1>2 DEF Turn, StandInv
  <1>5. \A x \in exists \ exists' :
          /\ n.gone = x /\ n.pc = "switch" /\ n.cust = q.cust /\ n.best # x
          /\ \A p \in Requests \ {r} : req[p].pc = "idle"
          /\ \A c \in Customers : primary[c] = x => c = q.cust
    BY <1>1, <1>3 DEF Removes, Busy, Sees
  <1>6. /\ \A c \in Customers :
             primary'[c] # primary[c] => q.pc \in Working /\ c = q.cust /\ primary'[c] = q.best
        /\ \A x \in Records :
             link'[x] \notin {link[x], None} =>
               \/ x = q.best /\ q.pc \in Working
               \/ x \in q.found /\ q.pc = "links"
        /\ q.gone # None /\ n.gone # q.gone => q.pc = "unlink" /\ link'[q.gone] = None
        /\ q.gone # None /\ q.pc = "switch" /\ n.pc # "switch" => primary'[q.cust] = q.best
    BY <1>3, StandRows
  <1>7. Onward(q, n) /\ Stands(q) /\ Sane(q)
    BY <1>1, <1>3, <1>4 DEF Turn
  <1>8. q.pc \in Working => q.best \in exists \cup {None}
    BY <1>7, StepNames DEF Stands
  <1>9. Stands(n)'
    <2>1. CASE n = Idle
      BY <2>1, IdleShape DEF Stands
    <2>2. CASE n # Idle
      <3>1. n.pc \in Working /\ n.best \in {None, q.best} \cup exists'
            /\ (n.pc = "links" => n.found \subseteq exists')
        BY <1>7, <2>2 DEF Onward
      <3>2. n.best = q.best => n.best \in exists' \cup {None}
        <4>1. q.pc \in Working
          BY <1>3, <2>2, WorksOn
        <4>2. QED
          BY <1>5, <1>8, <4>1
      <3>3. QED
        BY <3>1, <3>2 DEF Stands
    <2>3. QED
      BY <2>1, <2>2
  <1>10. ASSUME NEW p \in Requests PROVE Stands(req[p])'
    <2>1. CASE p = r
      BY <1>3, <1>9, <2>1 DEF Stands
    <2>2. CASE p # r /\ exists \subseteq exists'
      BY <1>4, <2>2 DEF Stands
    <2>3. CASE p # r /\ ~(exists \subseteq exists')
      <3>1. req'[p] = Idle
        BY <1>4, <1>5, <2>3 DEF Sound, Sane
      <3>2. QED
        BY <3>1, IdleShape DEF Stands
    <2>4. QED
      BY <2>1, <2>2, <2>3
  <1>11. ASSUME NEW c \in Customers
         PROVE  \/ primary'[c] \in exists' \cup {None}
                \/ \E p \in Requests : /\ req'[p].gone = primary'[c] /\ req'[p].pc = "switch"
                                       /\ req'[p].cust = c
    <2>1. CASE primary'[c] \in exists \cup {None} /\ (primary'[c] = primary[c] \/ c = q.cust)
      BY <1>3, <1>5, <2>1
    <2>2. CASE primary'[c] # primary[c]
      BY <1>6, <1>8, <2>1, <2>2
    <2>3. CASE primary'[c] = primary[c] /\ primary[c] \notin exists \cup {None}
      <3>1. PICK p \in Requests : req[p].gone = primary[c] /\ req[p].pc = "switch" /\ req[p].cust = c
        BY <1>4, <2>3
      <3>2. CASE p # r
        BY <1>4, <2>3, <3>1, <3>2
      <3>3. CASE p = r
        <4>1. q.gone # None /\ q.gone = primary[c] /\ q.pc = "switch" /\ q.cust = c
          BY <1>3, <2>3, <3>1, <3>3
        <4>2. n.gone = q.gone
          BY <1>6, <4>1
        <4>3. n # Idle
          BY <4>1, <4>2, IdleShape
        <4>4. n.cust = q.cust
          BY <1>7, <4>3 DEF Onward
        <4>5. n.pc # "switch" => primary'[c] \in exists \cup {None}
          BY <1>6, <1>7, <4>1 DEF Stands
        <4>6. QED
          BY <1>3, <2>3, <4>1, <4>2, <4>4, <4>5
      <3>4. QED
        BY <3>2, <3>3
    <2>4. QED
      BY <2>1, <2>2, <2>3
  <1>12. ASSUME NEW x \in Records, x \notin exists', link'[x] # None
         PROVE  \E p \in Requests : req'[p].gone = x
    <2>1. CASE x \in exists
      BY <1>3, <1>5, <1>12, <2>1
    <2>2. CASE x \notin exists /\ link'[x] = link[x]
      <3>1. PICK p \in Requests : req[p].gone = x
        BY <1>4, <1>12, <2>2
      <3>2. CASE p # r
        BY <1>4, <3>1, <3>2
      <3>3. CASE p = r
        BY <1>1, <1>3, <1>6, <1>12, <3>1, <3>3
      <3>4. QED
        BY <3>2, <3>3
    <2>3. CASE x \notin exists /\ link'[x] # link[x]
      BY <1>1, <1>6, <1>7, <1>8, <1>12, <2>3 DEF Stands
    <2>4. QED
      BY <2>1, <2>2, <2>3
  <1>13. QED
    BY <1>10, <1>11, <1>12 DEF StandInv

\* The beginning of a request: it has nothing in hand yet, or a merge to be made.
LEMMA StandStart ==
  ASSUME TypeOK, Sound, StandInv, NEW r \in Requests, Start(r)
  PROVE  StandInv'
  <1>1. /\ UNCHANGED <<primary, link, exists, torn, crossed>>
        /\ \A p \in Requests \ {r} : req'[p] = req[p]
    BY StartHand DEF storeVars, history
  <1>2. PICK n \in Hands :
          /\ n = req'[r] /\ n.found = {}
          /\ (n.pc = "search" /\ n.best = None) \/ n.pc = "move"
    BY StartHand
  <1>3. req[r].gone = None
    <2>1. At(r, "idle")
      BY DEF Start, Login, VerifyIdentity, Begin, MergeRead
    <2>2. QED
      BY <2>1, IdleShape DEF At, Sound, Sane
  <1>4. \A p \in Requests : Stands(req[p]) => Stands(req[p])'
    <2>1. Stands(n)'
      BY <1>2 DEF Stands
    <2>2. ASSUME NEW p \in Requests \ {r}, Stands(req[p]) PROVE Stands(req[p])'
      BY <1>1, <2>2 DEF Stands
    <2>3. QED
      BY <1>2, <2>1, <2>2
  <1>5. \A p \in Requests : req[p].gone # None => req'[p] = req[p]
    BY <1>1, <1>3
  <1>6. None \notin Records
    BY AccountsAssumption DEF AccountsAssumption
  <1>7. SUFFICES ASSUME ~torn', ~crossed' PROVE StandInv'
    BY DEF StandInv
  <1>8. ASSUME NEW c \in Customers
        PROVE  \/ primary'[c] \in exists' \cup {None}
               \/ \E p \in Requests : /\ req'[p].gone = primary'[c] /\ req'[p].pc = "switch"
                                      /\ req'[p].cust = c
    BY <1>1, <1>5, <1>7 DEF StandInv
  <1>9. ASSUME NEW x \in Records, x \notin exists', link'[x] # None
        PROVE  \E p \in Requests : req'[p].gone = x
    BY <1>1, <1>5, <1>6, <1>7, <1>9 DEF StandInv
  <1>10. QED
    BY <1>1, <1>4, <1>7, <1>8, <1>9 DEF StandInv

\* A merge that picks its rows has nothing of the store's in hand.
LEMMA StandMove ==
  ASSUME TypeOK, Sound, StandInv, NEW r \in Requests, MergeMove(r)
  PROVE  StandInv'
  <1>1. /\ UNCHANGED <<primary, link, exists, torn, crossed>> /\ req[r].gone = None
        /\ \A p \in Requests \ {r} : req'[p] = req[p]
    BY MoveHand DEF rowVars, storeVars, history
  <1>2. PICK n \in Hands : n = req'[r] /\ n.pc = "commit"
    BY MoveHand
  <1>3. SUFFICES ASSUME ~torn', ~crossed' PROVE StandInv'
    BY DEF StandInv
  <1>4. \A p \in Requests : Stands(req[p])'
    BY <1>1, <1>2, <1>3 DEF StandInv, Stands
  <1>5. \A p \in Requests : req[p].gone # None => req'[p] = req[p]
    BY <1>1
  <1>6. None \notin Records
    BY AccountsAssumption DEF AccountsAssumption
  <1>7. ASSUME NEW c \in Customers
        PROVE  \/ primary'[c] \in exists' \cup {None}
               \/ \E p \in Requests : /\ req'[p].gone = primary'[c] /\ req'[p].pc = "switch"
                                      /\ req'[p].cust = c
    BY <1>1, <1>3, <1>5 DEF StandInv
  <1>8. ASSUME NEW x \in Records, x \notin exists', link'[x] # None
        PROVE  \E p \in Requests : req'[p].gone = x
    BY <1>1, <1>3, <1>5, <1>6, <1>8 DEF StandInv
  <1>9. QED
    BY <1>4, <1>7, <1>8 DEF StandInv

\* The merge of s into t, with no other request of either at work: the record s stood for
\* is one the store has.
LEMMA StandCommit ==
  ASSUME TypeOK, Sound, StandInv, NEW r \in Requests, MergeCommit(r), ~torn', ~crossed'
  PROVE  StandInv'
  <1>1. req[r].cust \in Customers /\ req[r].id \in Customers /\ req[r].gone = None
    BY StepNames DEF MergeCommit, At, Sound, Sane
  <1>2. PICK s \in Customers, t \in Customers, b \in Records \cup {None} :
          s = req[r].cust /\ t = req[r].id /\ b = req[r].best
    BY <1>1 DEF TypeOK
  <1>3. /\ Rows /\ None \notin Records
        /\ req'[r] = Idle /\ UNCHANGED exists
        /\ \A p \in Requests \ {r} : req'[p] = req[p]
    BY CommitRows, AccountsAssumption DEF TypeOK, Rows, storeVars, AccountsAssumption
  <1>4. /\ ~torn /\ ~crossed /\ primary[s] = b
        /\ \A q \in Requests \ {r} : req[q].cust # s
        /\ \A x \in Records : link[x] = s => x \in req[r].found
    BY <1>2 DEF MergeCommit, LinksOf
  <1>5. /\ link' = [x \in Records |-> IF link[x] = s \/ x = b THEN t ELSE link[x]]
        /\ \/ UNCHANGED primary
           \/ primary' = [primary EXCEPT ![s] = None, ![t] = b]
    BY <1>2, <1>4 DEF MergeCommit, LinksMoved, Handed
  <1>6. \A p \in Requests : req[p].gone # None => p # r /\ req'[p] = req[p]
    BY <1>1, <1>3
  <1>7. b \in exists \cup {None}
    BY <1>1, <1>4, <1>6 DEF StandInv
  <1>8. ASSUME NEW p \in Requests PROVE Stands(req[p])'
    <2>1. CASE p = r
      BY <1>3, <2>1, IdleShape DEF Stands
    <2>2. CASE p # r
      BY <1>3, <1>4, <2>2 DEF Stands, StandInv
    <2>3. QED
      BY <2>1, <2>2
  <1>9. ASSUME NEW c \in Customers
        PROVE  \/ primary'[c] \in exists' \cup {None}
               \/ \E p \in Requests : /\ req'[p].gone = primary'[c] /\ req'[p].pc = "switch"
                                      /\ req'[p].cust = c
    <2>1. primary'[c] \in {primary[c], None, b}
      BY <1>3, <1>5 DEF Rows
    <2>2. QED
      BY <1>3, <1>4, <1>6, <1>7, <2>1 DEF StandInv
  <1>10. ASSUME NEW x \in Records, x \notin exists', link'[x] # None
         PROVE  \E p \in Requests : req'[p].gone = x
    <2>1. link[x] # None
      BY <1>3, <1>5, <1>7, <1>10, AccountsAssumption DEF AccountsAssumption
    <2>2. QED
      BY <1>3, <1>4, <1>6, <1>10, <2>1 DEF StandInv
  <1>11. QED
    BY <1>8, <1>9, <1>10 DEF StandInv

\* Theorem: no column names a record that is gone, for any number of requests: the request
\* that has the store delete or merge a record away has the columns follow, unless it
\* failed half way, was not alone with the record, or a merge crossed it.
THEOREM StandsForExisting == Spec => []PointsAtExisting
  <1> DEFINE Inv == TypeOK /\ Sound /\ StandInv
  <1>1. Init => Inv
    <2>1. ASSUME Init PROVE StandInv
      <3>1. \A r \in Requests : Stands(req[r])
        BY <2>1, IdleShape DEF Init, Stands
      <3>2. \A x \in Records \ exists : link[x] = None
        BY <2>1, AccountsAssumption DEF Init, AccountsAssumption
      <3>3. \A c \in Customers : primary[c] \in exists \cup {None}
        BY <2>1 DEF Init
      <3>4. QED
        BY <3>1, <3>2, <3>3 DEF StandInv
    <2>2. QED
      BY <2>1, SoundAtFirst
  <1>2. Inv /\ [Next]_vars => Inv'
    <2> SUFFICES ASSUME Inv, [Next]_vars, ~torn', ~crossed' PROVE StandInv'
      BY SoundKept DEF StandInv
    <2>1. CASE UNCHANGED vars
      BY <2>1 DEF vars, rowVars, storeVars, history, StandInv, Stands
    <2>2. ASSUME NEW r \in Requests, Start(r) PROVE StandInv'
      BY <2>2, StandStart
    <2>3. ASSUME NEW r \in Requests, Works(r), Remember PROVE StandInv'
      BY <2>3, StandWorks
    <2>4. ASSUME NEW r \in Requests, MergeCommit(r) PROVE StandInv'
      BY <2>4, StandCommit
    <2>7. ASSUME NEW r \in Requests, MergeMove(r) PROVE StandInv'
      BY <2>7, StandMove
    <2>5. ASSUME UNCHANGED <<rowVars, req, history>>, exists \subseteq exists' PROVE StandInv'
      <3>1. /\ UNCHANGED <<primary, link, req, torn, crossed>> /\ StandInv
        BY <2>5 DEF rowVars, history
      <3>2. QED
        BY <2>5, <3>1 DEF StandInv, Stands
    <2>6. QED
      BY <2>1, <2>2, <2>3, <2>4, <2>5, <2>7
      DEF Next, Goes, Works, Order, Checkout, CreateCart
  <1>3. Inv => PointsAtExisting
    BY DEF StandInv, PointsAtExisting
  <1>4. QED
    BY <1>1, <1>2, <1>3, PTL DEF Spec

(***************************************************************************)
(* No order is lost                                                        *)
(***************************************************************************)

\* The store forgets no order, and a link is taken away by the deletion of a record that
\* is gone, or by a merge.
LEMMA LinkLeaves ==
  ASSUME TypeOK, Sound, Remember, NEW r \in Requests, Works(r), NEW x \in exists, link[x] # None
  PROVE  x \in ordered => x \in ordered' /\ link'[x] = link[x]
  <1>1. ordered \subseteq ordered'
    BY DEF Works, LinkStep, ReconcileStep, Search, CheckTaken, EnsureRead, SearchAgain,
        CreateCustomer, ReconcileRead, Lookup, CheckOrphan, DeleteOrphan, MergeRecords, SendPhone,
        Throws, Stop, CreateLinks, SetPrimary, Adopt, Switch, Unlink, Relink, storeVars
  <1>2. /\ link \in [Records -> Customers \cup {None}] /\ x \in Records
        /\ req[r] \in Hands /\ Sane(req[r])
    BY DEF TypeOK, Hands, Sound
  <1>3. CASE UNCHANGED link
    BY <1>1, <1>3
  <1>4. CASE CreateLinks(r)
    BY <1>1, <1>2, <1>4 DEF CreateLinks, Linked
  <1>5. CASE Adopt(r) \/ Relink(r)
    BY <1>1, <1>2, <1>5 DEF Adopt, Relink
  <1>6. CASE Unlink(r)
    <2>1. req[r].gone \notin exists
      BY <1>2, <1>6 DEF Unlink, At, Sane, Left
    <2>2. QED
      BY <1>1, <1>2, <1>6, <2>1 DEF Unlink
  <1>7. QED
    BY <1>3, <1>4, <1>5, <1>6
    DEF Works, LinkStep, ReconcileStep, Search, CheckTaken, EnsureRead, SearchAgain,
        CreateCustomer, ReconcileRead, Lookup, CheckOrphan, DeleteOrphan, MergeRecords, SendPhone,
        Throws, Stop, SetPrimary, Switch, rowVars

\* Theorem: a record with orders that is linked to a customer stays with him or goes to
\* the customer he is merged into, in every step that any number of overlapping requests
\* can take, but for a merge of rows that changed, and the merge of a customer whose
\* primary record it is.
THEOREM HistoryStays == Spec => HistoryKept
  <1> DEFINE Stays(c, x) ==
               crossed' \/ \E d \in {c, into'[c]} \cap Customers : x \in OrdersOf(d)'
  <1>1. ASSUME TypeOK, Sound, [Next]_vars, NEW c \in Customers, NEW x \in exists',
               x \in OrdersOf(c), link[x] = c, ~PrimaryOfAnother(c, x)
        PROVE  Stays(c, x)
    <2>1. /\ x \in exists /\ x \in ordered /\ x \in Records /\ link[x] # None
          /\ link \in [Records -> Customers \cup {None}]
      BY <1>1, AccountsAssumption DEF OrdersOf, FindOrders, TypeOK, AccountsAssumption
    <2>2. ASSUME NEW d \in {c, into'[c]} \cap Customers, link'[x] = d, x \in ordered'
          PROVE  Stays(c, x)
      <3>1. x \in OrdersOf(d)'
        BY <1>1, <2>1, <2>2 DEF OrdersOf, FindOrders, IsOwnedBy, Sees
      <3>2. QED
        BY <3>1
    <2>3. CASE UNCHANGED link /\ ordered \subseteq ordered'
      BY <1>1, <2>1, <2>2, <2>3
    <2>4. ASSUME NEW r \in Requests, Works(r), Remember PROVE Stays(c, x)
      BY <1>1, <2>1, <2>2, <2>4, LinkLeaves
    <2>5. ASSUME NEW r \in Requests, MergeCommit(r) PROVE Stays(c, x)
      <3>1. CASE crossed'
        BY <3>1
      <3>2. CASE ~crossed'
        <4>1. PICK s \in Customers, t \in Customers, b \in Records \cup {None} :
                s = req[r].cust /\ t = req[r].id /\ b = req[r].best
          BY <1>1, <2>5 DEF TypeOK, MergeCommit, At, Sound, Sane
        <4>2. /\ primary[s] = b /\ into' = [into EXCEPT ![s] = t] /\ UNCHANGED ordered
              /\ \A y \in Records : link[y] = s => y \in req[r].found
          BY <2>5, <3>2, <4>1 DEF MergeCommit, LinksOf, storeVars
        <4>6. link' = [y \in Records |-> IF link[y] = s \/ y = b THEN t ELSE link[y]]
          BY <2>5, <4>1, <4>2 DEF MergeCommit, LinksMoved
        <4>3. CASE c = s
          BY <1>1, <2>1, <2>2, <4>1, <4>2, <4>3, <4>6 DEF TypeOK
        <4>4. CASE c # s
          <5>1. x # b
            BY <1>1, <4>1, <4>2, <4>4 DEF PrimaryOfAnother
          <5>2. QED
            BY <1>1, <2>1, <2>2, <4>2, <4>4, <4>6, <5>1
        <4>5. QED
          BY <4>3, <4>4
      <3>3. QED
        BY <3>1, <3>2
    <2>6. ASSUME NEW r \in Requests, Start(r) PROVE Stays(c, x)
      BY <1>1, <2>3, <2>6, StartHand DEF storeVars
    <2>8. ASSUME NEW r \in Requests, MergeMove(r) PROVE Stays(c, x)
      BY <1>1, <2>3, <2>8, MoveHand DEF rowVars, storeVars
    <2>7. QED
      BY <1>1, <2>3, <2>4, <2>5, <2>6, <2>8
      DEF Next, Goes, Works, Order, Checkout, CreateCart, vars, rowVars, storeVars
  <1>2. TypeOK /\ Sound /\ [Next]_vars =>
          [\A c \in Customers, x \in exists' :
             x \in OrdersOf(c) /\ link[x] = c /\ ~PrimaryOfAnother(c, x) => Stays(c, x)]_vars
    BY <1>1
  <1>3. Init => TypeOK /\ Sound
    BY SoundAtFirst
  <1>4. TypeOK /\ Sound /\ [Next]_vars => (TypeOK /\ Sound)'
    BY SoundKept
  <1>5. QED
    BY <1>2, <1>3, <1>4, PTL DEF Spec, HistoryKept

=============================================================================
