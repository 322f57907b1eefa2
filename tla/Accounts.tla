------------------------------ MODULE Accounts ------------------------------
(***************************************************************************)
(* Which records of the Shopify store an account of the app stands for:    *)
(* the Shopify half of IdentityService (auth/identity.service.ts), called  *)
(* without a transaction after a login or the verification of an           *)
(* identifier; ShopifyCustomerService and the retrying client below it;    *)
(* and steps 1-3 of the administrator's merge.                             *)
(*                                                                         *)
(* The store is external.  It keeps an email and a phone unique, refuses   *)
(* to delete a record with orders, chooses the survivor when it merges     *)
(* two, and may carry out a mutation whose answer is lost; the client then *)
(* repeats it, and the repetition is refused.                              *)
(***************************************************************************)
EXTENDS Naturals, FiniteSets

CONSTANTS
  Customers,
  Phones, Emails,
  Store,          \* records of the store that the app did not create
  Imported,       \* those of them an import may have made customers of
  Fresh,          \* ids the store will give to the records the app creates
  Requests,
  MaxRequests,    \* bound on the requests made
  CreateOnSignup, \* SHOPIFY_CREATE_CUSTOMER_ON_SIGNUP
  None

Identifiers == Phones \cup Emails
Records == Store \cup Fresh

ASSUME AccountsAssumption ==
  /\ None \notin Customers \cup Identifiers \cup Records
  /\ Phones \cap Emails = {} /\ Store \cap Fresh = {}
  /\ Imported \subseteq Store
  /\ CreateOnSignup \in BOOLEAN /\ MaxRequests \in Nat

VARIABLES
  proof,     \* proof[i]: customer of the verified identity i (module Identity)
  into,      \* into[c]: Customer.mergedIntoId
  primary,   \* primary[c]: Customer.shopifyCustomerId, unique
  link,      \* link[x]: ShopifyCustomerLink.customerId of record x, unique per record
  exists,    \* records the store has
  contact,   \* contact[x]: the email and phone of record x
  ordered,   \* records with an order
  req,       \* what each request does next, and what it has read
  begun,     \* how many requests were made
  \* History variables: they are read by properties only.
  torn,      \* the store's side of a reconcile was done, and the database's side failed,
             \* or somebody else stood for, or was working with, the record that went
  crossed,   \* a merge was committed on rows that had changed, under a request for one
             \* of its customers, or without a row the source was given after it moved them
  had        \* had[x]: every email and phone record x has had

rowVars == <<proof, into, primary, link>>
storeVars == <<exists, contact, ordered>>
history == <<torn, crossed>>
vars == <<rowVars, storeVars, req, begun, history, had>>

Idle == [pc |-> "idle", cust |-> None, id |-> None, kind |-> None,
         found |-> {}, ids |-> {}, best |-> None, other |-> None, gone |-> None]

LinkSteps == {"search", "links", "taken", "primary", "ensure", "again", "retaken", "reprimary",
              "create", "adopt"}
ReconcileSteps == {"recon", "lookup", "check", "delete", "merge", "switch", "unlink", "relink", "phone"}
Steps == {"idle", "move", "commit"} \cup LinkSteps \cup ReconcileSteps

At(r, step) == req[r].pc = step
Become(r, q) == req' = [req EXCEPT ![r] = IF q.pc = "idle" THEN Idle ELSE q]
Goto(r, step) ==
  Become(r, [req[r] EXCEPT !.pc = step, !.best = IF step \in {"ensure", "recon"} THEN None ELSE @])
Return(r) == Goto(r, "idle")

SameType(i, j) == (i \in Phones) = (j \in Phones)
Lacks(x, i) == \A j \in contact[x] : ~SameType(i, j)
TakenAtStore(i) == \E x \in exists : i \in contact[x]
Sees(c, x) == link[x] = c \/ primary[c] = x          \* GET /orders collects both

\* An order without a customer is nobody's.
IsOwnedBy(x, X) == x \in X
\* findOrders: of the records it is given, and of no other, whatever the store answers.
FindOrders(X) == {x \in exists \cap ordered : IsOwnedBy(x, X)}
\* The records whose orders GET /orders lists, once what is cached has ended.
OrdersOf(c) == FindOrders({x \in Records : Sees(c, x)})

HasRow(c) == (\E i \in Identifiers : proof[i] = c) \/ (\E x \in Records : Sees(c, x))
PrimaryOfAnother(c, x) == \E d \in Customers \ {c} : primary[d] = x

\* The records of which nobody has anything in hand but r, and which no other
\* customer stands for, may go without harm.
Busy(r, x) ==
  \/ \E q \in Requests \ {r} : req[q].pc # "idle"
  \/ \E c \in Customers \ {req[r].cust} : Sees(c, x)

-----------------------------------------------------------------------------
(* Faulty variants of the definitions below, each a bug this code could have had. *)

Matches_Fuzzy(i) == {x \in exists : contact[x] # {}}     \* no actuallyMatches
Survivor_Wanted(r, kept) == req[r].best                  \* keepId, not resultingCustomerId
Linked_Upsert(r) == [x \in Records |-> IF x \in req[r].found THEN req[r].cust ELSE link[x]]
Handed_Kept(r, s, t) == [primary EXCEPT ![t] = req[r].best]   \* and s keeps it

-----------------------------------------------------------------------------
(* An import may have left customers that stand for a record of the store. *)
Init ==
  /\ proof = [i \in Identifiers |-> None]
  /\ into = [c \in Customers |-> None]
  /\ exists = Store
  /\ contact \in [Records -> SUBSET Identifiers]
  /\ \A x \in Records :
       /\ x \in Fresh => contact[x] = {}
       /\ \A i, j \in contact[x] : i # j => ~SameType(i, j)
       /\ \A y \in Records \ {x} : contact[x] \cap contact[y] = {}
  /\ ordered \in SUBSET Store
  /\ link \in [Records -> Customers \cup {None}]
  /\ \A x \in Records : link[x] # None => x \in Imported
  /\ primary \in [Customers -> Store \cup {None}]
  /\ \A c \in Customers, x \in Store : primary[c] = x <=> link[x] = c
  /\ req = [r \in Requests |-> Idle] /\ begun = 0
  /\ torn = FALSE /\ crossed = FALSE /\ had = contact

-----------------------------------------------------------------------------
(* The retrying client: a mutation the store would accept may be done, done *)
(* and refused when it is repeated, done and never answered, or not done;   *)
(* the last two throw.                                                      *)

Outcomes(accepted) == IF accepted THEN {"done", "repeated", "unanswered", "failed"}
                      ELSE {"refused", "failed"}
Done(o) == o \in {"done", "repeated", "unanswered"}
Throw(o) == o \in {"unanswered", "failed"}

\* verifyIdentity goes on to reconcile an email, whatever became of the links.
AfterLinks(r) == IF req[r].kind = "LINK" /\ req[r].id \in Emails THEN "recon" ELSE "idle"

\* A call that changes nothing throws; linkShopifySafely and reconcileShopifySafely catch.
Throws(r) ==
  /\ req[r].pc \in LinkSteps \cup ReconcileSteps
  /\ Goto(r, IF req[r].pc \in LinkSteps THEN AfterLinks(r) ELSE "idle")
  /\ torn' = (torn \/ req[r].gone # None)
  /\ UNCHANGED <<rowVars, storeVars, crossed>>

\* The server stops: nothing is cleaned up.
Stop(r) ==
  /\ ~At(r, "idle")
  /\ Return(r)
  /\ torn' = (torn \/ req[r].gone # None)
  /\ UNCHANGED <<rowVars, storeVars, crossed>>

-----------------------------------------------------------------------------
(* A login or a verification has committed its transaction (module Identity). *)

Begin(r, c, i, kind) ==
  /\ At(r, "idle")
  /\ into[c] = None
  /\ proof[i] \in {c, None}
  /\ proof' = [proof EXCEPT ![i] = c]
  /\ Become(r, [Idle EXCEPT !.pc = "search", !.cust = c, !.id = i, !.kind = kind])
  /\ UNCHANGED <<into, primary, link, storeVars, torn, crossed>>

\* A login with an unknown identifier opens an account of its own, or the
\* imported one the identifier came with.
Login(r, c, i) ==
  /\ proof[i] = None =>
       IF \E d \in Customers : primary[d] \in Imported /\ i \in contact[primary[d]]
          THEN primary[c] \in Imported /\ i \in contact[primary[c]]
          ELSE ~HasRow(c)
  /\ Begin(r, c, i, "LOGIN")

VerifyIdentity(r, c, i) ==
  /\ \E j \in Identifiers : proof[j] = c
  /\ Begin(r, c, i, "LINK")

-----------------------------------------------------------------------------
(* linkShopifyRecords *)

\* The store's search is fuzzy; what it finds is compared again.
ActuallyMatches(x, i) == i \in contact[x]
Matches(i) == {x \in exists : ActuallyMatches(x, i)}

\* The record with most orders; here, one with an order if there is one.
BestOf(M) == IF M \cap ordered # {} THEN M \cap ordered ELSE M

Search(r) ==
  LET M == Matches(req[r].id) IN
  /\ At(r, "search")
  /\ IF M = {} THEN Goto(r, IF CreateOnSignup THEN "ensure" ELSE AfterLinks(r))
     ELSE \E b \in BestOf(M) : Become(r, [req[r] EXCEPT !.pc = "links", !.found = M, !.best = b])
  /\ UNCHANGED <<rowVars, storeVars, history>>

\* createMany skips the links that exist, whoever has them.
Linked(r) ==
  [x \in Records |-> IF x \in req[r].found /\ link[x] = None THEN req[r].cust ELSE link[x]]

CreateLinks(r) ==
  /\ At(r, "links")
  /\ link' = Linked(r)
  /\ Become(r, [req[r] EXCEPT !.pc = "taken", !.found = {}])
  /\ UNCHANGED <<proof, into, primary, storeVars, history>>

\* setPrimaryShopifyCustomer looks whether the record is another's and writes later.
AfterPrimary(r, step) ==
  IF step \in {"taken", "primary"} /\ CreateOnSignup THEN "ensure" ELSE AfterLinks(r)

CheckTaken(r) ==
  /\ req[r].pc \in {"taken", "retaken"}
  /\ Goto(r, IF PrimaryOfAnother(req[r].cust, req[r].best) THEN AfterPrimary(r, req[r].pc)
             ELSE IF At(r, "taken") THEN "primary" ELSE "reprimary")
  /\ UNCHANGED <<rowVars, storeVars, history>>

\* Where the column is NULL; the index refuses what was taken meanwhile (Throws).
SetPrimary(r) ==
  LET c == req[r].cust IN
  /\ req[r].pc \in {"primary", "reprimary"}
  /\ IF primary[c] # None THEN UNCHANGED primary
     ELSE /\ ~PrimaryOfAnother(c, req[r].best)
          /\ primary' = [primary EXCEPT ![c] = req[r].best]
  /\ Goto(r, AfterPrimary(r, req[r].pc))
  /\ UNCHANGED <<proof, into, link, storeVars, history>>

-----------------------------------------------------------------------------
(* ensureShopifyCustomer *)

EnsureRead(r) ==
  /\ At(r, "ensure")
  /\ Goto(r, IF primary[req[r].cust] # None THEN AfterLinks(r) ELSE "again")
  /\ UNCHANGED <<rowVars, storeVars, history>>

SearchAgain(r) ==
  LET M == Matches(req[r].id) IN
  /\ At(r, "again")
  /\ IF M = {} THEN Goto(r, "create")
     ELSE \E b \in BestOf(M) : Become(r, [req[r] EXCEPT !.pc = "retaken", !.best = b])
  /\ UNCHANGED <<rowVars, storeVars, history>>

NewContact(x, i) == [contact EXCEPT ![x] = @ \cup {i}]

\* createCustomer answers null when the store refuses.
CreateCustomer(r, x, o) ==
  LET i == req[r].id IN
  /\ At(r, "create")
  /\ x \in Fresh \ exists /\ contact[x] = {}
  /\ o \in Outcomes(~TakenAtStore(i))
  /\ IF Done(o) THEN exists' = exists \cup {x} /\ contact' = NewContact(x, i)
     ELSE UNCHANGED <<exists, contact>>
  /\ IF o = "done" THEN Become(r, [req[r] EXCEPT !.pc = "adopt", !.best = x])
     ELSE Goto(r, AfterLinks(r))
  /\ UNCHANGED <<rowVars, ordered, history>>

\* One transaction: the column by id, whatever it holds now, and a new link, which
\* another request may have made already; then nothing is written (Throws).
Adopt(r) ==
  LET c == req[r].cust
      x == req[r].best
  IN
  /\ At(r, "adopt")
  /\ link[x] = None /\ ~PrimaryOfAnother(c, x)
  /\ primary' = [primary EXCEPT ![c] = x]
  /\ link' = [link EXCEPT ![x] = c]
  /\ Goto(r, AfterLinks(r))
  /\ UNCHANGED <<proof, into, storeVars, history>>

-----------------------------------------------------------------------------
(* reconcileAfterEmailVerified *)

ReconcileRead(r) ==
  /\ At(r, "recon")
  /\ Become(r, [req[r] EXCEPT !.pc = "lookup", !.other = primary[req[r].cust]])
  /\ UNCHANGED <<rowVars, storeVars, history>>

\* updateContact: the store refuses a value that is another record's.
Gets(x, i) ==
  contact' = IF x \in exists /\ ~TakenAtStore(i)
             THEN [contact EXCEPT ![x] = {j \in @ : ~SameType(i, j)} \cup {i}] ELSE contact

\* No record has the email: the current one gets it.
Lookup(r) ==
  LET M == Matches(req[r].id)
      cur == req[r].other
  IN
  /\ At(r, "lookup")
  /\ IF M = {}
     THEN /\ (cur # None /\ Gets(cur, req[r].id)) \/ UNCHANGED contact
          /\ Return(r)
     ELSE /\ \E b \in BestOf(M) :
               Become(r, [req[r] EXCEPT !.best = b,
                                        !.pc = IF cur \in {None, b} THEN "switch" ELSE "check",
                                        !.other = IF cur = b THEN None ELSE cur])
          /\ UNCHANGED contact
  /\ UNCHANGED <<rowVars, exists, ordered, history>>

\* deleteCustomerIfEmpty: gone, with orders, not created by the app, or to be deleted.
CheckOrphan(r) ==
  LET x == req[r].other IN
  /\ At(r, "check")
  /\ Goto(r, IF x \notin exists THEN "switch"
             ELSE IF x \in ordered THEN "merge"
             ELSE IF x \in Fresh THEN "delete" ELSE "switch")
  /\ UNCHANGED <<rowVars, storeVars, history>>

\* A deletion that is repeated reports failure, and the link stays.
DeleteOrphan(r, o) ==
  LET x == req[r].other IN
  /\ At(r, "delete")
  /\ o \in Outcomes(x \in exists \ ordered)
  /\ exists' = IF Done(o) THEN exists \ {x} ELSE exists
  /\ IF Throw(o) THEN Return(r)
     ELSE IF o = "done" THEN Become(r, [req[r] EXCEPT !.pc = "switch", !.other = None, !.gone = x])
     ELSE Goto(r, "switch")
  /\ torn' = (torn \/ (Done(o) /\ (o # "done" \/ Busy(r, x))))
  /\ UNCHANGED <<rowVars, contact, ordered, crossed>>

\* resultingCustomerId, which the caller has to keep.
Survivor(r, kept) == kept

\* mergeCustomers catches whatever is thrown.  The survivor has the orders of
\* both, and the orphan's phone or email where the other record has none.
MergeRecords(r, kept, o) ==
  LET b == req[r].best
      x == req[r].other
      dead == IF kept = b THEN x ELSE b
  IN
  /\ At(r, "merge") /\ kept \in {b, x}
  /\ o \in Outcomes({b, x} \subseteq exists) \cup {"refused"}
  /\ IF Done(o)
     THEN /\ exists' = exists \ {dead}
          /\ contact' = [contact EXCEPT ![kept] = contact[b] \cup {i \in contact[x] : Lacks(b, i)}]
          /\ ordered' = ordered \cup {kept}
     ELSE UNCHANGED storeVars
  /\ IF o = "done"
     THEN Become(r, [req[r] EXCEPT !.pc = "switch", !.best = Survivor(r, kept), !.gone = dead])
     ELSE Goto(r, "switch")
  /\ torn' = (torn \/ (Done(o) /\ (o # "done" \/ Busy(r, dead))))
  /\ UNCHANGED <<rowVars, crossed>>

\* By id; the index refuses a record that is another customer's primary (Throws).
Switch(r) ==
  LET c == req[r].cust IN
  /\ At(r, "switch")
  /\ ~PrimaryOfAnother(c, req[r].best)
  /\ primary' = [primary EXCEPT ![c] = req[r].best]
  /\ Goto(r, IF req[r].gone # None THEN "unlink" ELSE "relink")
  /\ UNCHANGED <<proof, into, link, storeVars, history>>

Unlink(r) ==
  /\ At(r, "unlink")
  /\ link' = [link EXCEPT ![req[r].gone] = None]
  /\ Become(r, [req[r] EXCEPT !.pc = "relink", !.gone = None])
  /\ UNCHANGED <<proof, into, primary, storeVars, history>>

Relink(r) ==
  LET x == req[r].best IN
  /\ At(r, "relink")
  /\ link' = [link EXCEPT ![x] = IF @ = None THEN req[r].cust ELSE @]
  /\ Goto(r, IF req[r].other = None THEN "phone" ELSE "idle")
  /\ UNCHANGED <<proof, into, primary, storeVars, history>>

\* The phone the customer has proved goes to a record that has none.
SendPhone(r) ==
  /\ At(r, "phone")
  /\ \/ \E p \in Phones : proof[p] = req[r].cust /\ Lacks(req[r].best, p) /\ Gets(req[r].best, p)
     \/ UNCHANGED contact
  /\ Return(r)
  /\ UNCHANGED <<rowVars, exists, ordered, history>>

-----------------------------------------------------------------------------
(* The administrator's merge of s into t: reads, checks, then one transaction, *)
(* which moves the rows it finds when it begins and is committed later.        *)

MergeRead(r, s, t) ==
  /\ At(r, "idle")
  /\ s # t /\ HasRow(s) /\ HasRow(t) /\ into[s] = None /\ into[t] = None
  /\ Become(r, [Idle EXCEPT !.pc = "move", !.cust = s, !.id = t,
                            !.best = primary[s], !.other = primary[t]])
  /\ UNCHANGED <<rowVars, storeVars, history>>

\* The two updateMany pick the identities and the links that are committed when they run.
ProofsOf(s) == {i \in Identifiers : proof[i] = s}
LinksOf(s) == {x \in Records : link[x] = s}

MergeMove(r) ==
  /\ At(r, "move")
  /\ Become(r, [req[r] EXCEPT !.pc = "commit", !.ids = ProofsOf(req[r].cust),
                              !.found = LinksOf(req[r].cust)])
  /\ UNCHANGED <<rowVars, storeVars, history>>

\* The links picked, and the record s was read to stand for, linked or not.
LinksMoved(r, s, t) ==
  [x \in Records |-> IF (link[x] = s /\ x \in req[r].found) \/ x = req[r].best THEN t
                     ELSE link[x]]

\* t inherits the primary record if it was read to have none.
Inherits(r) == req[r].best # None /\ req[r].other = None
Handed(r, s, t) == [primary EXCEPT ![s] = None, ![t] = req[r].best]

MergeCommit(r) ==
  LET s == req[r].cust
      t == req[r].id
      kin == {s, t}
  IN
  /\ At(r, "commit")
  /\ proof' = [i \in Identifiers |-> IF proof[i] = s /\ i \in req[r].ids THEN t
                                  ELSE proof[i]]
  /\ link' = LinksMoved(r, s, t)
  /\ IF Inherits(r)
     THEN /\ \A d \in Customers \ kin : primary[d] # req[r].best
          /\ primary' = Handed(r, s, t)
     ELSE UNCHANGED primary
  /\ into' = [into EXCEPT ![s] = t]
  /\ crossed' = \/ crossed
                \/ into[s] # None \/ into[t] # None
                \/ primary[s] # req[r].best \/ primary[t] # req[r].other
                \/ ~(ProofsOf(s) \subseteq req[r].ids) \/ ~(LinksOf(s) \subseteq req[r].found)
                \/ \E q \in Requests \ {r} : req[q].cust \in kin \/ req[q].id \in kin
  /\ Return(r)
  /\ UNCHANGED <<storeVars, torn>>

\* A customer orders on the website.
Order(x) ==
  /\ x \in exists \ ordered
  /\ ordered' = ordered \cup {x}
  /\ UNCHANGED <<rowVars, exists, contact, req, history>>

\* What the checkout hands over: the primary columns, which the customer has proved
\* or an import has filled.
Buyer(c) ==
  {i \in Identifiers : proof[i] = c \/ \E x \in Imported : link[x] = c /\ i \in contact[x]}

\* createCart: the store puts the order on the record that has the email or the
\* phone, or on a new one.
CreateCart(i, x) ==
  /\ IF TakenAtStore(i) THEN x \in Matches(i) /\ UNCHANGED <<exists, contact>>
     ELSE /\ x \in Fresh \ exists /\ contact[x] = {}
          /\ exists' = exists \cup {x}
          /\ contact' = NewContact(x, i)
  /\ ordered' = ordered \cup {x}

\* A customer orders in the app.
Checkout(c, i, x) ==
  /\ into[c] = None /\ i \in Buyer(c)
  /\ CreateCart(i, x)
  /\ UNCHANGED <<rowVars, req, history>>

-----------------------------------------------------------------------------

LinkStep(r) ==
  \/ Search(r)
  \/ CreateLinks(r)
  \/ CheckTaken(r)
  \/ SetPrimary(r)
  \/ EnsureRead(r)
  \/ SearchAgain(r)
  \/ \E x \in Fresh, o \in Outcomes(TRUE) \cup Outcomes(FALSE) : CreateCustomer(r, x, o)
  \/ Adopt(r)

ReconcileStep(r) ==
  \/ ReconcileRead(r)
  \/ Lookup(r)
  \/ CheckOrphan(r)
  \/ \E o \in Outcomes(TRUE) \cup Outcomes(FALSE) :
       DeleteOrphan(r, o) \/ \E kept \in Records : MergeRecords(r, kept, o)
  \/ Switch(r)
  \/ Unlink(r)
  \/ Relink(r)
  \/ SendPhone(r)

Start(r) ==
  \/ \E c \in Customers, i \in Identifiers : Login(r, c, i) \/ VerifyIdentity(r, c, i)
  \/ \E s, t \in Customers : MergeRead(r, s, t)

Goes(r) ==
  \/ LinkStep(r)
  \/ ReconcileStep(r)
  \/ MergeMove(r)
  \/ MergeCommit(r)
  \/ Throws(r)
  \/ Stop(r)

Remember == had' = [x \in Records |-> had[x] \cup contact'[x]]

Next ==
  \/ begun < MaxRequests /\ begun' = begun + 1 /\ (\E r \in Requests : Start(r)) /\ Remember
  \/ UNCHANGED begun /\ (\E r \in Requests : Goes(r)) /\ Remember
  \/ UNCHANGED begun /\ (\E x \in Records : Order(x)) /\ Remember
  \/ /\ UNCHANGED begun
     /\ \E c \in Customers, i \in Identifiers, x \in Records : Checkout(c, i, x)
     /\ Remember

Spec == Init /\ [][Next]_vars

-----------------------------------------------------------------------------
(* Properties *)

\* The variables stay within their types; the two unique columns are unique.
TypeOK ==
  /\ proof \in [Identifiers -> Customers \cup {None}]
  /\ into \in [Customers -> Customers \cup {None}]
  /\ primary \in [Customers -> Records \cup {None}]
  /\ link \in [Records -> Customers \cup {None}]
  /\ exists \subseteq Records /\ ordered \subseteq Records
  /\ contact \in [Records -> SUBSET Identifiers]
  /\ req \in [Requests -> [pc : Steps, cust : Customers \cup {None},
                           id : Identifiers \cup Customers \cup {None},
                           kind : {"LOGIN", "LINK", None},
                           found : SUBSET Records, ids : SUBSET Identifiers,
                           best : Records \cup {None}, other : Records \cup {None},
                           gone : Records \cup {None}]]
  /\ begun \in 0 .. MaxRequests
  /\ torn \in BOOLEAN /\ crossed \in BOOLEAN /\ had \in [Records -> SUBSET Identifiers]
  /\ \A c, d \in Customers : primary[c] # None /\ primary[c] = primary[d] => c = d

\* A customer sees the orders of a record only because he has proved an email or phone
\* it has, or had when the store was asked for it (the warning above
\* linkShopifyRecords), or because it was imported with him; a merge takes both along.
\* Only merges that cross each other, or a request, leave a gap.
OwnRecordsOnly ==
  ~crossed =>
    \A c \in Customers, x \in exists \ Imported :
      Sees(c, x) /\ into[c] = None => \E i \in had[x] : proof[i] = c

\* No account stands for a record that is gone: whatever a reconcile deletes or
\* merges at the store, the columns follow, unless it failed half way, somebody else
\* worked with the record or stood for it, or a merge crossed it.
PointsAtExisting ==
  ~torn /\ ~crossed =>
    /\ \A c \in Customers : primary[c] \in exists \cup {None} \cup {req[r].gone : r \in Requests}
    /\ \A x \in Records \ exists : link[x] # None => \E r \in Requests : req[r].gone = x

\* "No data is ever lost", as the comments say of the orders in the reconcile and the
\* merge: a record with orders that is linked to a customer stays with him, or goes to
\* the customer he is merged into, as long as the store has it, whatever overlaps.
\* What takes it away is a merge on rows that had changed, and the merge of another
\* customer for whom the record is the primary one: its upsert moves the link.
HistoryKept ==
  [][\A c \in Customers, x \in exists' :
       x \in OrdersOf(c) /\ link[x] = c /\ ~PrimaryOfAnother(c, x) =>
         crossed' \/ \E d \in {c, into'[c]} \cap Customers : x \in OrdersOf(d)']_vars
=============================================================================
