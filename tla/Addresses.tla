----------------------------- MODULE Addresses -----------------------------
(***************************************************************************)
(* A customer's address book: AddressesService (addresses/addresses.       *)
(* service.ts), which keeps one address the default and mirrors every      *)
(* change to the store; ShopifyAddressService below it, which never        *)
(* throws; and the step of the administrator's merge that moves addresses. *)
(*                                                                         *)
(* The store is external: its book holds copies, its customers edit them   *)
(* on the website, a call may fail, and one that creates a copy may be     *)
(* repeated by the retrying client after it took effect.                   *)
(***************************************************************************)
EXTENDS Naturals, FiniteSets

CONSTANTS
  Customers,
  Rows,          \* ids of Address rows
  Keys,          \* fingerprints: the address itself, as far as the code compares it
  Copies,        \* ids of addresses at the store
  Requests,
  MaxRequests,   \* bound on the requests made
  MaxVisits,     \* bound on the changes made on the website
  None

ASSUME AddressesAssumption ==
  /\ MaxRequests \in Nat /\ MaxVisits \in Nat
  /\ None \notin Customers \cup Rows \cup Keys \cup Copies

VARIABLES
  owner,         \* owner[a]: Address.customerId, None while a has no row
  key,           \* key[a]: Address.fingerprint, unique with the owner
  default,       \* rows whose isDefault is set
  remote,        \* remote[a]: Address.shopifyAddressId, unique
  copy,          \* copy[x]: what copy x at the store says, None if there is none
  touched,       \* history: copies of the app's own making that their customer has
                 \* changed at the website since the app last wrote them
  visits,        \* how many changes were made on the website
  req,           \* what each request does next, and what it has read
  begun,         \* how many requests were made
  \* History variables: they are read by properties only.
  made,          \* made[x]: the row copy x was created for
  shaken,        \* customers with two requests in flight at once, or one that
                 \* ended half way
  imported,      \* customers whose addresses came from an address book
  stale          \* rows with a push that was left out, failed or was repeated

rowVars == <<owner, key, default, remote>>
history == <<made, shaken, imported, stale>>
store == <<copy, touched, visits>>
vars == <<rowVars, store, req, begun, history>>

Idle == [pc |-> "idle", op |-> None, cust |-> None, row |-> None, key |-> None,
         rem |-> None, flag |-> FALSE, saw |-> {}, drop |-> {}, book |-> {}]

Steps == {"idle", "count", "edit", "delete", "next", "clear", "set", "push", "synced", "erase",
          "book", "entry", "orders", "ensure", "merge"}
Operations == {"create", "update", "setDefault", "remove", "sync"}

\* What a request has used and does not look at again is forgotten.
Trimmed(q) ==
  [q EXCEPT !.flag = @ /\ q.pc \notin {"clear", "set", "push", "synced", "next", "erase", "orders"},
            !.key = IF q.pc \in {"synced", "book"} THEN None ELSE @]

At(r, step) == req[r].pc = step
Become(r, q) == req' = [req EXCEPT ![r] = IF q.pc = "idle" THEN Idle ELSE Trimmed(q)]
Goto(r, step) == Become(r, [req[r] EXCEPT !.pc = step])
Return(r) == Goto(r, "idle")

Of(c) == {a \in Rows : owner[a] = c}
Found(c, k) == {a \in Of(c) : key[a] = k}
MustOwn(a) == owner[a] # None
\* Ids are never used again: a row somebody still has in hand is not free.
Free == {a \in Rows : owner[a] = None
                       /\ \A r \in Requests : req[r].row # a /\ a \notin req[r].saw \cup req[r].drop}
RemoteFree(x) == \A a \in Rows : owner[a] # None => remote[a] # x
\* Nor are the store's.
Unused(x) ==
  /\ copy[x] = None /\ RemoteFree(x)
  /\ \A r \in Requests : req[r].rem # x /\ \A k \in Keys : <<x, k>> \notin req[r].book

Serves(p, c) == req[p].cust = c \/ req[p].op = c

Begin(r, q) ==
  /\ At(r, "idle") /\ begun < MaxRequests
  /\ begun' = begun + 1
  /\ Become(r, q)
  /\ shaken' = shaken \cup {c \in {q.cust, q.op} \cap Customers : \E p \in Requests : Serves(p, c)}

-----------------------------------------------------------------------------
(* Faulty variants of the definitions below, each a bug this code could have had. *)

Cleared_None(r) == {}                            \* the old default is not cleared
ShouldBeDefault_Asked(r) == req[r].flag          \* the first address is not special
Synced_Forgotten(r) == remote                    \* markSynced left out
Clashes_Never(r) == FALSE                        \* no unique index

-----------------------------------------------------------------------------
Init ==
  /\ owner = [a \in Rows |-> None]
  /\ key = [a \in Rows |-> None]
  /\ default = {}
  /\ remote = [a \in Rows |-> None]
  /\ copy = [x \in Copies |-> None] /\ touched = {} /\ visits = 0
  /\ req = [r \in Requests |-> Idle] /\ begun = 0
  /\ made = [x \in Copies |-> None]
  /\ shaken = {} /\ imported = {} /\ stale = {}

-----------------------------------------------------------------------------
(* create: an upsert by fingerprint; the first address is the default, or the one *)
(* that is asked for.                                                             *)

Create(r, c, k, a, asked) ==
  /\ IF Found(c, k) # {} THEN a \in Found(c, k) ELSE a \in Free
  /\ owner' = [owner EXCEPT ![a] = c]
  /\ key' = [key EXCEPT ![a] = k]
  /\ Begin(r, [Idle EXCEPT !.pc = "count", !.op = "create", !.cust = c, !.row = a, !.key = k,
                           !.rem = remote[a], !.flag = asked])
  /\ UNCHANGED <<default, remote, store, made, imported, stale>>

ShouldBeDefault(r) == req[r].flag \/ Cardinality(Of(req[r].cust)) = 1

Count(r) ==
  /\ At(r, "count")
  /\ Goto(r, IF ShouldBeDefault(r) THEN "clear" ELSE "push")
  /\ UNCHANGED <<rowVars, store, history, begun>>

\* update: mustOwn, then by id; the unique index may refuse the new fingerprint.
UpdateRead(r, a, k, asked) ==
  /\ MustOwn(a)
  /\ Begin(r, [Idle EXCEPT !.pc = "edit", !.op = "update", !.cust = owner[a], !.row = a, !.key = k,
                           !.flag = asked])
  /\ UNCHANGED <<rowVars, store, made, imported, stale>>

Edit(r) ==
  LET a == req[r].row IN
  /\ At(r, "edit")
  /\ IF owner[a] = None \/ ~(Found(owner[a], req[r].key) \subseteq {a})
     THEN Return(r) /\ UNCHANGED key
     ELSE /\ key' = [key EXCEPT ![a] = req[r].key]
          /\ Become(r, [req[r] EXCEPT !.pc = IF req[r].flag THEN "clear" ELSE "push",
                                      !.rem = remote[a]])
  /\ UNCHANGED <<owner, default, remote, store, history, begun>>

-----------------------------------------------------------------------------
(* markDefaultLocally: one transaction, but at READ COMMITTED.  The statement    *)
(* that clears sees the defaults committed before it, and a default that another *)
(* transaction sets meanwhile is not among them.                                 *)

SetDefault(r, a) ==
  /\ MustOwn(a)
  /\ Begin(r, [Idle EXCEPT !.pc = "clear", !.op = "setDefault", !.cust = owner[a], !.row = a])
  /\ UNCHANGED <<rowVars, store, made, imported, stale>>

Clear(r) ==
  /\ At(r, "clear")
  /\ Become(r, [req[r] EXCEPT !.pc = "set", !.saw = default \cap Of(req[r].cust)])
  /\ UNCHANGED <<rowVars, store, history, begun>>

Cleared(r) == req[r].saw

AfterDefault(r) ==
  IF req[r].op \in {"create", "update"} THEN "push"
  ELSE IF req[r].op = "remove" THEN "erase" ELSE "idle"

\* The row is set by id; without it the transaction is rolled back and the request fails.
Set(r) ==
  LET a == req[r].row IN
  /\ At(r, "set")
  /\ IF owner[a] = None
     THEN /\ shaken' = shaken \cup {req[r].cust}
          /\ Return(r)
          /\ UNCHANGED default
     ELSE /\ default' = (default \ Cleared(r)) \cup {a}
          /\ Become(r, [req[r] EXCEPT !.pc = AfterDefault(r), !.saw = {}])
          /\ UNCHANGED shaken
  /\ UNCHANGED <<owner, key, remote, store, made, imported, stale, begun>>

-----------------------------------------------------------------------------
(* pushToShopify *)

\* No record at the store yet, or a country without a code; or the call failed.
PushNothing(r) ==
  /\ At(r, "push")
  /\ stale' = stale \cup {req[r].row}
  /\ Return(r)
  /\ UNCHANGED <<rowVars, store, made, shaken, imported, begun>>

PushUpdate(r) ==
  LET x == req[r].rem IN
  /\ At(r, "push") /\ x # None /\ copy[x] # None
  /\ copy' = [copy EXCEPT ![x] = req[r].key]
  /\ touched' = touched \ {x}
  /\ Goto(r, "synced")
  /\ UNCHANGED <<rowVars, visits, history, begun>>

\* The copies the store makes, more than one if the client repeats a call that
\* took effect, and the one whose id comes back.
PushCreate(r, X, x) ==
  /\ At(r, "push") /\ req[r].rem = None
  /\ X # {} /\ x \in X \cup {None}
  /\ \A y \in X : Unused(y)
  /\ copy' = [y \in Copies |-> IF y \in X THEN req[r].key ELSE copy[y]]
  /\ made' = [y \in Copies |-> IF y \in X THEN req[r].row ELSE made[y]]
  /\ stale' = IF X = {x} THEN stale ELSE stale \cup {req[r].row}
  /\ IF x = None THEN Return(r) ELSE Become(r, [req[r] EXCEPT !.pc = "synced", !.rem = x])
  /\ UNCHANGED <<rowVars, touched, visits, shaken, imported, begun>>

Synced(r) == [remote EXCEPT ![req[r].row] = req[r].rem]

\* By id; without the row, or refused by the index, it is caught.
MarkSynced(r) ==
  LET a == req[r].row IN
  /\ At(r, "synced")
  /\ IF owner[a] # None /\ \A b \in Rows \ {a} : owner[b] # None => remote[b] # req[r].rem
     THEN remote' = Synced(r) /\ UNCHANGED stale
     ELSE stale' = stale \cup {a} /\ UNCHANGED remote
  /\ Return(r)
  /\ UNCHANGED <<owner, key, default, store, made, shaken, imported, begun>>

-----------------------------------------------------------------------------
(* remove: the row, then another default if it was one, then its copy. *)

RemoveRead(r, a) ==
  /\ MustOwn(a)
  /\ Begin(r, [Idle EXCEPT !.pc = "delete", !.op = "remove", !.cust = owner[a], !.row = a,
                           !.rem = remote[a], !.flag = a \in default])
  /\ UNCHANGED <<rowVars, store, made, imported, stale>>

Delete(r) ==
  LET a == req[r].row IN
  /\ At(r, "delete")
  /\ IF owner[a] = None THEN Return(r) /\ UNCHANGED <<rowVars, made, stale>>
     ELSE /\ owner' = [owner EXCEPT ![a] = None]
          /\ key' = [key EXCEPT ![a] = None]
          /\ remote' = [remote EXCEPT ![a] = None]
          /\ default' = default \ {a}
          /\ made' = [x \in Copies |-> IF made[x] = a THEN None ELSE made[x]]
          /\ stale' = stale \ {a}
          /\ Become(r, [req[r] EXCEPT !.pc = IF req[r].flag THEN "next" ELSE "erase",
                                      !.row = None])
  /\ UNCHANGED <<store, shaken, imported, begun>>

\* The newest that is left; which one it is makes no difference here.
NextDefault(r) ==
  LET rest == Of(req[r].cust) IN
  /\ At(r, "next")
  /\ IF rest = {} THEN Goto(r, "erase")
     ELSE \E a \in rest : Become(r, [req[r] EXCEPT !.pc = "clear", !.row = a])
  /\ UNCHANGED <<rowVars, store, history, begun>>

Erased(x) == [copy EXCEPT ![x] = None]

\* What fails to go comes back with the next import: the comment accepts that.
Erase(r) ==
  LET x == req[r].rem IN
  /\ At(r, "erase")
  /\ \/ x # None /\ copy' = Erased(x) /\ touched' = touched \ {x} /\ UNCHANGED visits
     \/ UNCHANGED store
  /\ Return(r)
  /\ UNCHANGED <<rowVars, history, begun>>

-----------------------------------------------------------------------------
(* syncFromShopify: the address books of the linked records one after the other,  *)
(* each entry by entry as it was fetched, then the past orders.                    *)

\* No record is linked: both imports return before they touch anything.
NoRecords(r) ==
  /\ Begin(r, Idle)
  /\ UNCHANGED <<rowVars, store, made, imported, stale>>

\* What the book of one linked record may hold: nothing that was made for the row of
\* somebody else.
BookOf(c) == {x \in Copies : copy[x] # None /\ (made[x] # None => owner[made[x]] = c)}
Fetched(X) == {<<x, copy[x]>> : x \in X}

FetchBook(r, c, X) ==
  /\ X \subseteq BookOf(c)
  /\ Begin(r, [Idle EXCEPT !.pc = "book", !.op = "sync", !.cust = c, !.book = Fetched(X),
                           !.flag = TRUE])
  /\ UNCHANGED <<rowVars, store, made, imported, stale>>

\* The next record's book, which has a default of its own.
FetchNext(r, X) ==
  /\ At(r, "book") /\ req[r].book = {}
  /\ X \subseteq BookOf(req[r].cust)
  /\ Become(r, [req[r] EXCEPT !.book = Fetched(X), !.flag = TRUE])
  /\ UNCHANGED <<rowVars, store, history, begun>>

\* The customer may have the entry already: by its fingerprint.
ReadEntry(r, x, k) ==
  LET known == Found(req[r].cust, k)
      left == req[r].book \ {<<x, k>>}
  IN
  /\ At(r, "book") /\ <<x, k>> \in req[r].book
  /\ IF \E a \in known : remote[a] # None
     THEN Become(r, [req[r] EXCEPT !.book = left])
     ELSE Become(r, [req[r] EXCEPT !.pc = "entry", !.book = left, !.rem = x, !.key = k,
                                   !.row = IF known = {} THEN None ELSE CHOOSE a \in known : TRUE])
  /\ UNCHANGED <<rowVars, store, history, begun>>

NextEntry(r, flag) ==
  Become(r, [req[r] EXCEPT !.pc = "book", !.row = None, !.rem = None, !.key = None, !.flag = flag])

\* A new row, the default if the book calls it so; refused by an index, it is skipped.
ImportEntry(r, a, isDefault) ==
  LET c == req[r].cust
      x == req[r].rem
  IN
  /\ At(r, "entry") /\ req[r].row = None
  /\ a \in Free
  /\ isDefault => req[r].flag
  /\ Found(c, req[r].key) = {} /\ RemoteFree(x)
  /\ owner' = [owner EXCEPT ![a] = c]
  /\ key' = [key EXCEPT ![a] = req[r].key]
  /\ remote' = [remote EXCEPT ![a] = x]
  /\ default' = IF isDefault THEN default \cup {a} ELSE default
  /\ imported' = imported \cup {c}
  /\ NextEntry(r, req[r].flag /\ ~isDefault)
  /\ UNCHANGED <<store, made, shaken, stale, begun>>

\* The row the customer had is tied to the copy.
TieEntry(r) ==
  LET a == req[r].row IN
  /\ At(r, "entry") /\ a # None
  /\ owner[a] # None /\ RemoteFree(req[r].rem)
  /\ remote' = [remote EXCEPT ![a] = req[r].rem]
  /\ NextEntry(r, req[r].flag)
  /\ UNCHANGED <<owner, key, default, store, history, begun>>

SkipEntry(r) ==
  LET a == req[r].row IN
  /\ At(r, "entry")
  /\ \/ ~RemoteFree(req[r].rem)
     \/ a = None /\ Found(req[r].cust, req[r].key) # {}
     \/ a # None /\ owner[a] = None
  /\ NextEntry(r, req[r].flag)
  /\ UNCHANGED <<rowVars, store, history, begun>>

BookDone(r) ==
  /\ At(r, "book") /\ req[r].book = {}
  /\ Goto(r, "orders")
  /\ UNCHANGED <<rowVars, store, history, begun>>

\* importFromPastOrders alone: its own endpoint.
PastOrders(r, c) ==
  /\ Begin(r, [Idle EXCEPT !.pc = "orders", !.op = "sync", !.cust = c])
  /\ UNCHANGED <<rowVars, store, made, imported, stale>>

\* findOrderAddresses: the address of some past order, or none.
OrderAddresses == Keys \cup {None}

\* createMany skips the fingerprints the customer has; one address stands for many.
ImportOrders(r, k, a) ==
  LET c == req[r].cust IN
  /\ At(r, "orders")
  /\ IF k = None \/ Found(c, k) # {} THEN UNCHANGED <<owner, key>>
     ELSE /\ a \in Free
          /\ owner' = [owner EXCEPT ![a] = c]
          /\ key' = [key EXCEPT ![a] = k]
  /\ Goto(r, "ensure")
  /\ UNCHANGED <<default, remote, store, history, begun>>

EnsureSomeDefault(r) ==
  LET mine == Of(req[r].cust) IN
  /\ At(r, "ensure")
  /\ IF mine \cap default # {} \/ mine = {} THEN Return(r)
     ELSE \E a \in mine : Become(r, [req[r] EXCEPT !.pc = "clear", !.row = a])
  /\ UNCHANGED <<rowVars, store, history, begun>>

-----------------------------------------------------------------------------
(* Step 4 of the merge of s into t, one transaction at READ COMMITTED:            *)
(* moveWithDedupe reads the fingerprints of both, and moves and drops rows by id. *)

\* What the target has already.
Dropped(s, t) == {a \in Of(s) : Found(t, key[a]) # {}}

MergeRead(r, s, t) ==
  /\ s # t /\ Of(s) # {}
  /\ Begin(r, [Idle EXCEPT !.pc = "merge", !.op = t, !.cust = s, !.saw = Of(s) \ Dropped(s, t),
                           !.drop = Dropped(s, t), !.flag = Of(t) # {}])
  /\ UNCHANGED <<rowVars, store, made, imported, stale>>

\* Those that are still there, whoever has them by now.
Moved(r) == {a \in req[r].saw : owner[a] # None}

\* The unique index refuses a row that the target has got meanwhile, and the
\* transaction is rolled back.
Clashes(r) ==
  \E a \in Moved(r), b \in Rows :
    a # b /\ key[a] = key[b] /\ (owner[b] = req[r].op \/ b \in Moved(r))

MergeRefused(r) ==
  /\ At(r, "merge") /\ Clashes(r)
  /\ Return(r)
  /\ UNCHANGED <<rowVars, store, history, begun>>

\* What moves keeps its flag only if the target had no address.
MergeCommit(r) ==
  LET s == req[r].cust
      t == req[r].op
      out == req[r].drop
      in == Moved(r)
  IN
  /\ At(r, "merge") /\ ~Clashes(r)
  /\ owner' = [a \in Rows |-> IF a \in out THEN None ELSE IF a \in in THEN t ELSE owner[a]]
  /\ key' = [a \in Rows |-> IF a \in out THEN None ELSE key[a]]
  /\ remote' = [a \in Rows |-> IF a \in out THEN None ELSE remote[a]]
  /\ default' = IF req[r].flag THEN default \ (in \cup out) ELSE default \ out
  /\ made' = [x \in Copies |-> IF made[x] \in out THEN None ELSE made[x]]
  /\ shaken' = IF s \in shaken THEN shaken \cup {t} ELSE shaken
  /\ imported' = IF s \in imported THEN imported \cup {t} ELSE imported
  /\ Return(r)
  /\ UNCHANGED <<store, stale, begun>>

-----------------------------------------------------------------------------

\* The customer saves an address on the website, changes one that is there, whoever
\* made it, or removes it.
WebsiteSave(x, k) ==
  /\ Unused(x) /\ made[x] = None
  /\ copy' = [copy EXCEPT ![x] = k]
  /\ UNCHANGED touched

WebsiteEdit(x, k) ==
  /\ copy[x] \notin {None, k}
  /\ copy' = [copy EXCEPT ![x] = k]
  /\ touched' = IF made[x] = None THEN touched ELSE touched \cup {x}

WebsiteRemove(x) ==
  /\ copy[x] # None
  /\ copy' = Erased(x)
  /\ touched' = touched \ {x}

Website ==
  /\ visits < MaxVisits
  /\ \E x \in Copies :
       \/ \E k \in Keys : WebsiteSave(x, k) \/ WebsiteEdit(x, k)
       \/ WebsiteRemove(x)
  /\ visits' = visits + 1
  /\ UNCHANGED <<rowVars, req, begun, history>>

\* The server stops, the database fails, or findOrderAddresses throws; or a merge has
\* taken the linked records away since the address book, and importFromPastOrders returns.
Stop(r) ==
  /\ ~At(r, "idle")
  /\ shaken' = shaken \cup {req[r].cust}
  /\ stale' = IF req[r].row = None THEN stale ELSE stale \cup {req[r].row}
  /\ Return(r)
  /\ UNCHANGED <<rowVars, store, made, imported, begun>>

Start(r) ==
  \/ \E c \in Customers, k \in Keys, a \in Rows, asked \in BOOLEAN : Create(r, c, k, a, asked)
  \/ \E a \in Rows, k \in Keys, asked \in BOOLEAN : UpdateRead(r, a, k, asked)
  \/ \E a \in Rows : SetDefault(r, a) \/ RemoveRead(r, a)
  \/ \E c \in Customers, X \in SUBSET Copies : FetchBook(r, c, X)
  \/ \E c \in Customers : PastOrders(r, c)
  \/ \E s, t \in Customers : MergeRead(r, s, t)

Step(r) ==
  \/ Count(r)
  \/ Edit(r)
  \/ Clear(r)
  \/ Set(r)
  \/ PushNothing(r)
  \/ PushUpdate(r)
  \/ \E X \in SUBSET Copies, x \in Copies \cup {None} : PushCreate(r, X, x)
  \/ MarkSynced(r)
  \/ Delete(r)
  \/ NextDefault(r)
  \/ Erase(r)
  \/ \E x \in Copies, k \in Keys : ReadEntry(r, x, k)
  \/ \E X \in SUBSET Copies : FetchNext(r, X)
  \/ \E a \in Rows, isDefault \in BOOLEAN : ImportEntry(r, a, isDefault)
  \/ TieEntry(r)
  \/ SkipEntry(r)
  \/ BookDone(r)
  \/ \E k \in OrderAddresses, a \in Rows : ImportOrders(r, k, a)
  \/ EnsureSomeDefault(r)
  \/ MergeRefused(r)
  \/ MergeCommit(r)

Next ==
  \/ \E r \in Requests : Start(r) \/ NoRecords(r) \/ Step(r) \/ Stop(r)
  \/ Website

Spec == Init /\ [][Next]_vars

-----------------------------------------------------------------------------
(* Properties *)

\* The variables stay within their types, and the two unique indexes hold.
TypeOK ==
  /\ owner \in [Rows -> Customers \cup {None}]
  /\ key \in [Rows -> Keys \cup {None}]
  /\ default \subseteq {a \in Rows : owner[a] # None}
  /\ remote \in [Rows -> Copies \cup {None}]
  /\ copy \in [Copies -> Keys \cup {None}]
  /\ touched \subseteq Copies
  /\ begun \in 0 .. MaxRequests /\ visits \in 0 .. MaxVisits
  /\ req \in [Requests -> [pc : Steps, op : Operations \cup Customers \cup {None},
                           cust : Customers \cup {None}, row : Rows \cup {None},
                           key : Keys \cup {None}, rem : Copies \cup {None}, flag : BOOLEAN,
                           saw : SUBSET Rows, drop : SUBSET Rows, book : SUBSET (Copies \X Keys)]]
  /\ made \in [Copies -> Rows \cup {None}]
  /\ shaken \subseteq Customers /\ imported \subseteq Customers /\ stale \subseteq Rows
  /\ \A a, b \in Rows :
       a # b /\ owner[a] # None =>
         /\ ~(owner[a] = owner[b] /\ key[a] = key[b])
         /\ remote[a] # None => remote[a] # remote[b]

Quiet(c) == \A r \in Requests : req[r].cust # c

\* A customer with addresses has a default among them ("otherwise nothing is selected
\* at the checkout"), whatever he removes, imports or is merged with, unless his
\* requests overlapped or ended half way.
SomeDefault ==
  \A c \in Customers \ shaken : Quiet(c) /\ Of(c) # {} => Of(c) \cap default # {}

\* There are never two defaults, under the same condition and until an address book
\* was imported: the import does not clear the default there is.
OneDefault ==
  \A c \in Customers \ (shaken \cup imported) : Cardinality(Of(c) \cap default) <= 1

\* The app makes one copy of an address at the store and knows which, and the copy
\* says what the address says unless its customer has changed it on the website since,
\* however the address was created, edited, imported or moved, unless a push failed, was
\* left out, was repeated, or overlapped.
OneCopyOfEach ==
  \A a \in Rows \ stale :
    (owner[a] \notin shaken \cup {None} /\ Quiet(owner[a])) =>
      \A x \in Copies : made[x] = a /\ copy[x] # None =>
        /\ remote[a] = x
        /\ x \in touched \/ copy[x] = key[a]
=============================================================================
