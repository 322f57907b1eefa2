------------------------------ MODULE Identity ------------------------------
(***************************************************************************)
(* Whose account an email or phone opens: IdentityService                  *)
(* (auth/identity.service.ts) as verifyLoginOtp and verifyIdentity of      *)
(* auth/auth.service.ts call it, and the administrator's block, unblock    *)
(* and merge, which change the rows it reads.                              *)
(*                                                                         *)
(* A transaction runs at READ COMMITTED and takes no lock on what it       *)
(* reads, so it is two steps: what it read, and its writes at commit; the  *)
(* merge's is three, for it locks the identities it moves long before it   *)
(* commits.  A unique index that refuses a write rolls the whole           *)
(* transaction back, which is no change of state; so is every answer 4xx.  *)
(* Codes are module Otp's, sessions module Sessions', Shopify records      *)
(* module Accounts'.                                                       *)
(***************************************************************************)
EXTENDS Naturals, FiniteSets

CONSTANTS
  Customers,     \* ids of Customer rows, existing or yet to be created
  Phones, Emails,
  Imported,      \* the identifiers that came with a Shopify import
  Requests,
  MaxHops,       \* 5 in resolveMergeChain
  None           \* SQL NULL

Identifiers == Phones \cup Emails

ASSUME IdentityAssumption ==
  /\ None \notin Customers \cup Identifiers
  /\ Phones \cap Emails = {} /\ Imported \subseteq Identifiers
  /\ MaxHops \in Nat
  /\ IsFiniteSet(Customers)

VARIABLES
  status,        \* Customer.status, "absent" while there is no row
  mergedInto,    \* Customer.mergedIntoId
  primary,       \* primary[c]: the values of primaryPhone and primaryEmail
  verified,      \* verified[i]: CustomerIdentity.customerId of i, unique on (type, value)
  pc,            \* what each request does next
  cust,          \* cust[r]: the customer r is about
  arg,           \* arg[r]: the identifier r works with, or the target of its merge
  saw,           \* saw[r]: what the transaction of r decided from what it read: that its
                 \* customer is to be activated ("wakes"), that his primary column of this
                 \* type is empty ("empty"), that the identifier is his already ("owned")
  moving,        \* moving[r]: the identities the merge of r has written and locked
  \* History variables: they are read by properties only.
  disturbed,     \* a merge was committed on a stale read, or under a request for its
                 \* source, or after its source was given an identifier it did not see,
                 \* or a login gave up half way along a chain of merges
  sealed,        \* customers blocked under no pending activation, and not unblocked
                 \* or merged since
  crossed        \* merges whose source was given an identifier since their updateMany

rowVars == <<status, mergedInto, primary, verified>>
reqVars == <<pc, cust, arg, saw, moving>>
history == <<disturbed, sealed, crossed>>
vars == <<rowVars, reqVars, history>>

Statuses == {"absent", "IMPORTED", "ACTIVE", "BLOCKED", "MERGED"}
Steps == {"idle", "create", "link", "commit", "block", "unblock", "merge", "moved"}
Decisions == {"wakes", "empty", "owned"}

Exists(c) == status[c] # "absent"
SameType(i, j) == (i \in Phones) = (j \in Phones)
Holders(i) == {c \in Customers : i \in primary[c]}

Reading(c, i) ==
  {x \in Decisions :
     \/ x = "wakes" /\ status[c] = "IMPORTED"
     \/ x = "empty" /\ \A j \in primary[c] : ~SameType(i, j)
     \/ x = "owned" /\ verified[i] = c}

Goto(r, step, c, a, read) ==
  /\ pc' = [pc EXCEPT ![r] = step]
  /\ cust' = [cust EXCEPT ![r] = c]
  /\ arg' = [arg EXCEPT ![r] = a]
  /\ saw' = [saw EXCEPT ![r] = read]
  /\ moving' = [moving EXCEPT ![r] = {}]

Return(r) == Goto(r, "idle", None, None, {})

-----------------------------------------------------------------------------
(* Faulty variants of the definitions below, each a bug this code could have had. *)

Activated_Always(r) == "ACTIVE"            \* no test for IMPORTED
IdentitiesMoved_Left(a) == {}              \* merge without the updateMany of identities
ClaimFree_Unchecked(c, i) == TRUE          \* claim as an upsert
Claim_Skipped(r) == UNCHANGED verified     \* the primary column is written and no identity
Merged_Deleted(s) == "deleted"             \* the source row deleted

-----------------------------------------------------------------------------
(* An import may have left customers that have proved nothing yet. *)
Init ==
  /\ status \in [Customers -> {"absent", "IMPORTED"}]
  /\ mergedInto = [c \in Customers |-> None]
  /\ primary \in [Customers -> SUBSET Identifiers]
  /\ \A c \in Customers :
       /\ status[c] = "absent" => primary[c] = {}
       /\ \A i, j \in primary[c] : i # j => ~SameType(i, j)
       /\ \A d \in Customers \ {c} : primary[c] \cap primary[d] = {}
  /\ UNION {primary[c] : c \in Customers} = Imported
  /\ verified = [i \in Identifiers |-> None]
  /\ pc = [r \in Requests |-> "idle"]
  /\ cust = [r \in Requests |-> None]
  /\ arg = [r \in Requests |-> None]
  /\ saw = [r \in Requests |-> {}]
  /\ moving = [r \in Requests |-> {}]
  /\ disturbed = FALSE
  /\ sealed = {}
  /\ crossed = {}

-----------------------------------------------------------------------------
(* Login: resolveOrCreateForLogin, claimVerifiedIdentity, activateAndBackfill. *)

\* At most n steps along mergedIntoId lead from c to d, and d is not merged or n ran out.
Leads(c, d, n) ==
  \E k \in 0..n : \E path \in [0..k -> Customers] :
    /\ path[0] = c /\ path[k] = d
    /\ \A j \in 1..k : mergedInto[path[j - 1]] = path[j]
    /\ k = n \/ mergedInto[d] = None

\* resolveMergeChain
Resolves(c, d) == Leads(c, d, MaxHops)

\* The customer a login with i is for: the one that verified it, or else the one
\* whose primary it is.
Candidates(i) == IF verified[i] # None THEN {verified[i]} ELSE Holders(i)

\* claimVerifiedIdentity refuses an identifier that is another customer's.
ClaimFree(c, i) == verified[i] \in {c, None}

LoginResolve(r, i, c) ==
  /\ pc[r] = "idle"
  /\ \E found \in Candidates(i) : Resolves(found, c)
  /\ status[c] # "BLOCKED"
  /\ ClaimFree(c, i)
  /\ disturbed' = (disturbed \/ mergedInto[c] # None)
  /\ Goto(r, "commit", c, i, Reading(c, i))
  /\ UNCHANGED <<rowVars, sealed, crossed>>

LoginUnknown(r, i) ==
  /\ pc[r] = "idle"
  /\ Candidates(i) = {}
  /\ Goto(r, "create", None, i, {})
  /\ UNCHANGED <<rowVars, history>>

\* claimVerifiedIdentity's insert, unless the row was there when it looked.
Claim(r) ==
  IF "owned" \in saw[r] THEN UNCHANGED verified
  ELSE /\ ClaimFree(cust[r], arg[r])
       /\ verified' = [verified EXCEPT ![arg[r]] = cust[r]]

\* activateAndBackfill writes by id what it decided from the row as it was read;
\* primaryIsFree looks again just before the update.
Activated(r) == IF "wakes" \in saw[r] THEN "ACTIVE" ELSE status[cust[r]]
PrimaryIsFree(c, i) == Holders(i) \subseteq {c}
Fill(r) == IF "empty" \in saw[r] /\ PrimaryIsFree(cust[r], arg[r]) THEN {arg[r]} ELSE {}

ActivateAndBackfill(r) ==
  LET kept == {j \in primary[cust[r]] : Fill(r) = {} \/ ~SameType(arg[r], j)} IN
  /\ status' = [status EXCEPT ![cust[r]] = Activated(r)]
  /\ primary' = [primary EXCEPT ![cust[r]] = kept \cup Fill(r)]

\* Merges that have already picked the identities of c they will move.
MergesOf(c) == {q \in Requests : pc[q] = "moved" /\ cust[q] = c}

\* Both transactions end alike.
Commit(r) ==
  /\ pc[r] = "commit"
  /\ Claim(r)
  /\ ActivateAndBackfill(r)
  /\ crossed' = IF "owned" \in saw[r] THEN crossed ELSE crossed \cup MergesOf(cust[r])
  /\ Return(r)
  /\ UNCHANGED <<mergedInto, disturbed, sealed>>

\* A new customer; two unique indexes may refuse it.
LoginCreate(r, n) ==
  LET i == arg[r] IN
  /\ pc[r] = "create"
  /\ ~Exists(n)
  /\ Holders(i) = {} /\ ClaimFree(None, i)
  /\ status' = [status EXCEPT ![n] = "ACTIVE"]
  /\ primary' = [primary EXCEPT ![n] = {i}]
  /\ verified' = [verified EXCEPT ![i] = n]
  /\ Return(r)
  /\ UNCHANGED <<mergedInto, history>>

-----------------------------------------------------------------------------
(* verifyIdentity: the guard admits an ACTIVE customer, the code is judged  *)
(* (await), and only then does the transaction begin.                       *)

LinkBegin(r, c, i) ==
  /\ pc[r] = "idle"
  /\ status[c] = "ACTIVE"
  /\ Goto(r, "link", c, i, {})
  /\ UNCHANGED <<rowVars, history>>

LinkRead(r) ==
  /\ pc[r] = "link"
  /\ IF ClaimFree(cust[r], arg[r])
     THEN Goto(r, "commit", cust[r], arg[r], Reading(cust[r], arg[r]))
     ELSE Return(r)
  /\ UNCHANGED <<rowVars, history>>

-----------------------------------------------------------------------------
(* The administrator reads and checks first, and writes by id afterwards. *)

Activating(c) ==
  \E r \in Requests : pc[r] = "commit" /\ cust[r] = c /\ "wakes" \in saw[r]

BlockRead(r, c) ==
  /\ pc[r] = "idle"
  /\ status[c] \in {"ACTIVE", "IMPORTED"}
  /\ Goto(r, "block", c, None, {})
  /\ UNCHANGED <<rowVars, history>>

BlockWrite(r) ==
  LET c == cust[r] IN
  /\ pc[r] = "block"
  /\ status' = [status EXCEPT ![c] = "BLOCKED"]
  /\ sealed' = IF Activating(c) THEN sealed ELSE sealed \cup {c}
  /\ Return(r)
  /\ UNCHANGED <<mergedInto, primary, verified, disturbed, crossed>>

UnblockRead(r, c) ==
  /\ pc[r] = "idle"
  /\ status[c] = "BLOCKED"
  /\ Goto(r, "unblock", c, None, {})
  /\ UNCHANGED <<rowVars, history>>

UnblockWrite(r) ==
  /\ pc[r] = "unblock"
  /\ status' = [status EXCEPT ![cust[r]] = "ACTIVE"]
  /\ sealed' = sealed \ {cust[r]}
  /\ Return(r)
  /\ UNCHANGED <<mergedInto, primary, verified, disturbed, crossed>>

MergeAllowed(a, b) ==
  /\ status[a] \notin {"absent", "MERGED"}
  /\ status[b] \in {"ACTIVE", "IMPORTED"}

MergeRead(r, source, target) ==
  /\ pc[r] = "idle"
  /\ source # target
  /\ MergeAllowed(source, target)
  /\ Goto(r, "merge", source, target, {})
  /\ UNCHANGED <<rowVars, history>>

IdentitiesMoved(a) == {i \in Identifiers : verified[i] = a}
Merged(s) == "MERGED"

\* updateMany of the source's identities, the first statement of the merge: it picks
\* those that are committed now, and waits for one that another merge has locked.
MergeMove(r) ==
  LET mine == IdentitiesMoved(cust[r]) IN
  /\ pc[r] = "merge"
  /\ \A q \in Requests : moving[q] \cap mine = {}
  /\ pc' = [pc EXCEPT ![r] = "moved"]
  /\ moving' = [moving EXCEPT ![r] = mine]
  /\ UNCHANGED <<rowVars, cust, arg, saw, history>>

\* Requests other than r that have read a and will write.
Concerned(r, a) ==
  {q \in Requests \ {r} : pc[q] # "idle" /\ a \in {cust[q], arg[q]}}

\* The end of the merge: the rows updateMany picked are the target's, and the source
\* is closed.  An identity it was given in between stays with it.
MergeCommit(r) ==
  LET a == cust[r]
      b == arg[r]
  IN
  /\ pc[r] = "moved"
  /\ verified' = [i \in Identifiers |-> IF i \in moving[r] THEN b ELSE verified[i]]
  /\ status' = [status EXCEPT ![a] = Merged(@)]
  /\ mergedInto' = [mergedInto EXCEPT ![a] = b]
  /\ disturbed' = (disturbed \/ r \in crossed \/ Concerned(r, a) # {} \/ ~MergeAllowed(a, b))
  /\ sealed' = sealed \ {a}
  /\ crossed' = (IF moving[r] = {} THEN crossed ELSE crossed \cup MergesOf(b)) \ {r}
  /\ Return(r)
  /\ UNCHANGED primary

\* The server stops, a unique index refuses the commit, or a check fails that the
\* request repeats: its transaction is rolled back.
Abort(r) ==
  /\ pc[r] # "idle"
  /\ crossed' = crossed \ {r}
  /\ Return(r)
  /\ UNCHANGED <<rowVars, disturbed, sealed>>

RequestStep(r) ==
  \/ \E i \in Identifiers, c \in Customers : LoginResolve(r, i, c)
  \/ \E i \in Identifiers : LoginUnknown(r, i)
  \/ Commit(r)
  \/ \E c \in Customers : LoginCreate(r, c) \/ BlockRead(r, c) \/ UnblockRead(r, c)
  \/ \E c \in Customers, i \in Identifiers : LinkBegin(r, c, i)
  \/ LinkRead(r)
  \/ BlockWrite(r)
  \/ UnblockWrite(r)
  \/ \E c, d \in Customers : MergeRead(r, c, d)
  \/ MergeMove(r)
  \/ MergeCommit(r)
  \/ Abort(r)

Next == \E r \in Requests : RequestStep(r)

Spec == Init /\ [][Next]_vars

-----------------------------------------------------------------------------
(* Properties *)

\* The variables stay within their types.
TypeOK ==
  /\ status \in [Customers -> Statuses]
  /\ mergedInto \in [Customers -> Customers \cup {None}]
  /\ primary \in [Customers -> SUBSET Identifiers]
  /\ verified \in [Identifiers -> Customers \cup {None}]
  /\ pc \in [Requests -> Steps]
  /\ cust \in [Requests -> Customers \cup {None}]
  /\ arg \in [Requests -> Customers \cup Identifiers \cup {None}]
  /\ saw \in [Requests -> SUBSET Decisions]
  /\ moving \in [Requests -> SUBSET Identifiers]
  /\ disturbed \in BOOLEAN
  /\ sealed \subseteq Customers
  /\ crossed \subseteq Requests

\* Merging keeps logins working: unless a merge was committed while a request for
\* the customer it closed was under way, or after one gave that customer an identifier
\* the merge had not picked, or a chain was too long, nobody is being logged in to, or
\* given an identifier for, a merged account, and every verified identifier belongs
\* to an account that is not merged.  That is what login needs, since
\* claimVerifiedIdentity answers 409 when the identity row names a customer other
\* than the one the chain of merges leads to.
MergeKeepsLogin ==
  ~disturbed =>
    /\ \A i \in Identifiers : verified[i] # None =>
         /\ status[verified[i]] \notin {"absent", "MERGED"}
         /\ mergedInto[verified[i]] = None
    /\ \A r \in Requests : pc[r] = "commit" =>
         status[cust[r]] \notin {"absent", "MERGED"}

\* Block stands: a customer blocked while no login was about to activate him
\* stays blocked until he is unblocked or merged, whatever requests that were
\* let in before the block still write.
BlockStands == \A c \in sealed : status[c] = "BLOCKED"

\* The primary email or phone of a customer is imported, or it was proved and
\* the account that proved it is the one this customer was merged into, if at all.  (The
\* comment at Customer.primaryPhone in schema.prisma calls it an invariant.)
PrimaryIsProven ==
  \A c \in Customers : \A i \in primary[c] \ Imported :
    /\ verified[i] # None
    /\ ~disturbed => \E d \in Customers : \A e \in {verified[i], c} :
                       Leads(e, d, Cardinality(Customers))

\* A verified identifier is never taken from its customer: it moves only when
\* that customer is merged, and to the target of that merge.
NeverStolen ==
  [][\A i \in Identifiers :
       verified[i] # None /\ verified'[i] # verified[i] =>
         \E r \in Requests :
           /\ pc[r] = "moved" /\ cust[r] = verified[i] /\ arg[r] = verified'[i]
           /\ status'[verified[i]] = "MERGED"]_vars

\* What the comment above AdminCustomerMergeService says: a merge never breaks
\* login.  The code does not reach it when the merge races.
MergeNeverBreaksLogin ==
  \A i \in Identifiers : verified[i] # None => mergedInto[verified[i]] = None
=============================================================================
