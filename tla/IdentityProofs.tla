--------------------------- MODULE IdentityProofs ---------------------------
(***************************************************************************)
(* Theorems about Identity for any number of customers, identifiers and    *)
(* concurrent requests, and any limit on the hops of resolveMergeChain.    *)
(* RowsExist carries the others: what a request or a row names is a row.   *)
(***************************************************************************)
EXTENDS Identity, FiniteSetTheorems, TLAPS

\* What a request remembers between two awaits.
RequestsOK ==
  \A r \in Requests :
    /\ pc[r] \in {"link", "commit", "block", "unblock", "merge", "moved"} =>
         cust[r] \in Customers /\ Exists(cust[r])
    /\ pc[r] \in {"create", "link", "commit"} => arg[r] \in Identifiers
    /\ pc[r] \in {"merge", "moved"} =>
         arg[r] \in Customers /\ arg[r] # cust[r] /\ Exists(arg[r])

\* A customer that is named, or that holds a value, exists; no row is deleted.
RowsExist ==
  /\ \A c \in Customers :
       /\ mergedInto[c] # None => Exists(c) /\ Exists(mergedInto[c])
       /\ primary[c] # {} => Exists(c)
  /\ \A i \in Identifiers : verified[i] # None => Exists(verified[i])

\* What a merge has locked is its source's, and no other merge's.
LocksOK ==
  \A r \in Requests :
    /\ pc[r] # "moved" => moving[r] = {}
    /\ \A i \in moving[r] : verified[i] = cust[r]
    /\ \A q \in Requests \ {r} : moving[q] \cap moving[r] = {}

Base == TypeOK /\ RequestsOK /\ RowsExist /\ LocksOK

-----------------------------------------------------------------------------
\* The state an import leaves satisfies Base.
LEMMA InitBase == Init => Base
  <1> SUFFICES ASSUME Init PROVE Base
    OBVIOUS
  <1>1. TypeOK
    BY DEF Init, TypeOK, Statuses, Steps
  <1>2. RequestsOK
    BY DEF Init, RequestsOK
  <1>3. RowsExist
    BY DEF Init, RowsExist, Exists
  <1>4. LocksOK
    BY DEF Init, LocksOK
  <1>5. QED
    BY <1>1, <1>2, <1>3, <1>4 DEF Base

\* The customer that resolveMergeChain returns exists if the one it began with does.
LEMMA ResolvedExists ==
  ASSUME TypeOK, RowsExist,
         NEW found \in Customers, Exists(found),
         NEW c \in Customers, Resolves(found, c)
  PROVE  Exists(c)
  <1>0. PICK k \in 0..MaxHops : \E path \in [0..k -> Customers] :
          /\ path[0] = found /\ path[k] = c
          /\ \A j \in 1..k : mergedInto[path[j - 1]] = path[j]
    BY DEF Resolves, Leads
  <1>1. PICK path \in [0..k -> Customers] :
          /\ path[0] = found /\ path[k] = c
          /\ \A j \in 1..k : mergedInto[path[j - 1]] = path[j]
    BY <1>0
  <1>2. CASE k = 0
    BY <1>1, <1>2
  <1>3. CASE k # 0
    <2>1. k \in 1..k /\ k - 1 \in 0..k
      BY <1>1, <1>3, IdentityAssumption
    <2>2. mergedInto[path[k - 1]] = c /\ path[k - 1] \in Customers
      BY <1>1, <2>1
    <2>3. QED
      BY <2>2, IdentityAssumption DEF RowsExist
  <1>4. QED
    BY <1>2, <1>3

\* A login resolves to a customer that exists.
LEMMA LoginFindsRow ==
  ASSUME Base, NEW i \in Identifiers, NEW c \in Customers,
         \E found \in Candidates(i) : Resolves(found, c)
  PROVE  Exists(c)
  <1>1. PICK found \in Candidates(i) : Resolves(found, c)
    OBVIOUS
  <1>2. found \in Customers /\ Exists(found)
    BY <1>1 DEF Base, TypeOK, RowsExist, Candidates, Holders
  <1>3. QED
    BY <1>1, <1>2, ResolvedExists DEF Base

\* Every step of a login, a linking, an administrator or a crash preserves Base.
LEMMA NextBase == Base /\ [Next]_vars => Base'
  <1> SUFFICES ASSUME Base, [Next]_vars PROVE Base'
    OBVIOUS
  <1> USE IdentityAssumption DEF Base, TypeOK, RequestsOK, RowsExist, LocksOK, Exists, Statuses,
        Steps, Decisions, Goto, Return, rowVars, reqVars, history, Reading
  <1>1. ASSUME NEW r \in Requests, NEW i \in Identifiers, NEW c \in Customers,
               LoginResolve(r, i, c)
        PROVE  Base'
    <2>1. Exists(c)
      BY <1>1, LoginFindsRow DEF LoginResolve
    <2>2. QED
      BY <1>1, <2>1 DEF LoginResolve
  <1>2. ASSUME NEW r \in Requests, NEW i \in Identifiers, LoginUnknown(r, i)
        PROVE  Base'
    BY <1>2 DEF LoginUnknown
  <1>3. ASSUME NEW r \in Requests, Commit(r)
        PROVE  Base'
    <2>1. cust[r] \in Customers /\ arg[r] \in Identifiers /\ Exists(cust[r])
      BY <1>3 DEF Commit
    <2>2. verified' \in [Identifiers -> Customers \cup {None}]
          /\ \A i \in Identifiers : verified'[i] # verified[i] => verified'[i] = cust[r]
      BY <1>3, <2>1 DEF Commit, Claim
    <2>3. status' \in [Customers -> Statuses]
          /\ \A c \in Customers : status[c] # "absent" => status'[c] # "absent"
      BY <1>3, <2>1 DEF Commit, ActivateAndBackfill, Activated
    <2>4. primary' \in [Customers -> SUBSET Identifiers]
          /\ \A c \in Customers : primary'[c] # primary[c] => c = cust[r]
      BY <1>3, <2>1 DEF Commit, ActivateAndBackfill, Fill, PrimaryIsFree
    <2>5. \A i \in Identifiers : verified[i] # None => verified'[i] = verified[i]
      BY <1>3, <2>1 DEF Commit, Claim, ClaimFree
    <2>6. crossed' \subseteq Requests
      BY <1>3 DEF Commit, MergesOf
    <2>7. LocksOK'
      BY <1>3, <2>5 DEF Commit
    <2>8. TypeOK'
      <3>1. Return(r) /\ UNCHANGED <<mergedInto, disturbed, sealed>>
        BY <1>3 DEF Commit
      <3>2. QED
        BY <2>2, <2>3, <2>4, <2>6, <3>1
    <2>9. RowsExist'
      <3>1. mergedInto' = mergedInto
        BY <1>3 DEF Commit
      <3>2. \A c \in Customers :
              /\ mergedInto'[c] # None => Exists(c)' /\ status'[mergedInto'[c]] # "absent"
              /\ primary'[c] # {} => Exists(c)'
        BY <2>1, <2>3, <2>4, <3>1
      <3>3. \A i \in Identifiers : verified'[i] # None => status'[verified'[i]] # "absent"
        BY <2>1, <2>2, <2>3
      <3>4. QED
        BY <3>2, <3>3
    <2>10. RequestsOK'
      BY <1>3, <2>1, <2>3 DEF Commit
    <2>11. QED
      BY <2>7, <2>8, <2>9, <2>10
  <1>4. ASSUME NEW r \in Requests, NEW n \in Customers, LoginCreate(r, n)
        PROVE  Base'
    <2>1. LocksOK'
      BY <1>4 DEF LoginCreate, ClaimFree
    <2>2. TypeOK'
      BY <1>4 DEF LoginCreate
    <2>3. RequestsOK' /\ RowsExist'
      BY <1>4 DEF LoginCreate
    <2>4. QED
      BY <2>1, <2>2, <2>3
  <1>5. ASSUME NEW r \in Requests, NEW c \in Customers, NEW i \in Identifiers,
               LinkBegin(r, c, i)
        PROVE  Base'
    BY <1>5 DEF LinkBegin
  <1>6. ASSUME NEW r \in Requests, LinkRead(r)
        PROVE  Base'
    <2>1. CASE ClaimFree(cust[r], arg[r])
      BY <1>6, <2>1 DEF LinkRead
    <2>2. CASE ~ClaimFree(cust[r], arg[r])
      BY <1>6, <2>2 DEF LinkRead
    <2>3. QED
      BY <2>1, <2>2
  <1>7. ASSUME NEW r \in Requests, NEW c \in Customers, BlockRead(r, c)
        PROVE  Base'
    BY <1>7 DEF BlockRead
  <1>8. ASSUME NEW r \in Requests, BlockWrite(r)
        PROVE  Base'
    BY <1>8 DEF BlockWrite
  <1>9. ASSUME NEW r \in Requests, NEW c \in Customers, UnblockRead(r, c)
        PROVE  Base'
    BY <1>9 DEF UnblockRead
  <1>10. ASSUME NEW r \in Requests, UnblockWrite(r)
         PROVE  Base'
    BY <1>10 DEF UnblockWrite
  <1>11. ASSUME NEW r \in Requests, NEW c \in Customers, NEW d \in Customers,
                MergeRead(r, c, d)
         PROVE  Base'
    BY <1>11 DEF MergeRead, MergeAllowed
  <1>12. ASSUME NEW r \in Requests, MergeMove(r)
         PROVE  Base'
    BY <1>12 DEF MergeMove, IdentitiesMoved
  <1>13. ASSUME NEW r \in Requests, MergeCommit(r)
         PROVE  Base'
    BY <1>13 DEF MergeCommit, Merged, MergesOf
  <1>14. ASSUME NEW r \in Requests, Abort(r)
         PROVE  Base'
    BY <1>14 DEF Abort
  <1>15. CASE UNCHANGED vars
    BY <1>15 DEF vars
  <1>16. QED
    BY <1>1, <1>2, <1>3, <1>4, <1>5, <1>6, <1>7, <1>8, <1>9, <1>10, <1>11, <1>12,
       <1>13, <1>14, <1>15 DEF Next, RequestStep

\* Base is an invariant, for the theorems below to rest on.
LEMMA BaseInvariant == Spec => []Base
  BY InitBase, NextBase, PTL DEF Spec

\* No login, linking, block, unblock or merge leaves the types of the customer and
\* identity rows or of what a request remembers.
THEOREM TypeCorrect == Spec => []TypeOK
  <1>1. Base => TypeOK
    BY DEF Base
  <1>2. QED
    BY BaseInvariant, <1>1, PTL
-----------------------------------------------------------------------------
(* Block: a sealed customer is BLOCKED, and no request has decided to      *)
(* activate him; login decides so only for an IMPORTED customer.           *)

SealInv == \A c \in sealed : status[c] = "BLOCKED" /\ ~Activating(c)

\* Each step keeps sealed customers blocked and free of pending activations.
LEMMA NextSeal == Base /\ SealInv /\ [Next]_vars => SealInv'
  <1> SUFFICES ASSUME Base, SealInv, [Next]_vars PROVE SealInv'
    OBVIOUS
  <1> USE IdentityAssumption DEF Base, TypeOK, RequestsOK, Exists, SealInv, Activating,
        Goto, Return, rowVars, reqVars, history, Reading
  <1>1. ASSUME NEW r \in Requests, NEW i \in Identifiers, NEW c \in Customers,
               LoginResolve(r, i, c)
        PROVE  SealInv'
    BY <1>1 DEF LoginResolve
  <1>2. ASSUME NEW r \in Requests, NEW i \in Identifiers, LoginUnknown(r, i)
        PROVE  SealInv'
    BY <1>2 DEF LoginUnknown
  <1>3. ASSUME NEW r \in Requests, Commit(r)
        PROVE  SealInv'
    BY <1>3 DEF Commit, ActivateAndBackfill, Activated
  <1>4. ASSUME NEW r \in Requests, NEW n \in Customers, LoginCreate(r, n)
        PROVE  SealInv'
    BY <1>4 DEF LoginCreate
  <1>5. ASSUME NEW r \in Requests, NEW c \in Customers, NEW i \in Identifiers,
               LinkBegin(r, c, i)
        PROVE  SealInv'
    BY <1>5 DEF LinkBegin
  <1>6. ASSUME NEW r \in Requests, LinkRead(r)
        PROVE  SealInv'
    BY <1>6 DEF LinkRead
  <1>7. ASSUME NEW r \in Requests, NEW c \in Customers, BlockRead(r, c)
        PROVE  SealInv'
    BY <1>7 DEF BlockRead
  <1>8. ASSUME NEW r \in Requests, BlockWrite(r)
        PROVE  SealInv'
    BY <1>8 DEF BlockWrite
  <1>9. ASSUME NEW r \in Requests, NEW c \in Customers, UnblockRead(r, c)
        PROVE  SealInv'
    BY <1>9 DEF UnblockRead
  <1>10. ASSUME NEW r \in Requests, UnblockWrite(r)
         PROVE  SealInv'
    BY <1>10 DEF UnblockWrite
  <1>11. ASSUME NEW r \in Requests, NEW c \in Customers, NEW d \in Customers,
                MergeRead(r, c, d)
         PROVE  SealInv'
    BY <1>11 DEF MergeRead
  <1>12. ASSUME NEW r \in Requests, MergeMove(r)
         PROVE  SealInv'
    BY <1>12 DEF MergeMove
  <1>13. ASSUME NEW r \in Requests, MergeCommit(r)
         PROVE  SealInv'
    BY <1>13 DEF MergeCommit
  <1>14. ASSUME NEW r \in Requests, Abort(r)
         PROVE  SealInv'
    BY <1>14 DEF Abort
  <1>15. CASE UNCHANGED vars
    BY <1>15 DEF vars
  <1>16. QED
    BY <1>1, <1>2, <1>3, <1>4, <1>5, <1>6, <1>7, <1>8, <1>9, <1>10, <1>11, <1>12,
       <1>13, <1>14, <1>15 DEF Next, RequestStep

\* block() holds: a customer blocked while no login was about to activate him stays
\* BLOCKED until he is unblocked or merged, whatever was let in before still writes.
THEOREM BlockHolds == Spec => []BlockStands
  <1>1. Init => SealInv
    BY DEF Init, SealInv
  <1>2. SealInv => BlockStands
    BY DEF SealInv, BlockStands
  <1>3. QED
    BY <1>1, <1>2, NextSeal, BaseInvariant, PTL DEF Spec

-----------------------------------------------------------------------------
(* Merge: while nothing was disturbed, mergedIntoId marks exactly the      *)
(* MERGED customers, every identity and every request that will write is   *)
(* for a customer who is not one of them, and a merge that nothing crossed *)
(* has picked all the identities of its source.                            *)

Alive(c) == status[c] \notin {"absent", "MERGED"}

MergeInv ==
  ~disturbed =>
    /\ \A c \in Customers : mergedInto[c] = None <=> status[c] # "MERGED"
    /\ \A i \in Identifiers : verified[i] # None => Alive(verified[i])
    /\ \A r \in Requests :
         /\ pc[r] \in {"link", "commit", "block", "unblock", "merge", "moved"} =>
              Alive(cust[r])
         /\ pc[r] \in {"merge", "moved"} => Alive(arg[r])
         /\ pc[r] = "moved" /\ r \notin crossed =>
              \A i \in Identifiers : verified[i] = cust[r] => i \in moving[r]

\* Each step keeps identities and requests away from merged customers: a merge that
\* would leave one behind is one that counts as disturbing.
LEMMA NextMerge == Base /\ MergeInv /\ [Next]_vars => MergeInv'
  <1> SUFFICES ASSUME Base, MergeInv, [Next]_vars, ~disturbed' PROVE MergeInv'
    BY DEF MergeInv
  <1> USE IdentityAssumption DEF Base, TypeOK, RequestsOK, RowsExist, LocksOK, Exists,
        MergeInv, Alive, Goto, Return, rowVars, reqVars, history
  <1>1. ASSUME NEW r \in Requests, NEW i \in Identifiers, NEW c \in Customers,
               LoginResolve(r, i, c)
        PROVE  MergeInv'
    <2>1. Exists(c) /\ mergedInto[c] = None /\ ~disturbed
      BY <1>1, LoginFindsRow DEF LoginResolve
    <2>2. QED
      BY <1>1, <2>1 DEF LoginResolve
  <1>2. ASSUME NEW r \in Requests, NEW i \in Identifiers, LoginUnknown(r, i)
        PROVE  MergeInv'
    BY <1>2 DEF LoginUnknown
  <1>3. ASSUME NEW r \in Requests, Commit(r)
        PROVE  MergeInv'
    <2>1. cust[r] \in Customers /\ arg[r] \in Identifiers /\ Alive(cust[r])
      BY <1>3 DEF Commit
    <2>2. \A i \in Identifiers : verified'[i] \in {verified[i], cust[r]}
      BY <1>3, <2>1 DEF Commit, Claim
    <2>5. \A q \in Requests :
            pc[q] = "moved" /\ q \notin crossed' =>
              q \notin crossed /\ (cust[q] # cust[r] \/ UNCHANGED verified)
      BY <1>3 DEF Commit, Claim, MergesOf
    <2>3. \A c \in Customers : status'[c] = status[c] \/ (c = cust[r] /\ status'[c] = "ACTIVE")
      BY <1>3, <2>1 DEF Commit, ActivateAndBackfill, Activated
    <2>4. QED
      BY <1>3, <2>1, <2>2, <2>3, <2>5 DEF Commit
  <1>4. ASSUME NEW r \in Requests, NEW n \in Customers, LoginCreate(r, n)
        PROVE  MergeInv'
    BY <1>4 DEF LoginCreate
  <1>5. ASSUME NEW r \in Requests, NEW c \in Customers, NEW i \in Identifiers,
               LinkBegin(r, c, i)
        PROVE  MergeInv'
    BY <1>5 DEF LinkBegin
  <1>6. ASSUME NEW r \in Requests, LinkRead(r)
        PROVE  MergeInv'
    BY <1>6 DEF LinkRead
  <1>7. ASSUME NEW r \in Requests, NEW c \in Customers, BlockRead(r, c)
        PROVE  MergeInv'
    BY <1>7 DEF BlockRead
  <1>8. ASSUME NEW r \in Requests, BlockWrite(r)
        PROVE  MergeInv'
    BY <1>8 DEF BlockWrite
  <1>9. ASSUME NEW r \in Requests, NEW c \in Customers, UnblockRead(r, c)
        PROVE  MergeInv'
    BY <1>9 DEF UnblockRead
  <1>10. ASSUME NEW r \in Requests, UnblockWrite(r)
         PROVE  MergeInv'
    BY <1>10 DEF UnblockWrite
  <1>11. ASSUME NEW r \in Requests, NEW c \in Customers, NEW d \in Customers,
                MergeRead(r, c, d)
         PROVE  MergeInv'
    BY <1>11 DEF MergeRead, MergeAllowed
  <1>12. ASSUME NEW r \in Requests, MergeMove(r)
         PROVE  MergeInv'
    <2>1. \A i \in Identifiers : verified[i] = cust[r] => i \in moving'[r]
      BY <1>12 DEF MergeMove, IdentitiesMoved
    <2>2. \A q \in Requests : q # r => pc'[q] = pc[q] /\ moving'[q] = moving[q]
      BY <1>12 DEF MergeMove
    <2>3. QED
      BY <1>12, <2>1, <2>2 DEF MergeMove
  <1>13. ASSUME NEW r \in Requests, MergeCommit(r)
         PROVE  MergeInv'
    <2>1. /\ ~disturbed
          /\ cust[r] \in Customers /\ arg[r] \in Customers /\ arg[r] # cust[r]
          /\ Alive(arg[r])
      BY <1>13 DEF MergeCommit
    <2>2. \A q \in Requests : q # r /\ pc[q] # "idle" => cust[q] # cust[r] /\ arg[q] # cust[r]
      BY <1>13 DEF MergeCommit, Concerned
    <2>3. \A i \in Identifiers :
            verified'[i] = IF verified[i] = cust[r] THEN arg[r] ELSE verified[i]
      <3>1. \A i \in Identifiers : i \in moving[r] <=> verified[i] = cust[r]
        BY <1>13, <2>1 DEF MergeCommit
      <3>2. QED
        BY <1>13, <3>1 DEF MergeCommit
    <2>4. \A c \in Customers :
            /\ status'[c] = IF c = cust[r] THEN "MERGED" ELSE status[c]
            /\ mergedInto'[c] = IF c = cust[r] THEN arg[r] ELSE mergedInto[c]
      BY <1>13 DEF MergeCommit, Merged
    <2>5. \A q \in Requests :
            pc'[q] # "idle" =>
              /\ q # r /\ pc'[q] = pc[q] /\ cust'[q] = cust[q] /\ arg'[q] = arg[q]
              /\ moving'[q] = moving[q]
      BY <1>13 DEF MergeCommit
    <2>6. \A q \in Requests :
            q # r /\ pc[q] = "moved" /\ q \notin crossed' =>
              q \notin crossed /\ (cust[q] # arg[r] \/ moving[r] = {})
      BY <1>13 DEF MergeCommit, MergesOf
    <2>7. \A q \in Requests :
            pc'[q] = "moved" /\ q \notin crossed' =>
              \A i \in Identifiers : verified'[i] = cust'[q] => i \in moving'[q]
      <3>1. \A i \in Identifiers : moving[r] = {} => verified'[i] = verified[i]
        BY <1>13 DEF MergeCommit
      <3>2. QED
        BY <2>1, <2>2, <2>3, <2>5, <2>6, <3>1
    <2>8. QED
      BY <2>1, <2>2, <2>3, <2>4, <2>5, <2>7
  <1>14. ASSUME NEW r \in Requests, Abort(r)
         PROVE  MergeInv'
    BY <1>14 DEF Abort
  <1>15. CASE UNCHANGED vars
    BY <1>15 DEF vars
  <1>16. QED
    BY <1>1, <1>2, <1>3, <1>4, <1>5, <1>6, <1>7, <1>8, <1>9, <1>10, <1>11, <1>12,
       <1>13, <1>14, <1>15 DEF Next, RequestStep

\* Merging keeps logins working: claimVerifiedIdentity never meets an identity of a
\* merged customer, unless a merge was committed with a request for its source under
\* way, or after one gave the source an identifier that updateMany had not picked, or a
\* chain was longer than its limit.
THEOREM LoginSurvivesMerge == Spec => []MergeKeepsLogin
  <1>1. Init => MergeInv
    BY DEF Init, MergeInv
  <1>2. Base /\ MergeInv => MergeKeepsLogin
    BY DEF Base, TypeOK, MergeInv, Alive, MergeKeepsLogin
  <1>3. QED
    BY <1>1, <1>2, NextMerge, BaseInvariant, PTL DEF Spec

-----------------------------------------------------------------------------
\* claimVerifiedIdentity never takes an identifier from its customer; only the merge
\* of that customer moves it, and to the target of the merge.
THEOREM IdentitiesAreKept == Spec => NeverStolen
  <1>1. ASSUME Base, Next, NEW i \in Identifiers,
               verified[i] # None, verified'[i] # verified[i]
        PROVE  \E r \in Requests :
                 /\ pc[r] = "moved" /\ cust[r] = verified[i] /\ arg[r] = verified'[i]
                 /\ status'[verified[i]] = "MERGED"
    <2>1. ASSUME NEW r \in Requests, Commit(r)
          PROVE  FALSE
      BY <1>1, <2>1 DEF Base, TypeOK, RequestsOK, Commit, Claim, ClaimFree
    <2>2. ASSUME NEW r \in Requests, NEW n \in Customers, LoginCreate(r, n)
          PROVE  FALSE
      BY <1>1, <2>2 DEF Base, TypeOK, RequestsOK, LoginCreate, ClaimFree
    <2>3. ASSUME NEW r \in Requests, MergeCommit(r)
          PROVE  /\ pc[r] = "moved" /\ cust[r] = verified[i] /\ arg[r] = verified'[i]
                 /\ status'[verified[i]] = "MERGED"
      BY <1>1, <2>3 DEF Base, TypeOK, RequestsOK, LocksOK, MergeCommit, Merged
    <2>4. QED
      BY <1>1, <2>1, <2>2, <2>3
         DEF Next, RequestStep, rowVars, LoginResolve, LoginUnknown, LinkBegin, LinkRead,
             BlockRead, BlockWrite, UnblockRead, UnblockWrite, MergeRead, MergeMove, Abort
  <1>2. Base /\ [Next]_vars =>
          [\A i \in Identifiers :
             verified[i] # None /\ verified'[i] # verified[i] =>
               \E r \in Requests :
                 /\ pc[r] = "moved" /\ cust[r] = verified[i] /\ arg[r] = verified'[i]
                 /\ status'[verified[i]] = "MERGED"]_vars
    BY <1>1
  <1>3. QED
    BY <1>2, BaseInvariant, PTL DEF Spec, NeverStolen

-----------------------------------------------------------------------------
(* Primary columns: as long as no merge was disturbed, the customer whose    *)
(* column has an identifier was merged, step by step, into the one who has   *)
(* proved it.  No customer is twice on the way, which bounds its length.     *)

Way(into, c, d, k, path) ==
  /\ path \in [0..k -> Customers]
  /\ path[0] = c /\ path[k] = d
  /\ \A j \in 1..k : into[path[j - 1]] = path[j]
  /\ \A j, l \in 0..k : path[j] = path[l] => j = l
Trail(into, c, d) == \E k \in Nat : \E path : Way(into, c, d, k, path)

ProvenInv ==
  /\ \A c \in Customers : \A i \in primary[c] \ Imported : verified[i] # None
  /\ \A r \in Requests : pc[r] = "commit" /\ "owned" \in saw[r] => verified[arg[r]] # None
  /\ ~disturbed =>
       /\ \A c \in Customers : \A i \in primary[c] \ Imported : Trail(mergedInto, c, verified[i])
       /\ \A r \in Requests :
            pc[r] = "commit" /\ "owned" \in saw[r] => verified[arg[r]] = cust[r]

\* Nobody is one merge away from himself.
LEMMA TrailToOneself ==
  ASSUME NEW c \in Customers
  PROVE  Trail(mergedInto, c, c)
  <1> DEFINE path == [j \in 0..0 |-> c]
  <1>1. path \in [0..0 -> Customers] /\ \A j \in 0..0 : path[j] = c
    OBVIOUS
  <1>2. 0 \in Nat /\ 0..0 = {0} /\ 1..0 = {}
    OBVIOUS
  <1>3. Way(mergedInto, c, c, 0, path)
    BY <1>1, <1>2 DEF Way
  <1>4. QED
    BY <1>2, <1>3 DEF Trail

\* A way along merges is no longer than there are customers.
LEMMA TrailLeads ==
  ASSUME NEW c \in Customers, NEW d \in Customers, Trail(mergedInto, c, d), mergedInto[d] = None
  PROVE  Leads(c, d, Cardinality(Customers))
  <1>1. PICK k \in Nat : \E path : Way(mergedInto, c, d, k, path)
    BY DEF Trail
  <1>2. PICK path : Way(mergedInto, c, d, k, path)
    BY <1>1
  <1>3. path \in Injection(0..k, Customers)
    BY <1>2 DEF Way, Injection, IsInjective
  <1>4. Cardinality(0..k) <= Cardinality(Customers) /\ IsFiniteSet(0..k)
    BY <1>3, FS_Injection, IdentityAssumption
  <1>5. Cardinality(0..k) = k + 1
    BY FS_Interval
  <1>6. k \in 0..Cardinality(Customers)
    BY <1>4, <1>5, FS_CardinalityType, IdentityAssumption
  <1>7. QED
    BY <1>2, <1>6 DEF Leads, Way

\* A merge of s, who was merged into nobody, into t, who is merged into nobody either,
\* makes every way that ended with s one step longer, and leaves the others alone.
LEMMA TrailGrows ==
  ASSUME TypeOK, NEW s \in Customers, NEW t \in Customers, s # t,
         mergedInto[s] = None, mergedInto[t] = None,
         mergedInto' = [mergedInto EXCEPT ![s] = t],
         NEW c \in Customers, NEW d \in Customers, Trail(mergedInto, c, d), mergedInto[d] = None
  PROVE  Trail(mergedInto', c, IF d = s THEN t ELSE d)
  <1>1. PICK k \in Nat : \E path : Way(mergedInto, c, d, k, path)
    BY DEF Trail
  <1>2. PICK path : Way(mergedInto, c, d, k, path)
    BY <1>1
  <1>3. \A j \in 1..k : path[j - 1] \in Customers /\ mergedInto[path[j - 1]] \in Customers
    <2>1. \A j \in 1..k : j - 1 \in 0..k /\ j \in 0..k
      BY <1>1
    <2>2. QED
      BY <1>2, <2>1 DEF Way
  <1>4. \A j \in 1..k : mergedInto'[path[j - 1]] = path[j]
    BY <1>2, <1>3, IdentityAssumption DEF Way, TypeOK
  <1>5. CASE d # s
    <2>1. Way(mergedInto', c, d, k, path)
      BY <1>2, <1>4 DEF Way
    <2>2. QED
      BY <1>5, <2>1 DEF Trail
  <1>6. CASE d = s
    <2> DEFINE n == k + 1
               longer == [j \in 0..n |-> IF j = n THEN t ELSE path[j]]
    <2>1. n \in Nat /\ n \in 0..n /\ 0..n = 0..k \cup {n} /\ n \notin 0..k /\ 0 \in 0..k /\ k \in 0..k
          /\ 1..n = 1..k \cup {n} /\ n - 1 = k /\ \A j \in 1..k : j - 1 \in 0..k /\ j \in 0..k
      BY <1>1
    <2>2. \A j \in 0..k : path[j] # t
      <3>1. ASSUME NEW j \in 0..k, path[j] = t PROVE FALSE
        <4>1. j # k
          BY <1>2, <1>6, <3>1 DEF Way
        <4>2. j + 1 \in 1..k /\ (j + 1) - 1 = j
          BY <1>1, <4>1
        <4>3. mergedInto[path[j]] \in Customers
          BY <1>3, <4>2
        <4>4. QED
          BY <3>1, <4>3, IdentityAssumption
      <3>2. QED
        BY <3>1
    <2>3. longer \in [0..n -> Customers]
      BY <1>2, <2>1 DEF Way
    <2>4. longer[n] = t /\ \A j \in 0..k : longer[j] = path[j]
      BY <2>1
    <2> HIDE DEF n, longer
    <2>5. \A j \in 1..n : mergedInto'[longer[j - 1]] = longer[j]
      <3>1. \A j \in 1..k : mergedInto'[longer[j - 1]] = longer[j]
        BY <1>4, <2>1, <2>4
      <3>2. mergedInto'[longer[n - 1]] = longer[n]
        BY <1>2, <1>6, <2>1, <2>4 DEF Way, TypeOK
      <3>3. QED
        BY <2>1, <3>1, <3>2
    <2>6. ASSUME NEW j \in 0..n, NEW l \in 0..n, longer[j] = longer[l] PROVE j = l
      <3>1. CASE j \in 0..k /\ l \in 0..k
        BY <1>2, <2>4, <2>6, <3>1 DEF Way
      <3>2. CASE j = n \/ l = n
        BY <2>1, <2>2, <2>4, <2>6, <3>2
      <3>3. QED
        BY <2>1, <3>1, <3>2
    <2>7. Way(mergedInto', c, t, n, longer)
      BY <1>2, <2>1, <2>3, <2>4, <2>5, <2>6 DEF Way
    <2>8. QED
      BY <1>6, <2>1, <2>7 DEF Trail
  <1>7. QED
    BY <1>5, <1>6

\* Each step keeps the way from a primary column to the one who proved it.
LEMMA NextProven == Base /\ MergeInv /\ ProvenInv /\ [Next]_vars => ProvenInv'
  <1> SUFFICES ASSUME Base, MergeInv, ProvenInv, [Next]_vars PROVE ProvenInv'
    OBVIOUS
  <1>1. TypeOK /\ RequestsOK /\ RowsExist
    BY DEF Base
  <1>2. ASSUME UNCHANGED rowVars, disturbed' \in BOOLEAN, disturbed => disturbed',
               \A r \in Requests : pc'[r] = "commit" /\ "owned" \in saw'[r] =>
                 \/ pc[r] = "commit" /\ "owned" \in saw[r] /\ UNCHANGED <<cust[r], arg[r]>>
                 \/ verified[arg'[r]] = cust'[r] /\ cust'[r] \in Customers
        PROVE  ProvenInv'
    <2>1. \A c, d \in Customers : Trail(mergedInto, c, d) => Trail(mergedInto', c, d)
      BY <1>2 DEF Trail, Way, rowVars
    <2>2. \A c \in Customers : \A i \in primary[c] \ Imported : verified[i] \in Customers
      BY <1>1 DEF ProvenInv, TypeOK
    <2>3. QED
      BY <1>1, <1>2, <2>1, <2>2, IdentityAssumption DEF ProvenInv, rowVars, TypeOK
  <1>3. ASSUME NEW r \in Requests, NEW i \in Identifiers, NEW c \in Customers, LoginResolve(r, i, c)
        PROVE  ProvenInv'
    BY <1>1, <1>2, <1>3 DEF LoginResolve, Goto, Reading, TypeOK, rowVars
  <1>4. ASSUME NEW r \in Requests,
               \/ \E i \in Identifiers : LoginUnknown(r, i)
               \/ \E c \in Customers : BlockRead(r, c) \/ UnblockRead(r, c)
               \/ \E c \in Customers, i \in Identifiers : LinkBegin(r, c, i)
               \/ \E c, d \in Customers : MergeRead(r, c, d)
               \/ MergeMove(r)
               \/ Abort(r)
        PROVE  ProvenInv'
    <2>1. UNCHANGED <<rowVars, disturbed>>
      BY <1>4 DEF LoginUnknown, BlockRead, UnblockRead, LinkBegin, MergeRead, MergeMove, Abort, history
    <2>2. \A p \in Requests : pc'[p] = "commit" => pc[p] = "commit" /\ UNCHANGED <<cust[p], arg[p], saw[p]>>
      BY <1>1, <1>4 DEF LoginUnknown, BlockRead, UnblockRead, LinkBegin, MergeRead, MergeMove, Abort, Goto, Return, TypeOK
    <2>3. QED
      BY <1>1, <1>2, <2>1, <2>2 DEF TypeOK
  <1>5. ASSUME NEW r \in Requests, LinkRead(r)
        PROVE  ProvenInv'
    <2>1. cust[r] \in Customers
      BY <1>1, <1>5 DEF LinkRead, RequestsOK
    <2>2. QED
      BY <1>1, <1>2, <1>5, <2>1 DEF LinkRead, Goto, Return, Reading, TypeOK, rowVars, history
  <1>6. ASSUME NEW r \in Requests, BlockWrite(r) \/ UnblockWrite(r)
        PROVE  ProvenInv'
    <2>1. UNCHANGED <<mergedInto, primary, verified, disturbed>>
      BY <1>6 DEF BlockWrite, UnblockWrite
    <2>2. \A p \in Requests : pc'[p] = "commit" => pc[p] = "commit" /\ UNCHANGED <<cust[p], arg[p], saw[p]>>
      BY <1>1, <1>6 DEF BlockWrite, UnblockWrite, Goto, Return, TypeOK
    <2>3. \A c, d \in Customers : Trail(mergedInto, c, d) => Trail(mergedInto', c, d)
      BY <2>1 DEF Trail, Way
    <2>4. \A c \in Customers : \A i \in primary[c] \ Imported : verified[i] \in Customers
      BY <1>1 DEF ProvenInv, TypeOK
    <2>5. QED
      BY <1>1, <2>1, <2>2, <2>3, <2>4 DEF ProvenInv, TypeOK
  <1>7. ASSUME NEW r \in Requests, Commit(r)
        PROVE  ProvenInv'
    <2>1. cust[r] \in Customers /\ arg[r] \in Identifiers /\ pc[r] = "commit"
      BY <1>1, <1>7 DEF Commit, RequestsOK
    <2>2. UNCHANGED <<mergedInto, disturbed>>
      BY <1>7 DEF Commit, history
    <2>3. /\ verified' \in [Identifiers -> Customers \cup {None}]
          /\ \A i \in Identifiers :
               verified'[i] = verified[i] \/ (i = arg[r] /\ verified[i] = None /\ verified'[i] = cust[r])
      BY <1>1, <1>7, <2>1 DEF Commit, Claim, ClaimFree, TypeOK
    <2>4. verified'[arg[r]] # None /\ (~disturbed => verified'[arg[r]] = cust[r])
      <3>1. CASE "owned" \in saw[r]
        BY <1>1, <1>7, <2>1, <3>1 DEF Commit, Claim, ProvenInv
      <3>2. CASE "owned" \notin saw[r]
        BY <1>1, <1>7, <2>1, <3>2, IdentityAssumption DEF Commit, Claim, TypeOK
      <3>3. QED
        BY <3>1, <3>2
    <2>5. /\ \A c \in Customers : primary'[c] \subseteq primary[c] \cup (IF c = cust[r] THEN {arg[r]} ELSE {})
          /\ \A c \in Customers : primary'[c] \subseteq Identifiers
      BY <1>1, <1>7, <2>1 DEF Commit, ActivateAndBackfill, Fill, TypeOK
    <2>6. \A p \in Requests : pc'[p] = "commit" => pc[p] = "commit" /\ UNCHANGED <<cust[p], arg[p], saw[p]>>
      BY <1>1, <1>7 DEF Commit, Goto, Return, TypeOK
    <2>7. \A c, d \in Customers : Trail(mergedInto, c, d) => Trail(mergedInto', c, d)
      BY <2>2 DEF Trail, Way
    <2>8. ASSUME NEW c \in Customers, NEW i \in primary'[c] \ Imported
          PROVE  verified'[i] # None /\ (~disturbed => Trail(mergedInto', c, verified'[i]))
      <3>1. i \in Identifiers
        BY <2>5
      <3>2. CASE i \in primary[c]
        <4>1. verified[i] # None /\ verified'[i] = verified[i] /\ verified[i] \in Customers
          BY <1>1, <2>3, <2>8, <3>1, <3>2 DEF ProvenInv, TypeOK
        <4>2. QED
          BY <2>7, <2>8, <3>2, <4>1 DEF ProvenInv
      <3>3. CASE i \notin primary[c]
        <4>1. c = cust[r] /\ i = arg[r]
          BY <2>5, <2>8, <3>3
        <4>2. Trail(mergedInto, c, c)
          BY TrailToOneself
        <4>3. QED
          BY <2>4, <2>7, <4>1, <4>2
      <3>4. QED
        BY <3>2, <3>3
    <2>9. ASSUME NEW p \in Requests, pc'[p] = "commit", "owned" \in saw'[p]
          PROVE  verified'[arg'[p]] # None /\ (~disturbed => verified'[arg'[p]] = cust'[p])
      <3>1. pc[p] = "commit" /\ "owned" \in saw[p] /\ arg'[p] = arg[p] /\ cust'[p] = cust[p]
        BY <2>6, <2>9
      <3>2. arg[p] \in Identifiers /\ verified[arg[p]] # None
        BY <1>1, <3>1 DEF RequestsOK, ProvenInv
      <3>3. verified'[arg[p]] = verified[arg[p]]
        BY <2>3, <3>2
      <3>4. QED
        BY <3>1, <3>2, <3>3 DEF ProvenInv
    <2>10. QED
      BY <2>2, <2>8, <2>9 DEF ProvenInv
  <1>8. ASSUME NEW r \in Requests, NEW n \in Customers, LoginCreate(r, n)
        PROVE  ProvenInv'
    <2>1. arg[r] \in Identifiers /\ pc[r] = "create"
      BY <1>1, <1>8 DEF LoginCreate, RequestsOK
    <2>2. UNCHANGED <<mergedInto, disturbed>>
      BY <1>8 DEF LoginCreate, history
    <2>3. verified[arg[r]] = None /\ verified'[arg[r]] = n
          /\ \A i \in Identifiers \ {arg[r]} : verified'[i] = verified[i]
      BY <1>1, <1>8, <2>1 DEF LoginCreate, ClaimFree, TypeOK
    <2>4. primary'[n] = {arg[r]} /\ \A c \in Customers \ {n} : primary'[c] = primary[c]
      BY <1>1, <1>8, <2>1 DEF LoginCreate, TypeOK
    <2>5. \A p \in Requests : pc'[p] = "commit" => pc[p] = "commit" /\ UNCHANGED <<cust[p], arg[p], saw[p]>>
      BY <1>1, <1>8 DEF LoginCreate, Goto, Return, TypeOK
    <2>6. \A c, d \in Customers : Trail(mergedInto, c, d) => Trail(mergedInto', c, d)
      BY <2>2 DEF Trail, Way
    <2>7. Trail(mergedInto, n, n)
      BY TrailToOneself
    <2>8. ASSUME NEW c \in Customers \ {n}, NEW i \in primary[c] \ Imported
          PROVE  verified'[i] # None /\ (~disturbed => Trail(mergedInto', c, verified'[i]))
      <3>1. i \in Identifiers /\ verified[i] # None /\ verified[i] \in Customers
        BY <1>1, <2>8 DEF TypeOK, ProvenInv
      <3>2. verified'[i] = verified[i]
        BY <2>3, <3>1
      <3>3. QED
        BY <2>6, <2>8, <3>1, <3>2 DEF ProvenInv
    <2>9. ASSUME NEW p \in Requests, pc'[p] = "commit", "owned" \in saw'[p]
          PROVE  verified'[arg'[p]] # None /\ (~disturbed => verified'[arg'[p]] = cust'[p])
      <3>1. pc[p] = "commit" /\ "owned" \in saw[p] /\ arg'[p] = arg[p] /\ cust'[p] = cust[p]
        BY <2>5, <2>9
      <3>2. arg[p] \in Identifiers /\ verified[arg[p]] # None
        BY <1>1, <3>1 DEF RequestsOK, ProvenInv
      <3>3. verified'[arg[p]] = verified[arg[p]]
        BY <2>3, <3>2
      <3>4. QED
        BY <3>1, <3>2, <3>3 DEF ProvenInv
    <2>10. \A i \in primary'[n] : verified'[i] = n /\ n # None
      BY <2>3, <2>4, IdentityAssumption
    <2>11. QED
      BY <2>2, <2>4, <2>6, <2>7, <2>8, <2>9, <2>10 DEF ProvenInv
  <1>9. ASSUME NEW r \in Requests, MergeCommit(r)
        PROVE  ProvenInv'
    <2> DEFINE s == cust[r]
               t == arg[r]
    <2>1. s \in Customers /\ t \in Customers /\ s # t /\ t # None /\ pc[r] = "moved"
      BY <1>1, <1>9, IdentityAssumption DEF MergeCommit, RequestsOK
    <2>2. UNCHANGED primary /\ mergedInto' = [mergedInto EXCEPT ![s] = t]
      BY <1>9 DEF MergeCommit
    <2>3. \A i \in Identifiers :
            /\ verified'[i] = IF i \in moving[r] THEN t ELSE verified[i]
            /\ i \in moving[r] => verified[i] = s
      BY <1>1, <1>9 DEF MergeCommit, Base, LocksOK
    <2>4. \A p \in Requests :
            pc'[p] = "commit" => p # r /\ pc[p] = "commit" /\ UNCHANGED <<cust[p], arg[p], saw[p]>>
      BY <1>1, <1>9 DEF MergeCommit, Goto, Return, TypeOK
    <2> HIDE DEF s, t
    <2>5. ASSUME ~disturbed'
          PROVE  /\ ~disturbed
                 /\ \A p \in Requests : p # r /\ pc[p] = "commit" => cust[p] # s
                 /\ mergedInto[s] = None /\ mergedInto[t] = None
                 /\ \A i \in Identifiers : verified[i] = s => i \in moving[r]
      <3>1. ~disturbed /\ Concerned(r, s) = {} /\ r \notin crossed
        BY <1>9, <2>5 DEF MergeCommit, s
      <3>2. Alive(s) /\ Alive(t)
        BY <2>1, <3>1 DEF MergeInv, s, t
      <3>3. mergedInto[s] = None /\ mergedInto[t] = None
        BY <2>1, <3>1, <3>2 DEF MergeInv, Alive
      <3>4. \A i \in Identifiers : verified[i] = s => i \in moving[r]
        BY <2>1, <3>1 DEF MergeInv, s
      <3>5. QED
        BY <3>1, <3>3, <3>4 DEF Concerned
    <2>6. ASSUME NEW c \in Customers, NEW i \in primary[c] \ Imported
          PROVE  verified'[i] # None /\ (~disturbed' => Trail(mergedInto', c, verified'[i]))
      <3>1. i \in Identifiers /\ verified[i] # None /\ verified[i] \in Customers
        BY <1>1, <2>6 DEF TypeOK, ProvenInv
      <3>2. PICK d \in Customers : d = verified[i]
        BY <3>1
      <3>3. verified'[i] \in {d, t} /\ (~disturbed' => verified'[i] = IF d = s THEN t ELSE d)
        BY <2>3, <2>5, <3>1, <3>2
      <3>4. ASSUME ~disturbed' PROVE Trail(mergedInto', c, IF d = s THEN t ELSE d)
        <4>1. Trail(mergedInto, c, d)
          BY <2>5, <2>6, <3>2, <3>4 DEF ProvenInv
        <4>2. mergedInto[d] = None
          BY <2>5, <3>1, <3>2, <3>4 DEF MergeInv, Alive
        <4>3. QED
          BY <1>1, <2>1, <2>2, <2>5, <3>4, <4>1, <4>2, TrailGrows
      <3>5. QED
        BY <2>1, <3>1, <3>2, <3>3, <3>4
    <2>7. ASSUME NEW p \in Requests, pc'[p] = "commit", "owned" \in saw'[p]
          PROVE  verified'[arg'[p]] # None /\ (~disturbed' => verified'[arg'[p]] = cust'[p])
      <3>1. pc[p] = "commit" /\ "owned" \in saw[p] /\ arg'[p] = arg[p] /\ cust'[p] = cust[p] /\ p # r
        BY <2>4, <2>7
      <3>2. arg[p] \in Identifiers /\ verified[arg[p]] # None
        BY <1>1, <3>1 DEF RequestsOK, ProvenInv
      <3>3. /\ verified'[arg[p]] \in {verified[arg[p]], t}
            /\ ~disturbed' => verified'[arg[p]] = IF verified[arg[p]] = s THEN t ELSE verified[arg[p]]
        BY <2>3, <2>5, <3>2
      <3>4. QED
        BY <2>1, <2>5, <3>1, <3>2, <3>3 DEF ProvenInv
    <2>8. QED
      BY <2>2, <2>6, <2>7 DEF ProvenInv
  <1>10. CASE UNCHANGED vars
    <2>1. UNCHANGED <<rowVars, reqVars, disturbed>>
      BY <1>10 DEF vars, history
    <2>2. QED
      BY <1>1, <1>2, <2>1 DEF reqVars, TypeOK
  <1>11. QED
    BY <1>3, <1>4, <1>5, <1>6, <1>7, <1>8, <1>9, <1>10 DEF Next, RequestStep

\* What an import did not bring into a primary column was proved, and the account that
\* has proved it is the one the holder was merged into, however many merges lie between
\* and whatever logins, links and blocks overlap, until a merge is disturbed (the comment
\* at Customer.primaryPhone, activateAndBackfill, AdminCustomerMergeService).
THEOREM PrimaryColumnsProven == Spec => []PrimaryIsProven
  <1>1. Init => MergeInv /\ ProvenInv
    <2>1. ASSUME Init PROVE MergeInv /\ ProvenInv
      <3>1. \A c \in Customers : primary[c] \ Imported = {}
        BY <2>1 DEF Init
      <3>2. QED
        BY <2>1, <3>1 DEF Init, MergeInv, ProvenInv
    <2>2. QED
      BY <2>1
  <1>2. Base /\ MergeInv /\ ProvenInv => PrimaryIsProven
    <2>1. ASSUME Base, MergeInv, ProvenInv, NEW c \in Customers, NEW i \in primary[c] \ Imported
          PROVE  /\ verified[i] # None
                 /\ ~disturbed => \E d \in Customers : \A e \in {verified[i], c} :
                                    Leads(e, d, Cardinality(Customers))
      <3>1. i \in Identifiers /\ verified[i] # None /\ verified[i] \in Customers
        BY <2>1 DEF Base, TypeOK, ProvenInv
      <3>2. PICK d \in Customers : d = verified[i]
        BY <3>1
      <3>3. ASSUME ~disturbed PROVE Leads(d, d, Cardinality(Customers)) /\ Leads(c, d, Cardinality(Customers))
        <4>1. mergedInto[d] = None
          BY <2>1, <3>1, <3>2, <3>3 DEF MergeInv, Alive
        <4>2. Trail(mergedInto, c, d) /\ Trail(mergedInto, d, d)
          BY <2>1, <3>2, <3>3, TrailToOneself DEF ProvenInv
        <4>3. QED
          BY <4>1, <4>2, TrailLeads
      <3>4. QED
        BY <3>1, <3>2, <3>3
    <2>2. QED
      BY <2>1 DEF PrimaryIsProven
  <1>3. QED
    BY <1>1, <1>2, NextMerge, NextProven, BaseInvariant, PTL DEF Spec
=============================================================================
