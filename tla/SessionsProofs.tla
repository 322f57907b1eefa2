--------------------------- MODULE SessionsProofs ---------------------------
(***************************************************************************)
(* Theorems about Sessions for any number of customers, tokens and         *)
(* concurrent requests.  The invariants are proved in layers: Base (types, *)
(* and what a request remembers is true of the rows) carries all others.   *)
(***************************************************************************)
EXTENDS Sessions, TLAPS

\* A row belongs to a family whose first row exists and has the same owner;
\* only existing rows are revoked, held or marked in the history.
RowsOK ==
  /\ \A t \in Tokens : owner[t] # None =>
       /\ family[t] \in Tokens
       /\ owner[family[t]] = owner[t]
       /\ family[family[t]] = family[t]
  /\ revoked \cup held \cup forked \subseteq Issued
  /\ \A f \in Tokens : burnt[f] # "no" => f \in Issued

\* What a request carries from one await to the next: the rows it read or
\* created exist, and belong together.
RequestsOK ==
  \A r \in Requests :
    /\ pc[r] \in {"issueLogin", "blockWrite", "blockRevoke", "unblockWrite", "mergeWrite"}
         => cust[r] \in Customers
    /\ pc[r] \in {"burn", "issueChild", "retire"}
         => tok[r] \in Issued /\ cust[r] = owner[tok[r]]
    /\ pc[r] = "retire"
         => /\ new[r] \in Issued /\ new[r] # tok[r]
            /\ owner[new[r]] = owner[tok[r]] /\ family[new[r]] = family[tok[r]]

Base == TypeOK /\ RowsOK /\ RequestsOK

-----------------------------------------------------------------------------
\* The empty table satisfies Base.
LEMMA InitBase == Init => Base
  BY NoneAssumption DEF Init, Base, TypeOK, RowsOK, RequestsOK, Issued, Statuses, Steps

\* Every step of a request, a logout, an administrator or a crash preserves Base.
LEMMA NextBase == Base /\ [Next]_vars => Base'
  <1> SUFFICES ASSUME Base, [Next]_vars PROVE Base'
    OBVIOUS
  <1> USE NoneAssumption DEF Base, TypeOK, RowsOK, RequestsOK, Issued, Statuses, Steps,
        Goto, Return, CreateRow, RevokeAll, rowVars, reqVars, history
  <1>1. ASSUME NEW r \in Requests, NEW c \in Customers, LoginBegin(r, c)
        PROVE  Base'
    BY <1>1 DEF LoginBegin
  <1>2. ASSUME NEW r \in Requests, NEW n \in Tokens, LoginIssue(r, n)
        PROVE  Base'
    BY <1>2 DEF LoginIssue
  <1>3. ASSUME NEW r \in Requests, NEW t \in Tokens, RotateReused(r, t)
        PROVE  Base'
    BY <1>3 DEF RotateReused
  <1>4. ASSUME NEW r \in Requests, RotateBurn(r)
        PROVE  Base'
    BY <1>4 DEF RotateBurn, RevokeFamily, FamilyRows
  <1>5. ASSUME NEW r \in Requests, NEW t \in Tokens, RotateAdmit(r, t)
        PROVE  Base'
    BY <1>5 DEF RotateAdmit
  <1>6. ASSUME NEW r \in Requests, NEW n \in Tokens, RotateIssue(r, n)
        PROVE  Base'
    BY <1>6 DEF RotateIssue, ChildFamily
  <1>7. ASSUME NEW r \in Requests, RotateRetire(r)
        PROVE  Base'
    BY <1>7 DEF RotateRetire, Retired, Successor
  <1>8. ASSUME NEW t \in Tokens, Logout(t)
        PROVE  Base'
    BY <1>8 DEF Logout
  <1>9. ASSUME NEW c \in Customers, NEW t \in Tokens, RevokeSession(c, t)
        PROVE  Base'
    BY <1>9 DEF RevokeSession, Live
  <1>10. ASSUME NEW c \in Customers, LogoutEverywhere(c)
         PROVE  Base'
    BY <1>10 DEF LogoutEverywhere, CustomerRows
  <1>11. ASSUME NEW r \in Requests, NEW c \in Customers, BlockRead(r, c)
         PROVE  Base'
    BY <1>11 DEF BlockRead
  <1>12. ASSUME NEW r \in Requests, BlockWrite(r)
         PROVE  Base'
    BY <1>12 DEF BlockWrite
  <1>13. ASSUME NEW r \in Requests, BlockRevoke(r)
         PROVE  Base'
    BY <1>13 DEF BlockRevoke, CustomerRows
  <1>14. ASSUME NEW r \in Requests, NEW c \in Customers, UnblockRead(r, c)
         PROVE  Base'
    BY <1>14 DEF UnblockRead
  <1>15. ASSUME NEW r \in Requests, UnblockWrite(r)
         PROVE  Base'
    BY <1>15 DEF UnblockWrite
  <1>16. ASSUME NEW r \in Requests, NEW c \in Customers, NEW d \in Customers,
                MergeRead(r, c, d)
         PROVE  Base'
    BY <1>16 DEF MergeRead
  <1>17. ASSUME NEW r \in Requests, MergeWrite(r)
         PROVE  Base'
    BY <1>17 DEF MergeWrite, CustomerRows
  <1>18. ASSUME NEW r \in Requests, Crash(r)
         PROVE  Base'
    BY <1>18 DEF Crash
  <1>19. CASE UNCHANGED vars
    BY <1>19 DEF vars
  <1>20. QED
    BY <1>1, <1>2, <1>3, <1>4, <1>5, <1>6, <1>7, <1>8, <1>9, <1>10, <1>11, <1>12,
       <1>13, <1>14, <1>15, <1>16, <1>17, <1>18, <1>19 DEF Next, RequestStep, CustomerStep,
       Refresh, SignOut, AdminStep

\* No step of login, rotation, logout, block, unblock or merge leaves the types of
\* the refresh_tokens rows, the statuses or what a request remembers.
THEOREM TypeCorrect == Spec => []TypeOK
  <1>1. Base => TypeOK
    BY DEF Base
  <1>2. QED
    BY InitBase, NextBase, <1>1, PTL DEF Spec

\* Base is an invariant, for the theorems below to rest on.
LEMMA BaseInvariant == Spec => []Base
  BY InitBase, NextBase, PTL DEF Spec

-----------------------------------------------------------------------------
(* Reuse detection: a family burnt while no rotation of it was past its    *)
(* check has neither a live row nor a request about to create one.         *)

QuietInv ==
  /\ QuietBurnIsFinal
  /\ \A f \in Tokens : burnt[f] = "quiet" => ~ChildPending(f)

\* A quietly burnt family stays without live rows and without a child on its way:
\* rotate() admits only live tokens, so nothing can start to create one.
LEMMA NextQuiet == Base /\ QuietInv /\ [Next]_vars => QuietInv'
  <1> SUFFICES ASSUME Base, QuietInv, [Next]_vars PROVE QuietInv'
    OBVIOUS
  <1> USE NoneAssumption DEF Base, TypeOK, RowsOK, RequestsOK, Issued, QuietInv,
        QuietBurnIsFinal, ChildPending, FamilyRows, CustomerRows, Goto, Return,
        CreateRow, RevokeAll, rowVars, reqVars, history
  <1>1. ASSUME NEW r \in Requests, NEW c \in Customers, LoginBegin(r, c)
        PROVE  QuietInv'
    BY <1>1 DEF LoginBegin, LoginAllowed
  <1>2. ASSUME NEW r \in Requests, NEW n \in Tokens, LoginIssue(r, n)
        PROVE  QuietInv'
    BY <1>2 DEF LoginIssue
  <1>3. ASSUME NEW r \in Requests, NEW t \in Tokens, RotateReused(r, t)
        PROVE  QuietInv'
    BY <1>3 DEF RotateReused
  <1>4. ASSUME NEW r \in Requests, RotateBurn(r)
        PROVE  QuietInv'
    BY <1>4 DEF RotateBurn, RevokeFamily
  <1>5. ASSUME NEW r \in Requests, NEW t \in Tokens, RotateAdmit(r, t)
        PROVE  QuietInv'
    BY <1>5 DEF RotateAdmit
  <1>6. ASSUME NEW r \in Requests, NEW n \in Tokens, RotateIssue(r, n)
        PROVE  QuietInv'
    BY <1>6 DEF RotateIssue, ChildFamily
  <1>7. ASSUME NEW r \in Requests, RotateRetire(r)
        PROVE  QuietInv'
    BY <1>7 DEF RotateRetire, Retired, Successor
  <1>8. ASSUME NEW t \in Tokens, Logout(t)
        PROVE  QuietInv'
    BY <1>8 DEF Logout
  <1>9. ASSUME NEW c \in Customers, NEW t \in Tokens, RevokeSession(c, t)
        PROVE  QuietInv'
    BY <1>9 DEF RevokeSession, Live
  <1>10. ASSUME NEW c \in Customers, LogoutEverywhere(c)
         PROVE  QuietInv'
    BY <1>10 DEF LogoutEverywhere
  <1>11. ASSUME NEW r \in Requests, NEW c \in Customers, BlockRead(r, c)
         PROVE  QuietInv'
    BY <1>11 DEF BlockRead
  <1>12. ASSUME NEW r \in Requests, BlockWrite(r)
         PROVE  QuietInv'
    BY <1>12 DEF BlockWrite
  <1>13. ASSUME NEW r \in Requests, BlockRevoke(r)
         PROVE  QuietInv'
    BY <1>13 DEF BlockRevoke
  <1>14. ASSUME NEW r \in Requests, NEW c \in Customers, UnblockRead(r, c)
         PROVE  QuietInv'
    BY <1>14 DEF UnblockRead
  <1>15. ASSUME NEW r \in Requests, UnblockWrite(r)
         PROVE  QuietInv'
    BY <1>15 DEF UnblockWrite
  <1>16. ASSUME NEW r \in Requests, NEW c \in Customers, NEW d \in Customers, MergeRead(r, c, d)
         PROVE  QuietInv'
    BY <1>16 DEF MergeRead
  <1>17. ASSUME NEW r \in Requests, MergeWrite(r)
         PROVE  QuietInv'
    BY <1>17 DEF MergeWrite
  <1>18. ASSUME NEW r \in Requests, Crash(r)
         PROVE  QuietInv'
    BY <1>18 DEF Crash
  <1>19. CASE UNCHANGED vars
    BY <1>19 DEF vars
  <1>20. QED
    BY <1>1, <1>2, <1>3, <1>4, <1>5, <1>6, <1>7, <1>8, <1>9, <1>10, <1>11,
       <1>12, <1>13, <1>14, <1>15, <1>16, <1>17, <1>18, <1>19 DEF Next,
       RequestStep, CustomerStep, Refresh, SignOut, AdminStep

\* Reuse detection of rotate(): after revokeFamily ran with no rotation of the family
\* past its check, no token of the family is ever usable again.
THEOREM ReuseDetection == Spec => []QuietBurnIsFinal
  <1>1. Init => QuietInv
    BY DEF Init, QuietInv, QuietBurnIsFinal, ChildPending
  <1>2. QuietInv => QuietBurnIsFinal
    BY DEF QuietInv
  <1>3. QED
    BY <1>1, <1>2, NextQuiet, BaseInvariant, PTL DEF Spec

-----------------------------------------------------------------------------
(* Block: a sealed customer has neither a live row nor a request about to  *)
(* create one; LoginAllowed and the status check of rotate() keep it so.   *)

SealInv ==
  /\ SealedCustomerHasNoSession
  /\ \A c \in sealed : ~IssuePending(c)

\* A sealed customer stays without live rows and without a row on its way: login and
\* rotate() both look at his status before they go on to create one.
LEMMA NextSeal == Base /\ SealInv /\ [Next]_vars => SealInv'
  <1> SUFFICES ASSUME Base, SealInv, [Next]_vars PROVE SealInv'
    OBVIOUS
  <1> USE NoneAssumption DEF Base, TypeOK, RowsOK, RequestsOK, Issued, SealInv,
        SealedCustomerHasNoSession, IssuePending, FamilyRows, CustomerRows, Goto,
        Return, CreateRow, RevokeAll, rowVars, reqVars, history
  <1>1. ASSUME NEW r \in Requests, NEW c \in Customers, LoginBegin(r, c)
        PROVE  SealInv'
    BY <1>1 DEF LoginBegin, LoginAllowed
  <1>2. ASSUME NEW r \in Requests, NEW n \in Tokens, LoginIssue(r, n)
        PROVE  SealInv'
    BY <1>2 DEF LoginIssue
  <1>3. ASSUME NEW r \in Requests, NEW t \in Tokens, RotateReused(r, t)
        PROVE  SealInv'
    BY <1>3 DEF RotateReused
  <1>4. ASSUME NEW r \in Requests, RotateBurn(r)
        PROVE  SealInv'
    BY <1>4 DEF RotateBurn, RevokeFamily
  <1>5. ASSUME NEW r \in Requests, NEW t \in Tokens, RotateAdmit(r, t)
        PROVE  SealInv'
    BY <1>5 DEF RotateAdmit
  <1>6. ASSUME NEW r \in Requests, NEW n \in Tokens, RotateIssue(r, n)
        PROVE  SealInv'
    BY <1>6 DEF RotateIssue, ChildFamily
  <1>7. ASSUME NEW r \in Requests, RotateRetire(r)
        PROVE  SealInv'
    BY <1>7 DEF RotateRetire, Retired, Successor
  <1>8. ASSUME NEW t \in Tokens, Logout(t)
        PROVE  SealInv'
    BY <1>8 DEF Logout
  <1>9. ASSUME NEW c \in Customers, NEW t \in Tokens, RevokeSession(c, t)
        PROVE  SealInv'
    BY <1>9 DEF RevokeSession, Live
  <1>10. ASSUME NEW c \in Customers, LogoutEverywhere(c)
         PROVE  SealInv'
    BY <1>10 DEF LogoutEverywhere
  <1>11. ASSUME NEW r \in Requests, NEW c \in Customers, BlockRead(r, c)
         PROVE  SealInv'
    BY <1>11 DEF BlockRead
  <1>12. ASSUME NEW r \in Requests, BlockWrite(r)
         PROVE  SealInv'
    BY <1>12 DEF BlockWrite
  <1>13. ASSUME NEW r \in Requests, BlockRevoke(r)
         PROVE  SealInv'
    BY <1>13 DEF BlockRevoke
  <1>14. ASSUME NEW r \in Requests, NEW c \in Customers, UnblockRead(r, c)
         PROVE  SealInv'
    BY <1>14 DEF UnblockRead
  <1>15. ASSUME NEW r \in Requests, UnblockWrite(r)
         PROVE  SealInv'
    BY <1>15 DEF UnblockWrite
  <1>16. ASSUME NEW r \in Requests, NEW c \in Customers, NEW d \in Customers, MergeRead(r, c, d)
         PROVE  SealInv'
    BY <1>16 DEF MergeRead
  <1>17. ASSUME NEW r \in Requests, MergeWrite(r)
         PROVE  SealInv'
    BY <1>17 DEF MergeWrite
  <1>18. ASSUME NEW r \in Requests, Crash(r)
         PROVE  SealInv'
    BY <1>18 DEF Crash
  <1>19. CASE UNCHANGED vars
    BY <1>19 DEF vars
  <1>20. QED
    BY <1>1, <1>2, <1>3, <1>4, <1>5, <1>6, <1>7, <1>8, <1>9, <1>10, <1>11,
       <1>12, <1>13, <1>14, <1>15, <1>16, <1>17, <1>18, <1>19 DEF Next,
       RequestStep, CustomerStep, Refresh, SignOut, AdminStep

\* block() ends sessions: a customer blocked with no login or rotation of his in flight
\* has no usable refresh token until he is unblocked or merged.
THEOREM BlockEndsSessions == Spec => []SealedCustomerHasNoSession
  <1>1. Init => SealInv
    BY DEF Init, SealInv, SealedCustomerHasNoSession, IssuePending
  <1>2. SealInv => SealedCustomerHasNoSession
    BY DEF SealInv
  <1>3. QED
    BY <1>1, <1>2, NextSeal, BaseInvariant, PTL DEF Spec

-----------------------------------------------------------------------------
(* Rotation: in a family that never forked, at most one rotation is under  *)
(* way, and the live rows are at most the one it presented and the one it  *)
(* created; with none under way there is at most one live row.             *)

RotatingOf(r, f) == pc[r] \in {"issueChild", "retire"} /\ family[tok[r]] = f

LinearInv ==
  \A f \in Tokens \ forked :
    /\ \A r, q \in Requests : RotatingOf(r, f) /\ RotatingOf(q, f) => r = q
    /\ \A r \in Requests : RotatingOf(r, f) =>
         \A t \in Live : family[t] = f =>
           t = tok[r] \/ (pc[r] = "retire" /\ t = new[r])
    /\ (~\E r \in Requests : RotatingOf(r, f)) =>
         \A t, u \in Live : family[t] = f /\ family[u] = f => t = u

\* Each step keeps a family that has not forked down to one rotation and one live row.
LEMMA NextLinear == Base /\ LinearInv /\ [Next]_vars => LinearInv'
  <1> SUFFICES ASSUME Base, LinearInv, [Next]_vars PROVE LinearInv'
    OBVIOUS
  <1> USE NoneAssumption DEF Base, TypeOK, RowsOK, RequestsOK, Issued, Live, LinearInv,
        RotatingOf, Rotating, FamilyRows, CustomerRows, Goto, Return, CreateRow,
        RevokeAll, rowVars, reqVars, history
  <1>1. ASSUME NEW r \in Requests, NEW c \in Customers, LoginBegin(r, c)
        PROVE  LinearInv'
    BY <1>1 DEF LoginBegin, LoginAllowed
  <1>2. ASSUME NEW r \in Requests, NEW n \in Tokens, LoginIssue(r, n)
        PROVE  LinearInv'
    <2> USE DEF LoginIssue
    <2>1. /\ owner[n] = None /\ n \notin revoked /\ n \notin forked
          /\ \A t \in Issued : family[t] # n /\ t # n
      BY <1>2
    <2>2. /\ Live' = Live \cup {n} /\ family'[n] = n /\ UNCHANGED forked
          /\ \A t \in Live : family'[t] = family[t] /\ family[t] # n
      BY <1>2, <2>1
    <2>3. ASSUME NEW f \in Tokens, NEW q \in Requests
          PROVE  /\ RotatingOf(q, f)' <=> RotatingOf(q, f)
                 /\ RotatingOf(q, f) =>
                      f # n /\ tok'[q] = tok[q] /\ pc'[q] = pc[q] /\ new'[q] = new[q]
      BY <1>2, <2>1
    <2> HIDE DEF RotatingOf, Live, LoginIssue, Issued
    <2>4. QED
      BY <2>2, <2>3
  <1>3. ASSUME NEW r \in Requests, NEW t \in Tokens, RotateReused(r, t)
        PROVE  LinearInv'
    BY <1>3 DEF RotateReused
  <1>4. ASSUME NEW r \in Requests, RotateBurn(r)
        PROVE  LinearInv'
    <2> USE DEF RotateBurn, RevokeFamily
    <2>1. Live' = {t \in Live : family[t] # family[tok[r]]}
      BY <1>4
    <2>2. ASSUME NEW f \in Tokens, NEW q \in Requests
          PROVE  /\ RotatingOf(q, f)' <=> RotatingOf(q, f)
                 /\ RotatingOf(q, f) =>
                      tok'[q] = tok[q] /\ pc'[q] = pc[q] /\ new'[q] = new[q]
      BY <1>4
    <2> HIDE DEF RotatingOf, Live, Issued
    <2>3. QED
      BY <1>4, <2>1, <2>2
  <1>5. ASSUME NEW r \in Requests, NEW t \in Tokens, RotateAdmit(r, t)
        PROVE  LinearInv'
    BY <1>5 DEF RotateAdmit
  <1>6. ASSUME NEW r \in Requests, NEW n \in Tokens, RotateIssue(r, n)
        PROVE  LinearInv'
    <2> USE DEF RotateIssue, ChildFamily
    <2>1. /\ owner[n] = None /\ n \notin revoked /\ n \notin forked
          /\ \A t \in Issued : family[t] # n /\ t # n
          /\ tok[r] \in Issued /\ family[tok[r]] \in Tokens
          /\ RotatingOf(r, family[tok[r]])
      BY <1>6
    <2>2. /\ Live' = Live \cup {n} /\ family'[n] = family[tok[r]]
          /\ \A t \in Live : family'[t] = family[t]
          /\ pc'[r] = "retire" /\ tok'[r] = tok[r] /\ new'[r] = n
          /\ UNCHANGED forked
      BY <1>6, <2>1
    <2>3. ASSUME NEW f \in Tokens, NEW q \in Requests
          PROVE  /\ RotatingOf(q, f)' <=> RotatingOf(q, f)
                 /\ RotatingOf(q, f) /\ q # r =>
                      tok'[q] = tok[q] /\ pc'[q] = pc[q] /\ new'[q] = new[q]
                 /\ RotatingOf(r, f) <=> f = family[tok[r]]
      BY <1>6, <2>1
    <2>4. pc[r] = "issueChild"
      BY <1>6
    <2> HIDE DEF RotatingOf, Live, Issued, RotateIssue
    <2>5. QED
      BY <2>1, <2>2, <2>3, <2>4
  <1>7. ASSUME NEW r \in Requests, RotateRetire(r)
        PROVE  LinearInv'
    BY <1>7 DEF RotateRetire, Retired, Successor
  <1>8. ASSUME NEW t \in Tokens, Logout(t)
        PROVE  LinearInv'
    BY <1>8 DEF Logout
  <1>9. ASSUME NEW c \in Customers, NEW t \in Tokens, RevokeSession(c, t)
        PROVE  LinearInv'
    BY <1>9 DEF RevokeSession, Live
  <1>10. ASSUME NEW c \in Customers, LogoutEverywhere(c)
         PROVE  LinearInv'
    BY <1>10 DEF LogoutEverywhere
  <1>11. ASSUME NEW r \in Requests, NEW c \in Customers, BlockRead(r, c)
         PROVE  LinearInv'
    BY <1>11 DEF BlockRead
  <1>12. ASSUME NEW r \in Requests, BlockWrite(r)
         PROVE  LinearInv'
    BY <1>12 DEF BlockWrite
  <1>13. ASSUME NEW r \in Requests, BlockRevoke(r)
         PROVE  LinearInv'
    BY <1>13 DEF BlockRevoke
  <1>14. ASSUME NEW r \in Requests, NEW c \in Customers, UnblockRead(r, c)
         PROVE  LinearInv'
    BY <1>14 DEF UnblockRead
  <1>15. ASSUME NEW r \in Requests, UnblockWrite(r)
         PROVE  LinearInv'
    BY <1>15 DEF UnblockWrite
  <1>16. ASSUME NEW r \in Requests, NEW c \in Customers, NEW d \in Customers, MergeRead(r, c, d)
         PROVE  LinearInv'
    BY <1>16 DEF MergeRead
  <1>17. ASSUME NEW r \in Requests, MergeWrite(r)
         PROVE  LinearInv'
    BY <1>17 DEF MergeWrite
  <1>18. ASSUME NEW r \in Requests, Crash(r)
         PROVE  LinearInv'
    BY <1>18 DEF Crash
  <1>19. CASE UNCHANGED vars
    BY <1>19 DEF vars
  <1>20. QED
    BY <1>1, <1>2, <1>3, <1>4, <1>5, <1>6, <1>7, <1>8, <1>9, <1>10, <1>11,
       <1>12, <1>13, <1>14, <1>15, <1>16, <1>17, <1>18, <1>19 DEF Next,
       RequestStep, CustomerStep, Refresh, SignOut, AdminStep

\* The inductive form implies the property the runs check.
LEMMA LinearIsEnough == Base /\ LinearInv => RotationIsLinear
  BY DEF Base, RowsOK, LinearInv, RotatingOf, RotationIsLinear, Live, Issued

\* Rotation by rotate() keeps one usable token in each family whose rotations neither
\* overlapped nor died between issuePair and the update that retires the old token.
THEOREM RotationKeepsOneToken == Spec => []RotationIsLinear
  <1>1. Init => LinearInv
    BY DEF Init, LinearInv, RotatingOf, Live, Issued
  <1>2. QED
    BY <1>1, NextLinear, LinearIsEnough, BaseInvariant, PTL DEF Spec

-----------------------------------------------------------------------------
(* Refinement: every step of Sessions is a step of TokenLifecycle or leaves *)
(* the rows alone.                                                         *)

\* An updateMany that sets revokedAt on existing rows is a step Die of TokenLifecycle.
LEMMA RevocationRefines ==
  ASSUME Base, NEW S \in SUBSET Issued, RevokeAll(S), UNCHANGED <<owner, family, replacedBy>>
  PROVE  Lifecycle!Next
  <1>1. S \in SUBSET Tokens /\ Lifecycle!Die(S)
    BY DEF Lifecycle!Die, Lifecycle!Issued, Issued, RevokeAll
  <1>2. QED
    BY <1>1 DEF Lifecycle!Next

\* Every step of Sessions is a step of TokenLifecycle or leaves the rows alone.
LEMMA NextRows == Base /\ [Next]_vars => [Lifecycle!Next]_(Lifecycle!rows)
  <1> SUFFICES ASSUME Base, [Next]_vars PROVE [Lifecycle!Next]_(Lifecycle!rows)
    OBVIOUS
  <1> DEFINE Refined == [Lifecycle!Next]_(Lifecycle!rows)
  <1> USE NoneAssumption DEF Base, TypeOK, RowsOK, RequestsOK, Issued, FamilyRows,
        CustomerRows, CreateRow, RevokeAll, rowVars, Lifecycle!Next, Lifecycle!rows,
        Lifecycle!Appear, Lifecycle!Die, Lifecycle!Succeed, Lifecycle!Issued
  <1>1. ASSUME NEW r \in Requests, NEW c \in Customers, LoginBegin(r, c)
        PROVE  Refined
    BY <1>1 DEF LoginBegin, LoginAllowed
  <1>2. ASSUME NEW r \in Requests, NEW n \in Tokens, LoginIssue(r, n)
        PROVE  Refined
    BY <1>2 DEF LoginIssue
  <1>3. ASSUME NEW r \in Requests, NEW t \in Tokens, RotateReused(r, t)
        PROVE  Refined
    BY <1>3 DEF RotateReused
  <1>4. ASSUME NEW r \in Requests, RotateBurn(r)
        PROVE  Refined
    <2>1. /\ FamilyRows(family[tok[r]]) \in SUBSET Issued
          /\ RevokeAll(FamilyRows(family[tok[r]]))
          /\ UNCHANGED <<owner, family, replacedBy>>
      BY <1>4 DEF RotateBurn, RevokeFamily
    <2>2. QED
      BY <2>1, RevocationRefines
  <1>5. ASSUME NEW r \in Requests, NEW t \in Tokens, RotateAdmit(r, t)
        PROVE  Refined
    BY <1>5 DEF RotateAdmit
  <1>6. ASSUME NEW r \in Requests, NEW n \in Tokens, RotateIssue(r, n)
        PROVE  Refined
    <2>1. Lifecycle!Appear(n, cust[r], family[tok[r]])
      BY <1>6 DEF RotateIssue, ChildFamily
    <2>2. cust[r] \in Customers /\ family[tok[r]] \in Tokens
      BY <1>6 DEF RotateIssue
    <2>3. QED
      BY <2>1, <2>2
  <1>7. ASSUME NEW r \in Requests, RotateRetire(r)
        PROVE  Refined
    <2>1. Lifecycle!Succeed(tok[r], new[r]) /\ tok[r] \in Tokens /\ new[r] \in Tokens
      BY <1>7 DEF RotateRetire, Retired, Successor
    <2>2. QED
      BY <2>1
  <1>8. ASSUME NEW t \in Tokens, Logout(t)
        PROVE  Refined
    <2>1. /\ {t} \in SUBSET Issued
          /\ RevokeAll({t})
          /\ UNCHANGED <<owner, family, replacedBy>>
      BY <1>8 DEF Logout
    <2>2. QED
      BY <2>1, RevocationRefines
  <1>9. ASSUME NEW c \in Customers, NEW t \in Tokens, RevokeSession(c, t)
        PROVE  Refined
    <2>1. /\ {t} \in SUBSET Issued
          /\ RevokeAll({t})
          /\ UNCHANGED <<owner, family, replacedBy>>
      BY <1>9 DEF RevokeSession, Live
    <2>2. QED
      BY <2>1, RevocationRefines
  <1>10. ASSUME NEW c \in Customers, LogoutEverywhere(c)
         PROVE  Refined
    <2>1. /\ CustomerRows(c) \in SUBSET Issued
          /\ RevokeAll(CustomerRows(c))
          /\ UNCHANGED <<owner, family, replacedBy>>
      BY <1>10 DEF LogoutEverywhere
    <2>2. QED
      BY <2>1, RevocationRefines
  <1>11. ASSUME NEW r \in Requests, NEW c \in Customers, BlockRead(r, c)
         PROVE  Refined
    BY <1>11 DEF BlockRead
  <1>12. ASSUME NEW r \in Requests, BlockWrite(r)
         PROVE  Refined
    BY <1>12 DEF BlockWrite
  <1>13. ASSUME NEW r \in Requests, BlockRevoke(r)
         PROVE  Refined
    <2>1. /\ CustomerRows(cust[r]) \in SUBSET Issued
          /\ RevokeAll(CustomerRows(cust[r]))
          /\ UNCHANGED <<owner, family, replacedBy>>
      BY <1>13 DEF BlockRevoke
    <2>2. QED
      BY <2>1, RevocationRefines
  <1>14. ASSUME NEW r \in Requests, NEW c \in Customers, UnblockRead(r, c)
         PROVE  Refined
    BY <1>14 DEF UnblockRead
  <1>15. ASSUME NEW r \in Requests, UnblockWrite(r)
         PROVE  Refined
    BY <1>15 DEF UnblockWrite
  <1>16. ASSUME NEW r \in Requests, NEW c \in Customers, NEW d \in Customers, MergeRead(r, c, d)
         PROVE  Refined
    BY <1>16 DEF MergeRead
  <1>17. ASSUME NEW r \in Requests, MergeWrite(r)
         PROVE  Refined
    <2>1. /\ CustomerRows(cust[r]) \in SUBSET Issued
          /\ RevokeAll(CustomerRows(cust[r]))
          /\ UNCHANGED <<owner, family, replacedBy>>
      BY <1>17 DEF MergeWrite
    <2>2. QED
      BY <2>1, RevocationRefines
  <1>18. ASSUME NEW r \in Requests, Crash(r)
         PROVE  Refined
    BY <1>18 DEF Crash
  <1>19. CASE UNCHANGED vars
    BY <1>19 DEF vars
  <1>20. QED
    BY <1>1, <1>2, <1>3, <1>4, <1>5, <1>6, <1>7, <1>8, <1>9, <1>10, <1>11,
       <1>12, <1>13, <1>14, <1>15, <1>16, <1>17, <1>18, <1>19 DEF Next,
       RequestStep, CustomerStep, Refresh, SignOut, AdminStep

\* TokenService and its callers implement TokenLifecycle: rows never change owner or
\* family, never come back to life, and succeed each other only within a family.
THEOREM Refinement == Spec => RowsAreLifecycle
  <1>1. Init => Lifecycle!Init
    BY DEF Init, Lifecycle!Init
  <1>2. QED
    BY <1>1, NextRows, BaseInvariant, PTL DEF Spec, RowsAreLifecycle, Lifecycle!Spec
=============================================================================
