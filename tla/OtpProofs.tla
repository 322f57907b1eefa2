------------------------------ MODULE OtpProofs ------------------------------
(***************************************************************************)
(* Proofs about module Otp, for every number of requests, codes, attempts  *)
(* and sends: the types, that issue() leaves one pending code, and what    *)
(* the caps of attempts, of uses and of sends promise when requests        *)
(* overlap.                                                                *)
(*                                                                         *)
(* Each cap is kept by counting what is in flight with what has been       *)
(* done: a guess being compared with the attempts, an answer under way     *)
(* with the uses, an admitted request with the sends.                      *)
(***************************************************************************)
EXTENDS Otp, FiniteSetTheorems, TLAPS

(***************************************************************************)
(* Types                                                                   *)
(***************************************************************************)

\* What a request was called with: an issue in flight has a purpose.
GoalOK ==
  \A r \in Requests : pc[r] \in {"hit", "supersede", "store"} => goal[r] \in Purposes

Typed == TypeOK /\ GoalOK

\* The requests in any set of them are finitely many, and no more than there are.
LEMMA CountOfRequests ==
  ASSUME NEW S \in SUBSET Requests
  PROVE  /\ IsFiniteSet(S)
         /\ Cardinality(S) \in Nat /\ Cardinality(Requests) \in Nat
         /\ Cardinality(S) <= Cardinality(Requests)
  BY OtpAssumption, FS_Subset, FS_CardinalityType

\* With fewer requests in a set there is no more to count.
LEMMA CountShrinks ==
  ASSUME NEW S \in SUBSET Requests, NEW T \in SUBSET S
  PROVE  Cardinality(T) <= Cardinality(S)
  BY CountOfRequests, FS_Subset

\* A request that leaves a set makes it smaller by one.
LEMMA CountLeaves ==
  ASSUME NEW S \in SUBSET Requests, NEW r \in S
  PROVE  Cardinality(S \ {r}) = Cardinality(S) - 1
  BY CountOfRequests, FS_RemoveElement

\* A request that joins a set makes it larger by at most one.
LEMMA CountJoins ==
  ASSUME NEW S \in SUBSET Requests, NEW r \in Requests
  PROVE  Cardinality(S \cup {r}) <= Cardinality(S) + 1
  <1>1. IsFiniteSet(S) /\ Cardinality(S) \in Nat
    BY CountOfRequests
  <1>2. QED
    BY <1>1, FS_AddElement

\* Going on with what it was called for, and with rows there are, keeps a request's types.
LEMMA GotoTyped ==
  ASSUME Typed, NEW r \in Requests, NEW step \in Steps,
         NEW p \in Purposes \cup {None}, NEW s \in SUBSET Rows,
         step \in {"hit", "supersede", "store"} => p \in Purposes,
         Goto(r, step, p, s)
  PROVE  /\ pc' \in [Requests -> Steps]
         /\ goal' \in [Requests -> Purposes \cup {None}]
         /\ seen' \in [Requests -> SUBSET Rows]
         /\ GoalOK'
  BY DEF Typed, TypeOK, GoalOK, Goto

\* A step of issue(), verify(), the clock or the administrator keeps the types.
LEMMA TypedStep ==
  ASSUME Typed, [Next]_vars
  PROVE  Typed'
  <1> USE DEF Typed, TypeOK, GoalOK
  <1> USE DEF rowVars, limits, reqVars, history, Goto, Proceed, Return, Steps, RowIds, Rows
  <1>0. /\ MaxAttempts \in Nat /\ IdMax \in Nat /\ MaxRows \in Nat
        /\ None \notin Purposes
    BY OtpAssumption
  <1>1. ASSUME NEW r \in Requests, NEW p \in Purposes, IssueCooldown(r, p) PROVE Typed'
    BY <1>0, <1>1 DEF IssueCooldown, KeyPurposes
  <1>2. ASSUME NEW r \in Requests, IssueHit(r) PROVE Typed'
    <2>1. idHits' \in 0..(IdMax + 1)
      BY <1>0, <1>2 DEF IssueHit, Incr
    <2>2. QED
      BY <1>0, <1>2, <2>1 DEF IssueHit
  <1>3. ASSUME NEW r \in Requests, IssueSupersede(r) PROVE Typed'
    BY <1>0, <1>3 DEF IssueSupersede, Superseded, Pending
  <1>4. ASSUME NEW r \in Requests, IssueStore(r) PROVE Typed'
    <2>1. rows' \in 0..MaxRows /\ Rows \subseteq Rows'
      BY <1>0, <1>4 DEF IssueStore
    <2>2. goal[r] \in Purposes /\ seen[r] \subseteq Rows
      BY <1>4 DEF IssueStore
    <2>3. /\ pc' \in [Requests -> Steps] /\ GoalOK'
          /\ goal' \in [Requests -> Purposes \cup {None}]
          /\ seen' \in [Requests -> SUBSET Rows]
      BY <1>4, <2>2, GotoTyped DEF IssueStore
    <2>4. purpose' \in [RowIds -> Purposes \cup {None}] /\ dead' \subseteq Rows
      BY <1>0, <1>4, <2>2 DEF IssueStore
    <2>5. QED
      BY <1>0, <1>4, <2>1, <2>3, <2>4 DEF IssueStore
  <1>5. ASSUME NEW r \in Requests, IssueSend(r) PROVE Typed'
    BY <1>0, <1>5 DEF IssueSend
  <1>6. ASSUME NEW r \in Requests, NEW p \in Purposes, NEW k \in Rows, NEW code \in 0..rows,
               VerifyRead(r, p, k, code)
        PROVE  Typed'
    <2>1. UNCHANGED <<rowVars, limits, history>>
      BY <1>6 DEF VerifyRead
    <2>2. PICK step \in {"giveUp", "wrong", "accept"} : Goto(r, step, p, {k})
      BY <1>6 DEF VerifyRead
    <2>3. /\ pc' \in [Requests -> Steps] /\ GoalOK'
          /\ goal' \in [Requests -> Purposes \cup {None}]
          /\ seen' \in [Requests -> SUBSET Rows]
      BY <2>2, GotoTyped
    <2>4. QED
      BY <2>1, <2>3
  <1>7. ASSUME NEW r \in Requests, NEW k \in Rows, VerifyWrong(r, k) PROVE Typed'
    <2>1. attempts' \in [RowIds -> Nat] /\ capped' \subseteq Rows
      <3>1. attempts' = [attempts EXCEPT ![k] = @ + 1] /\ k \in RowIds
        BY <1>0, <1>7 DEF VerifyWrong
      <3>2. capped' \in {capped, capped \cup {k}}
        BY <1>7 DEF VerifyWrong
      <3>3. attempts' \in [RowIds -> Nat]
        BY <3>1
      <3>4. QED
        BY <3>2, <3>3
    <2>2. CASE Goto(r, "giveUp", goal[r], seen[r])
      BY <1>0, <1>7, <2>1, <2>2 DEF VerifyWrong
    <2>3. CASE Goto(r, "idle", None, {})
      BY <1>0, <1>7, <2>1, <2>3 DEF VerifyWrong
    <2>4. QED
      BY <1>7, <2>2, <2>3 DEF VerifyWrong
  <1>8. ASSUME NEW r \in Requests, NEW k \in Rows, VerifyAccept(r, k) PROVE Typed'
    BY <1>0, <1>8 DEF VerifyAccept, AcceptedRows
  <1>9. ASSUME NEW r \in Requests, VerifyGiveUp(r) PROVE Typed'
    BY <1>0, <1>9 DEF VerifyGiveUp
  <1>10. ASSUME NEW r \in Requests, Crash(r) PROVE Typed'
    BY <1>0, <1>10 DEF Crash
  <1>11. ASSUME NEW k \in Rows, Expire(k) PROVE Typed'
    BY <1>0, <1>11 DEF Expire
  <1>12. ASSUME NEW p \in Purposes, CooldownEnds(p) PROVE Typed'
    BY <1>0, <1>12 DEF CooldownEnds
  <1>13. CASE IdWindowEnds \/ ResetOtpLimits
    <2>1. Cardinality(Admitted) \in Nat
      BY CountOfRequests DEF Admitted
    <2>2. idHits' = 0 /\ quota' \in Int
      BY <1>0, <1>13, <2>1 DEF IdWindowEnds, ResetOtpLimits, OpenWindow
    <2>3. UNCHANGED <<rowVars, reqVars, used, capped, overlapped>> /\ cooldown' \in {{}, cooldown}
      BY <1>13 DEF IdWindowEnds, ResetOtpLimits
    <2>4. QED
      BY <1>0, <2>2, <2>3
  <1>14. CASE UNCHANGED vars
    BY <1>14 DEF vars
  <1>15. QED
    BY <1>1, <1>2, <1>3, <1>4, <1>5, <1>6, <1>7, <1>8, <1>9, <1>10, <1>11, <1>12, <1>13, <1>14
       DEF Next, RequestStep

\* The initial state has the types.
LEMMA TypedInit == Init => Typed
  BY OtpAssumption DEF Init, Typed, TypeOK, GoalOK, Steps, RowIds, Rows

\* Every state of issue() and verify() has the types.
LEMMA AlwaysTyped == Spec => []Typed
  <1>1. Typed /\ [Next]_vars => Typed'
    BY TypedStep
  <1>2. QED
    BY <1>1, TypedInit, PTL DEF Spec

\* The variables keep their types, whatever requests of OtpService overlap.
THEOREM TypeCorrect == Spec => []TypeOK
  <1>1. Typed => TypeOK
    BY DEF Typed
  <1>2. QED
    BY <1>1, AlwaysTyped, PTL

(***************************************************************************)
(* One pending code                                                        *)
(***************************************************************************)

\* For a purpose whose issues did not overlap: one issue at a time; one that is about to
\* store has marked every code that is pending; and no two codes are pending.
OneIssue == \A p \in Purposes \ overlapped : \A q, r \in Issuing(p) : q = r

NothingMissed ==
  \A r \in Requests : pc[r] = "store" /\ goal[r] \notin overlapped => Pending(goal[r]) \subseteq seen[r]

PendingInv == OneIssue /\ NothingMissed /\ OnePendingCode

\* A request that does not start to issue, nor comes to store, leaves who does alone.
LEMMA OthersIssue ==
  ASSUME Typed, PendingInv, overlapped' = overlapped,
         \A p \in Purposes : Pending(p)' \subseteq Pending(p),
         \A r \in Requests : pc'[r] \in {"hit", "supersede", "store"} =>
           /\ pc[r] \in {"hit", "supersede", "store"} /\ goal'[r] = goal[r]
           /\ pc'[r] = "store" => pc[r] = "store" /\ seen'[r] = seen[r]
  PROVE  PendingInv'
  <1>1. \A p \in Purposes : Issuing(p)' \subseteq Issuing(p)
    BY DEF Issuing
  <1>2. OneIssue' /\ OnePendingCode'
    BY <1>1 DEF PendingInv, OneIssue, OnePendingCode
  <1>3. NothingMissed'
    BY DEF PendingInv, NothingMissed, Typed, GoalOK
  <1>4. QED
    BY <1>2, <1>3 DEF PendingInv

\* A step keeps one pending code for each purpose whose issues did not overlap.
LEMMA PendingStep ==
  ASSUME Typed, PendingInv, [Next]_vars
  PROVE  PendingInv'
  <1>0. /\ pc \in [Requests -> Steps] /\ goal \in [Requests -> Purposes \cup {None}]
        /\ seen \in [Requests -> SUBSET Rows] /\ GoalOK
        /\ purpose \in [RowIds -> Purposes \cup {None}] /\ rows \in Nat /\ dead \subseteq Rows
    BY OtpAssumption DEF Typed, TypeOK
  <1>1. ASSUME NEW r \in Requests, NEW p \in Purposes, IssueCooldown(r, p) PROVE PendingInv'
    <2>1. \A c \in Purposes : Pending(c)' \subseteq Pending(c)
      BY <1>1 DEF IssueCooldown, Pending, rowVars, Rows
    <2>2. \A c \in Purposes : Issuing(c)' = IF c = p THEN Issuing(c) \cup {r} ELSE Issuing(c)
      BY <1>0, <1>1 DEF IssueCooldown, Issuing, Goto
    <2>3. overlapped' = IF Issuing(p) # {} THEN overlapped \cup {p} ELSE overlapped
      BY <1>1 DEF IssueCooldown
    <2>4. OneIssue' /\ OnePendingCode'
      BY <2>1, <2>2, <2>3 DEF PendingInv, OneIssue, OnePendingCode
    <2>5. NothingMissed'
      BY <1>0, <1>1, <2>1, <2>3 DEF IssueCooldown, Goto, PendingInv, NothingMissed, GoalOK
    <2>6. QED
      BY <2>4, <2>5 DEF PendingInv
  <1>2. ASSUME NEW r \in Requests, IssueSupersede(r) PROVE PendingInv'
    <2>1. \A c : Pending(c)' = Pending(c)
      BY <1>2 DEF IssueSupersede, Pending, rowVars, Rows
    <2>2. \A c \in Purposes : Issuing(c)' = Issuing(c)
      BY <1>0, <1>2 DEF IssueSupersede, Issuing, Goto
    <2>3. overlapped' = overlapped
      BY <1>2 DEF IssueSupersede, history
    <2>4. OneIssue' /\ OnePendingCode'
      BY <2>1, <2>2, <2>3 DEF PendingInv, OneIssue, OnePendingCode
    <2>5. NothingMissed'
      BY <1>0, <1>2, <2>1, <2>3 DEF IssueSupersede, Superseded, Goto, PendingInv, NothingMissed
    <2>6. QED
      BY <2>4, <2>5 DEF PendingInv
  <1>3. ASSUME NEW r \in Requests, IssueStore(r) PROVE PendingInv'
    <2>0. PICK p \in Purposes : p = goal[r]
      BY <1>0, <1>3 DEF IssueStore, GoalOK
    <2>1. r \in Issuing(p) /\ pc[r] = "store"
      BY <1>3, <2>0 DEF IssueStore, Issuing
    <2>2. \A c \in Purposes : Issuing(c)' \subseteq Issuing(c) /\ r \notin Issuing(c)'
      BY <1>0, <1>3 DEF IssueStore, Issuing, Goto
    <2>3. overlapped' = overlapped
      BY <1>3 DEF IssueStore, history
    <2>4. ASSUME NEW c \in Purposes, NEW k \in Pending(c)'
          PROVE  k \in Pending(c) \/ (c = p /\ k = rows + 1)
      <3>1. /\ rows' = rows + 1 /\ purpose' = [purpose EXCEPT ![rows + 1] = p]
            /\ dead \subseteq dead' /\ rows < MaxRows /\ MaxRows \in Nat
        BY <1>3, <2>0, OtpAssumption DEF IssueStore
      <3>2. k \in 1..(rows + 1) /\ purpose'[k] = c /\ k \notin dead
        BY <2>4, <3>1 DEF Pending, Rows
      <3>3. CASE k = rows + 1
        BY <1>0, <3>1, <3>2, <3>3 DEF RowIds
      <3>4. CASE k # rows + 1
        BY <1>0, <3>1, <3>2, <3>4 DEF RowIds, Pending, Rows
      <3>5. QED
        BY <3>3, <3>4
    <2>5. Pending(p)' \cap seen[r] = {}
      BY <1>3 DEF IssueStore, Pending
    <2>6. p \notin overlapped => Pending(p)' \subseteq {rows + 1}
      BY <2>0, <2>1, <2>4, <2>5 DEF PendingInv, NothingMissed
    <2>7. OneIssue'
      BY <2>2, <2>3 DEF PendingInv, OneIssue
    <2>8. OnePendingCode'
      BY <2>3, <2>4, <2>6 DEF PendingInv, OnePendingCode
    <2>9. ASSUME NEW q \in Requests, pc'[q] = "store", goal'[q] \notin overlapped'
          PROVE  Pending(goal[q])' \subseteq seen'[q]
      <3>1. q # r /\ pc[q] = "store" /\ goal'[q] = goal[q] /\ seen'[q] = seen[q]
        BY <1>0, <1>3, <2>9 DEF IssueStore, Goto
      <3>2. PICK c \in Purposes : c = goal[q] /\ c = goal'[q] /\ c # p
        BY <1>0, <2>1, <2>3, <2>9, <3>1 DEF PendingInv, OneIssue, Issuing, GoalOK
      <3>3. Pending(goal[q])' = Pending(c)'
        BY <3>2 DEF Pending
      <3>4. Pending(c)' \subseteq Pending(c)
        BY <2>4, <3>2
      <3>5. Pending(c) \subseteq seen[q]
        BY <2>3, <2>9, <3>1, <3>2 DEF PendingInv, NothingMissed
      <3>6. QED
        BY <3>1, <3>3, <3>4, <3>5
    <2>10. QED
      BY <2>7, <2>8, <2>9 DEF PendingInv, NothingMissed
  <1>4. ASSUME NEW r \in Requests,
               \/ IssueHit(r) \/ IssueSend(r) \/ VerifyGiveUp(r) \/ Crash(r)
               \/ \E p \in Purposes, k \in Rows, code \in 0..rows : VerifyRead(r, p, k, code)
               \/ \E k \in Rows : VerifyWrong(r, k) \/ VerifyAccept(r, k)
        PROVE  PendingInv'
    <2>1. overlapped' = overlapped
      BY <1>4 DEF IssueHit, IssueSend, VerifyGiveUp, Crash, VerifyRead, VerifyWrong, VerifyAccept,
                  history
    <2>2. \A p \in Purposes : Pending(p)' \subseteq Pending(p)
      BY <1>4 DEF IssueHit, IssueSend, VerifyGiveUp, Crash, VerifyRead, VerifyWrong, VerifyAccept,
                  Pending, Rows, rowVars
    <2>3. \A q \in Requests : pc'[q] \in {"hit", "supersede", "store"} =>
            /\ pc[q] \in {"hit", "supersede", "store"} /\ goal'[q] = goal[q]
            /\ pc'[q] = "store" => pc[q] = "store" /\ seen'[q] = seen[q]
      BY <1>0, <1>4 DEF IssueHit, IssueSend, VerifyGiveUp, Crash, VerifyRead, VerifyWrong,
                        VerifyAccept, Proceed, Return, Goto
    <2>4. QED
      BY <2>1, <2>2, <2>3, OthersIssue
  <1>5. ASSUME \/ \E k \in Rows : Expire(k)
               \/ \E p \in Purposes : CooldownEnds(p)
               \/ IdWindowEnds \/ ResetOtpLimits \/ UNCHANGED vars
        PROVE  PendingInv'
    <2>1. UNCHANGED <<rows, purpose, pc, goal, seen, overlapped>> /\ dead \subseteq dead'
      BY <1>5 DEF Expire, CooldownEnds, IdWindowEnds, ResetOtpLimits, vars, rowVars, reqVars,
                  history
    <2>2. QED
      BY <2>1, OthersIssue DEF Pending, Rows
  <1>6. QED
    BY <1>1, <1>2, <1>3, <1>4, <1>5 DEF Next, RequestStep

\* issue() leaves one pending code for an identifier and a purpose, however many issues,
\* checks, expiries and resets interleave, unless two issues for the purpose overlapped.
THEOREM OneCodePending == Spec => []OnePendingCode
  <1>1. Init => PendingInv
    BY DEF Init, PendingInv, OneIssue, NothingMissed, OnePendingCode, Issuing, Pending, Rows
  <1>2. Typed /\ PendingInv /\ [Next]_vars => PendingInv'
    BY PendingStep
  <1>3. PendingInv => OnePendingCode
    BY DEF PendingInv
  <1>4. QED
    BY <1>1, <1>2, <1>3, AlwaysTyped, PTL DEF Spec

(***************************************************************************)
(* Attempts                                                                *)
(***************************************************************************)

\* Requests that have judged a wrong guess of row k and have yet to count it.
Comparing(k) == {r \in Requests : pc[r] = "wrong" /\ seen[r] = {k}}

AttemptInv ==
  \A k \in RowIds : attempts[k] + Cardinality(Comparing(k)) < MaxAttempts + Cardinality(Requests)

\* A guess is judged while attempts are left, and it is counted when it leaves.
LEMMA GuessesMove ==
  ASSUME Typed, [Next]_vars, NEW k \in RowIds
  PROVE  \/ /\ attempts'[k] = attempts[k]
            /\ Comparing(k)' \subseteq Comparing(k) \/ AttemptsLeft(k)
         \/ /\ attempts'[k] = attempts[k] + 1
            /\ \E r \in Comparing(k) : Comparing(k)' \subseteq Comparing(k) \ {r}
  <1> DEFINE Moved ==
        \/ /\ attempts'[k] = attempts[k]
           /\ Comparing(k)' \subseteq Comparing(k) \/ AttemptsLeft(k)
        \/ /\ attempts'[k] = attempts[k] + 1
           /\ \E r \in Comparing(k) : Comparing(k)' \subseteq Comparing(k) \ {r}
  <1>0. /\ pc \in [Requests -> Steps] /\ seen \in [Requests -> SUBSET Rows]
        /\ attempts \in [RowIds -> Nat]
    BY DEF Typed, TypeOK
  <1>1. ASSUME NEW r \in Requests,
               \/ \E p \in Purposes : IssueCooldown(r, p)
               \/ IssueHit(r) \/ IssueSupersede(r) \/ IssueStore(r) \/ IssueSend(r)
               \/ \E j \in Rows : VerifyAccept(r, j)
               \/ VerifyGiveUp(r) \/ Crash(r)
        PROVE  Moved
    <2>1. attempts' = attempts
      BY <1>1 DEF IssueCooldown, IssueHit, IssueSupersede, IssueStore, IssueSend, VerifyAccept,
                  VerifyGiveUp, Crash, rowVars
    <2>2. /\ pc'[r] # "wrong"
          /\ \A q \in Requests \ {r} : pc'[q] = pc[q] /\ seen'[q] = seen[q]
      BY <1>0, <1>1 DEF IssueCooldown, IssueHit, IssueSupersede, IssueStore, IssueSend,
                        VerifyAccept, VerifyGiveUp, Crash, Proceed, Return, Goto
    <2>3. QED
      BY <2>1, <2>2 DEF Comparing
  <1>2. ASSUME NEW r \in Requests, NEW p \in Purposes, NEW j \in Rows, NEW code \in 0..rows,
               VerifyRead(r, p, j, code)
        PROVE  Moved
    <2>1. attempts' = attempts
      BY <1>2 DEF VerifyRead, rowVars
    <2>2. /\ \A q \in Requests \ {r} : pc'[q] = pc[q] /\ seen'[q] = seen[q]
          /\ seen'[r] = {j}
          /\ pc'[r] = "wrong" => AttemptsLeft(j)
      BY <1>0, <1>2 DEF VerifyRead, Goto
    <2>3. QED
      BY <2>1, <2>2 DEF Comparing
  <1>3. ASSUME NEW r \in Requests, NEW j \in Rows, VerifyWrong(r, j) PROVE Moved
    <2>1. attempts' = [attempts EXCEPT ![j] = @ + 1] /\ pc[r] = "wrong" /\ seen[r] = {j}
      BY <1>3 DEF VerifyWrong
    <2>2. /\ pc'[r] # "wrong"
          /\ \A q \in Requests \ {r} : pc'[q] = pc[q] /\ seen'[q] = seen[q]
      BY <1>0, <1>3 DEF VerifyWrong, Proceed, Return, Goto
    <2>3. r \in Comparing(j) /\ \A i : Comparing(i)' \subseteq Comparing(i) \ {r}
      BY <2>1, <2>2 DEF Comparing
    <2>4. QED
      BY <1>0, <2>1, <2>3
  <1>4. ASSUME \/ \E j \in Rows : Expire(j)
               \/ \E p \in Purposes : CooldownEnds(p)
               \/ IdWindowEnds \/ ResetOtpLimits \/ UNCHANGED vars
        PROVE  Moved
    <2>1. UNCHANGED <<attempts, pc, seen>>
      BY <1>4 DEF Expire, CooldownEnds, IdWindowEnds, ResetOtpLimits, vars, rowVars, reqVars
    <2>2. QED
      BY <2>1 DEF Comparing
  <1>5. QED
    BY <1>1, <1>2, <1>3, <1>4 DEF Next, RequestStep

\* Attempts, with the guesses that have yet to be counted, stay below the cap and one
\* for each request.
LEMMA AttemptStep ==
  ASSUME Typed, AttemptInv, [Next]_vars
  PROVE  AttemptInv'
  <1> SUFFICES ASSUME NEW k \in RowIds
               PROVE  attempts'[k] + Cardinality(Comparing(k)') < MaxAttempts + Cardinality(Requests)
    BY DEF AttemptInv, RowIds
  <1>1. /\ Comparing(k) \subseteq Requests /\ Comparing(k)' \subseteq Requests
        /\ MaxAttempts \in Nat /\ attempts[k] \in Nat
    BY OtpAssumption DEF Comparing, Typed, TypeOK
  <1>2. /\ Cardinality(Comparing(k)) \in Nat /\ Cardinality(Comparing(k)') \in Nat
        /\ Cardinality(Requests) \in Nat /\ Cardinality(Comparing(k)') <= Cardinality(Requests)
    BY <1>1, CountOfRequests
  <1>3. attempts[k] + Cardinality(Comparing(k)) < MaxAttempts + Cardinality(Requests)
    BY DEF AttemptInv
  <1>4. CASE attempts'[k] = attempts[k] /\ Comparing(k)' \subseteq Comparing(k)
    <2>1. Cardinality(Comparing(k)') <= Cardinality(Comparing(k))
      BY <1>1, <1>4, CountShrinks
    <2>2. QED
      BY <1>1, <1>2, <1>3, <1>4, <2>1
  <1>5. CASE attempts'[k] = attempts[k] /\ AttemptsLeft(k)
    BY <1>1, <1>2, <1>5 DEF AttemptsLeft
  <1>6. ASSUME NEW r \in Comparing(k), attempts'[k] = attempts[k] + 1,
               Comparing(k)' \subseteq Comparing(k) \ {r}
        PROVE  attempts'[k] + Cardinality(Comparing(k)') < MaxAttempts + Cardinality(Requests)
    <2>1. Cardinality(Comparing(k)') <= Cardinality(Comparing(k) \ {r})
      BY <1>1, <1>6, CountShrinks
    <2>2. Cardinality(Comparing(k) \ {r}) = Cardinality(Comparing(k)) - 1
      BY <1>1, CountLeaves
    <2>3. QED
      BY <1>1, <1>2, <1>3, <1>6, <2>1, <2>2
  <1>7. QED
    BY <1>4, <1>5, <1>6, GuessesMove

\* The cap of attempts holds for concurrent guesses, but for one guess of each other
\* request in flight (OtpService.verify, which compares what it read and increments).
THEOREM AttemptsAreBounded == Spec => []AttemptsBounded
  <1>1. Init => AttemptInv
    <2> SUFFICES ASSUME Init, NEW k \in RowIds
                 PROVE  attempts[k] + Cardinality(Comparing(k)) < MaxAttempts + Cardinality(Requests)
      BY DEF AttemptInv
    <2>1. Comparing(k) = {} /\ attempts[k] = 0
      BY DEF Init, Comparing
    <2>2. Cardinality(Requests) \in Nat /\ MaxAttempts \in Nat \ {0}
      BY OtpAssumption, CountOfRequests
    <2>3. QED
      BY <2>1, <2>2, FS_EmptySet
  <1>2. Typed /\ AttemptInv /\ [Next]_vars => AttemptInv'
    BY AttemptStep
  <1>3. Typed /\ AttemptInv => AttemptsBounded
    <2> SUFFICES ASSUME Typed, AttemptInv, NEW k \in Rows
                 PROVE  attempts[k] < MaxAttempts + Cardinality(Requests)
      BY DEF AttemptsBounded
    <2>1. k \in RowIds /\ attempts[k] \in Nat /\ MaxAttempts \in Nat
      BY OtpAssumption DEF Typed, TypeOK, Rows, RowIds
    <2>2. Cardinality(Comparing(k)) \in Nat /\ Cardinality(Requests) \in Nat
      BY CountOfRequests DEF Comparing
    <2>3. attempts[k] + Cardinality(Comparing(k)) < MaxAttempts + Cardinality(Requests)
      BY <2>1 DEF AttemptInv
    <2>4. QED
      BY <2>1, <2>2, <2>3
  <1>4. QED
    BY <1>1, <1>2, <1>3, AlwaysTyped, PTL DEF Spec

(***************************************************************************)
(* Uses                                                                    *)
(***************************************************************************)

UseInv ==
  \A k \in RowIds :
    /\ used[k] > 0 => k \in dead
    /\ used[k] + Cardinality(Accepting(k)) <= Cardinality(Requests)

\* A request begins to accept a row that is pending and has attempts left; when it is
\* done the row is dead.
LEMMA AnswersMove ==
  ASSUME Typed, [Next]_vars, NEW k \in RowIds
  PROVE  /\ k \in dead => k \in dead'
         /\ \/ /\ used'[k] = used[k]
               /\ Accepting(k)' \subseteq Accepting(k) \/ (k \notin dead /\ AttemptsLeft(k))
            \/ /\ used'[k] = used[k] + 1 /\ k \in dead'
               /\ \E r \in Accepting(k) : Accepting(k)' \subseteq Accepting(k) \ {r}
  <1> DEFINE Moved ==
        /\ k \in dead => k \in dead'
        /\ \/ /\ used'[k] = used[k]
              /\ Accepting(k)' \subseteq Accepting(k) \/ (k \notin dead /\ AttemptsLeft(k))
           \/ /\ used'[k] = used[k] + 1 /\ k \in dead'
              /\ \E r \in Accepting(k) : Accepting(k)' \subseteq Accepting(k) \ {r}
  <1>0. /\ pc \in [Requests -> Steps] /\ seen \in [Requests -> SUBSET Rows]
        /\ used \in [RowIds -> Nat]
    BY DEF Typed, TypeOK
  <1>1. ASSUME NEW r \in Requests,
               \/ \E p \in Purposes : IssueCooldown(r, p)
               \/ IssueHit(r) \/ IssueSupersede(r) \/ IssueStore(r) \/ IssueSend(r)
               \/ \E j \in Rows : VerifyWrong(r, j)
               \/ VerifyGiveUp(r) \/ Crash(r)
        PROVE  Moved
    <2>1. used' = used /\ dead \subseteq dead'
      BY <1>1 DEF IssueCooldown, IssueHit, IssueSupersede, IssueStore, IssueSend, VerifyWrong,
                  VerifyGiveUp, Crash, rowVars, history
    <2>2. /\ pc'[r] # "accept"
          /\ \A q \in Requests \ {r} : pc'[q] = pc[q] /\ seen'[q] = seen[q]
      BY <1>0, <1>1 DEF IssueCooldown, IssueHit, IssueSupersede, IssueStore, IssueSend,
                        VerifyWrong, VerifyGiveUp, Crash, Proceed, Return, Goto
    <2>3. QED
      BY <2>1, <2>2 DEF Accepting
  <1>2. ASSUME NEW r \in Requests, NEW p \in Purposes, NEW j \in Rows, NEW code \in 0..rows,
               VerifyRead(r, p, j, code)
        PROVE  Moved
    <2>1. used' = used /\ dead' = dead
      BY <1>2 DEF VerifyRead, rowVars, history
    <2>2. /\ \A q \in Requests \ {r} : pc'[q] = pc[q] /\ seen'[q] = seen[q]
          /\ seen'[r] = {j} /\ j \notin dead
          /\ pc'[r] = "accept" => AttemptsLeft(j)
      BY <1>0, <1>2 DEF VerifyRead, Newest, Pending, Goto
    <2>3. QED
      BY <2>1, <2>2 DEF Accepting
  <1>3. ASSUME NEW r \in Requests, NEW j \in Rows, VerifyAccept(r, j) PROVE Moved
    <2>1. /\ used' = [used EXCEPT ![j] = @ + 1] /\ pc[r] = "accept" /\ seen[r] = {j}
          /\ dead' = dead \cup {j}
      BY <1>3 DEF VerifyAccept, AcceptedRows
    <2>2. /\ pc'[r] # "accept"
          /\ \A q \in Requests \ {r} : pc'[q] = pc[q] /\ seen'[q] = seen[q]
      BY <1>0, <1>3 DEF VerifyAccept, Return, Goto
    <2>3. r \in Accepting(j) /\ \A i : Accepting(i)' \subseteq Accepting(i) \ {r}
      BY <2>1, <2>2 DEF Accepting
    <2>4. QED
      BY <1>0, <2>1, <2>3
  <1>4. ASSUME \/ \E j \in Rows : Expire(j)
               \/ \E p \in Purposes : CooldownEnds(p)
               \/ IdWindowEnds \/ ResetOtpLimits \/ UNCHANGED vars
        PROVE  Moved
    <2>1. UNCHANGED <<used, pc, seen>> /\ dead \subseteq dead'
      BY <1>4 DEF Expire, CooldownEnds, IdWindowEnds, ResetOtpLimits, vars, rowVars, reqVars,
                  history
    <2>2. QED
      BY <2>1 DEF Accepting
  <1>5. QED
    BY <1>1, <1>2, <1>3, <1>4 DEF Next, RequestStep

\* The uses of a code, with the answers under way, stay within the number of requests.
LEMMA UseStep ==
  ASSUME Typed, UseInv, [Next]_vars
  PROVE  UseInv'
  <1> SUFFICES ASSUME NEW k \in RowIds
               PROVE  /\ used'[k] > 0 => k \in dead'
                      /\ used'[k] + Cardinality(Accepting(k)') <= Cardinality(Requests)
    BY DEF UseInv, RowIds
  <1>1. /\ Accepting(k) \subseteq Requests /\ Accepting(k)' \subseteq Requests
        /\ used[k] \in Nat
    BY DEF Accepting, Typed, TypeOK
  <1>2. /\ Cardinality(Accepting(k)) \in Nat /\ Cardinality(Accepting(k)') \in Nat
        /\ Cardinality(Requests) \in Nat /\ Cardinality(Accepting(k)') <= Cardinality(Requests)
    BY <1>1, CountOfRequests
  <1>3. /\ used[k] > 0 => k \in dead
        /\ used[k] + Cardinality(Accepting(k)) <= Cardinality(Requests)
    BY DEF UseInv
  <1>4. CASE used'[k] = used[k] /\ Accepting(k)' \subseteq Accepting(k)
    <2>1. Cardinality(Accepting(k)') <= Cardinality(Accepting(k))
      BY <1>1, <1>4, CountShrinks
    <2>2. QED
      BY <1>1, <1>2, <1>3, <1>4, <2>1, AnswersMove
  <1>5. CASE used'[k] = used[k] /\ k \notin dead
    BY <1>1, <1>2, <1>3, <1>5
  <1>6. ASSUME NEW r \in Accepting(k), used'[k] = used[k] + 1, k \in dead',
               Accepting(k)' \subseteq Accepting(k) \ {r}
        PROVE  /\ used'[k] > 0 => k \in dead'
               /\ used'[k] + Cardinality(Accepting(k)') <= Cardinality(Requests)
    <2>1. Cardinality(Accepting(k)') <= Cardinality(Accepting(k) \ {r})
      BY <1>1, <1>6, CountShrinks
    <2>2. Cardinality(Accepting(k) \ {r}) = Cardinality(Accepting(k)) - 1
      BY <1>1, CountLeaves
    <2>3. QED
      BY <1>1, <1>2, <1>3, <1>6, <2>1, <2>2
  <1>7. QED
    BY <1>4, <1>5, <1>6, AnswersMove

\* Once a code has let somebody in, only requests that had read its row before are let
\* in by it, and it is never used more often than there are requests (OtpService.verify).
THEOREM UsesAreBounded == Spec => []OneTimeUse
  <1>1. Init => UseInv
    <2> SUFFICES ASSUME Init, NEW k \in RowIds
                 PROVE  /\ used[k] > 0 => k \in dead
                        /\ used[k] + Cardinality(Accepting(k)) <= Cardinality(Requests)
      BY DEF UseInv
    <2>1. Accepting(k) = {} /\ used[k] = 0
      BY DEF Init, Accepting
    <2>2. Cardinality(Requests) \in Nat
      BY CountOfRequests
    <2>3. QED
      BY <2>1, <2>2, FS_EmptySet
  <1>2. Typed /\ UseInv /\ [Next]_vars => UseInv'
    BY UseStep
  <1>3. Typed /\ UseInv => OneTimeUse
    <2>1. Typed => Rows \subseteq RowIds
      BY OtpAssumption DEF Typed, TypeOK, Rows, RowIds
    <2>2. QED
      BY <2>1 DEF UseInv, OneTimeUse
  <1>4. QED
    BY <1>1, <1>2, <1>3, AlwaysTyped, PTL DEF Spec

\* A row that used up its attempts with no success under way: none can begin.
CapInv == \A k \in capped : attempts[k] >= MaxAttempts /\ Accepting(k) = {}

\* A step leaves a capped row out of reach.
LEMMA CapStep ==
  ASSUME Typed, CapInv, [Next]_vars
  PROVE  CapInv' /\ \A k \in capped : used'[k] = used[k]
  <1>0. /\ capped \subseteq RowIds /\ Rows \subseteq RowIds
        /\ attempts \in [RowIds -> Nat] /\ used \in [RowIds -> Nat]
        /\ MaxAttempts \in Nat
    BY OtpAssumption DEF Typed, TypeOK, Rows, RowIds
  <1>1. ASSUME NEW k \in capped
        PROVE  attempts'[k] >= MaxAttempts /\ Accepting(k)' = {} /\ used'[k] = used[k]
    <2>1. attempts[k] >= MaxAttempts /\ Accepting(k) = {} /\ ~AttemptsLeft(k) /\ k \in RowIds
      BY <1>0 DEF CapInv, AttemptsLeft
    <2>2. attempts'[k] >= attempts[k] /\ attempts'[k] \in Nat
      BY <1>0, <2>1, GuessesMove
    <2>3. QED
      BY <1>0, <2>1, <2>2, AnswersMove
  <1>2. ASSUME NEW k \in capped', k \notin capped
        PROVE  attempts'[k] >= MaxAttempts /\ Accepting(k)' = {}
    <2>1. PICK r \in Requests : VerifyWrong(r, k)
      BY <1>2 DEF Next, RequestStep, IssueCooldown, IssueHit, IssueSupersede, IssueStore, IssueSend,
                  VerifyRead, VerifyWrong, VerifyGiveUp, VerifyAccept, Crash, Expire,
                  CooldownEnds, IdWindowEnds, ResetOtpLimits, vars, history
    <2>2. attempts'[k] >= MaxAttempts /\ Accepting(k) = {}
      BY <1>2, <2>1 DEF VerifyWrong
    <2>3. Accepting(k)' \subseteq Accepting(k)
      BY <2>1 DEF VerifyWrong, Accepting, Proceed, Return, Goto, Typed, TypeOK
    <2>4. QED
      BY <2>2, <2>3
  <1>3. QED
    BY <1>1, <1>2 DEF CapInv

\* A code that used up its attempts while nobody was being let in by it never lets
\* anybody in again, even if the request that counted the last one died.
THEOREM CapStandsForEver == Spec => CapIsFinal
  <1>1. Init => CapInv
    BY DEF Init, CapInv
  <1>2. Typed /\ CapInv /\ [Next]_vars => CapInv' /\ \A k \in capped : used'[k] = used[k]
    BY CapStep
  <1>3. QED
    BY <1>1, <1>2, AlwaysTyped, PTL DEF Spec, CapIsFinal

(***************************************************************************)
(* Sends                                                                   *)
(***************************************************************************)

\* What the counter leaves for this window.
Room == IF idHits > IdMax THEN 0 ELSE IdMax - idHits

SendInv == quota >= Cardinality(Admitted) + Room

\* A step spends a send only for a request that was admitted, and admits one only while
\* the counter has room.
LEMMA SendStep ==
  ASSUME Typed, SendInv, [Next]_vars
  PROVE  SendInv'
  <1>0. /\ pc \in [Requests -> Steps] /\ idHits \in Nat /\ IdMax \in Nat /\ quota \in Int
        /\ Room \in Nat
    BY OtpAssumption DEF Typed, TypeOK, Room
  <1>1. /\ Admitted \subseteq Requests /\ Admitted' \subseteq Requests
        /\ Cardinality(Admitted) \in Nat /\ Cardinality(Admitted') \in Nat
    <2>1. Admitted \subseteq Requests /\ Admitted' \subseteq Requests
      BY DEF Admitted
    <2>2. QED
      BY <2>1, CountOfRequests
  <1>2. ASSUME quota' = quota, idHits' = idHits, Admitted' \subseteq Admitted PROVE SendInv'
    <2>1. Cardinality(Admitted') <= Cardinality(Admitted)
      BY <1>1, <1>2, CountShrinks
    <2>2. QED
      BY <1>0, <1>1, <1>2, <2>1 DEF SendInv, Room
  <1>3. ASSUME NEW r \in Requests, IssueHit(r) PROVE SendInv'
    <2>1. quota' = quota /\ idHits' = Incr(idHits, IdMax)
      BY <1>3 DEF IssueHit, history
    <2>2. CASE Return(r)
      <3>1. Admitted' \subseteq Admitted
        BY <1>0, <2>2 DEF Return, Goto, Admitted
      <3>2. Cardinality(Admitted') <= Cardinality(Admitted)
        BY <1>1, <3>1, CountShrinks
      <3>3. QED
        BY <1>0, <1>1, <2>1, <3>2 DEF SendInv, Room, Incr
    <2>3. CASE ~OverLimit(idHits', IdMax) /\ Proceed(r, "supersede")
      <3>1. Admitted' \subseteq Admitted \cup {r}
        BY <1>0, <2>3 DEF Proceed, Goto, Admitted
      <3>2. Admitted \cup {r} \subseteq Requests
        BY <1>1
      <3>3. Cardinality(Admitted') <= Cardinality(Admitted \cup {r})
        BY <3>1, <3>2, CountShrinks
      <3>4. Cardinality(Admitted \cup {r}) <= Cardinality(Admitted) + 1
        BY <1>1, CountJoins
      <3>5. Cardinality(Admitted \cup {r}) \in Nat
        BY <3>2, CountOfRequests
      <3>6. QED
        BY <1>0, <1>1, <2>1, <2>3, <3>3, <3>4, <3>5 DEF SendInv, Room, Incr, OverLimit
    <2>4. QED
      BY <1>3, <2>2, <2>3 DEF IssueHit
  <1>4. ASSUME NEW r \in Requests, IssueSend(r) PROVE SendInv'
    <2>1. quota' = quota - 1 /\ idHits' = idHits
      BY <1>4 DEF IssueSend, limits
    <2>2. r \in Admitted /\ Admitted' = Admitted \ {r}
      BY <1>0, <1>4 DEF IssueSend, Admitted, Return, Goto
    <2>3. Cardinality(Admitted') = Cardinality(Admitted) - 1
      BY <1>1, <2>2, CountLeaves
    <2>4. QED
      BY <1>0, <1>1, <2>1, <2>3 DEF SendInv, Room
  <1>5. ASSUME IdWindowEnds \/ ResetOtpLimits PROVE SendInv'
    <2>1. quota' = IdMax + Cardinality(Admitted) /\ idHits' = 0
      BY <1>5 DEF IdWindowEnds, ResetOtpLimits, OpenWindow
    <2>2. Admitted' = Admitted
      BY <1>5 DEF IdWindowEnds, ResetOtpLimits, Admitted, reqVars
    <2>3. QED
      BY <1>0, <1>1, <2>1, <2>2 DEF SendInv, Room
  <1>6. ASSUME NEW r \in Requests,
               \/ \E p \in Purposes : IssueCooldown(r, p)
               \/ IssueSupersede(r) \/ IssueStore(r)
               \/ \E p \in Purposes, k \in Rows, code \in 0..rows : VerifyRead(r, p, k, code)
               \/ \E k \in Rows : VerifyWrong(r, k) \/ VerifyAccept(r, k)
               \/ VerifyGiveUp(r) \/ Crash(r)
        PROVE  SendInv'
    <2>1. quota' = quota /\ idHits' = idHits
      BY <1>6 DEF IssueCooldown, IssueSupersede, IssueStore, VerifyRead, VerifyWrong, VerifyAccept,
                  VerifyGiveUp, Crash, limits, history
    <2>2. Admitted' \subseteq Admitted
      BY <1>0, <1>6 DEF IssueCooldown, IssueSupersede, IssueStore, VerifyRead, VerifyWrong,
                        VerifyAccept, VerifyGiveUp, Crash, Admitted, Proceed, Return, Goto
    <2>3. QED
      BY <1>2, <2>1, <2>2
  <1>7. ASSUME \/ \E k \in Rows : Expire(k)
               \/ \E p \in Purposes : CooldownEnds(p)
               \/ UNCHANGED vars
        PROVE  SendInv'
    <2>1. UNCHANGED <<quota, idHits, pc>>
      BY <1>7 DEF Expire, CooldownEnds, vars, limits, reqVars, history
    <2>2. QED
      BY <1>2, <2>1 DEF Admitted
  <1>8. QED
    BY <1>3, <1>4, <1>5, <1>6, <1>7 DEF Next, RequestStep

\* In each window of an identifier no more codes are sent than the configured number and
\* one for each request that was admitted before it opened (enforceRateLimits).
THEOREM SendsAreBounded == Spec => []SendsBounded
  <1>1. Init => SendInv
    <2> SUFFICES ASSUME Init PROVE SendInv
      OBVIOUS
    <2>1. Admitted = {} /\ quota = IdMax /\ idHits = 0
      BY DEF Init, Admitted
    <2>2. QED
      BY <2>1, OtpAssumption, FS_EmptySet DEF SendInv, Room
  <1>2. Typed /\ SendInv /\ [Next]_vars => SendInv'
    BY SendStep
  <1>3. Typed /\ SendInv => SendsBounded
    <2> SUFFICES ASSUME Typed, SendInv PROVE SendsBounded
      OBVIOUS
    <2>1. Cardinality(Admitted) \in Nat
      BY CountOfRequests DEF Admitted
    <2>2. Room \in Nat /\ quota \in Int
      BY OtpAssumption DEF Typed, TypeOK, Room
    <2>3. QED
      BY <2>1, <2>2 DEF SendInv, SendsBounded
  <1>4. QED
    BY <1>1, <1>2, <1>3, AlwaysTyped, PTL DEF Spec
=============================================================================
