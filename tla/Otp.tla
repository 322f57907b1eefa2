--------------------------------- MODULE Otp ---------------------------------
(***************************************************************************)
(* One-time codes: OtpService (auth/otp/otp.service.ts) for one identifier *)
(* and one client address, with the Redis keys its rate limits live in     *)
(* (redis/redis.service.ts) and the administrator's reset of them.         *)
(*                                                                         *)
(* issue() and verify() run in request slots; every await is a step.  The  *)
(* transaction of issue() is two steps, because PostgreSQL runs it at READ *)
(* COMMITTED: its updateMany sees the rows committed when it starts, and   *)
(* what it did appears when the create has been committed too.             *)
(*                                                                         *)
(* Rows are numbered in the order of createdAt.  A submitted code is the   *)
(* number of the row whose code it is, or 0 for a code of no row; that two *)
(* rows are given the same six digits is left out.                         *)
(***************************************************************************)
EXTENDS Integers, FiniteSets

CONSTANTS
  Purposes,      \* OtpPurpose
  Requests,      \* concurrent requests
  MaxAttempts,   \* OTP_MAX_ATTEMPTS, stored in every row
  IdMax,         \* OTP_MAX_PER_IDENTIFIER_PER_HOUR
  MaxRows,       \* bound: rows ever created
  None           \* "no purpose"

ASSUME OtpAssumption ==
  /\ {MaxAttempts, IdMax, MaxRows} \subseteq Nat \ {0}
  /\ IsFiniteSet(Requests)
  /\ None \notin Purposes

VARIABLES
  rows,          \* number of OtpCode rows
  purpose,       \* purpose[k] of row k
  attempts,      \* attempts[k]
  dead,          \* rows consumed or expired: every query asks for neither
  cooldown,      \* purposes whose key otp:cd:<purpose>:<identifier> exists
  idHits,        \* counter otp:rl:id:<identifier>, 0 when the key is gone
  pc,            \* what each request does next
  goal,          \* goal[r]: the purpose r was called with
  seen,          \* seen[r]: the rows issue() superseded, or the one verify() found
  \* History variables: they are read by properties only.
  used,          \* used[k]: times verify() has returned success for row k
  capped,        \* rows that used up their attempts with no success of theirs in flight
  overlapped,    \* purposes for which two issues were in flight at once
  quota          \* codes that may yet be sent in this window of the identifier:
                 \* IdMax, and one for each request admitted before it opened

rowVars == <<rows, purpose, attempts, dead>>
limits == <<cooldown, idHits>>
reqVars == <<pc, goal, seen>>
history == <<used, capped, overlapped, quota>>
vars == <<rowVars, limits, reqVars, history>>

Steps == {"idle", "hit", "supersede", "store", "send", "wrong",
          "giveUp", "accept"}
RowIds == 1..MaxRows
Rows == 1..rows

\* where: {identifier, purpose, consumedAt: null, expiresAt: {gt: now}}
Pending(p) == {k \in Rows : purpose[k] = p} \ dead

\* Requests past the counter that have yet to send.
Admitted == {r \in Requests : pc[r] \in {"supersede", "store", "send"}}
Issuing(p) == {r \in Requests : pc[r] \in {"hit", "supersede", "store"} /\ goal[r] = p}
Accepting(k) == {r \in Requests : pc[r] = "accept" /\ seen[r] = {k}}

Goto(r, step, p, s) ==
  /\ pc' = [pc EXCEPT ![r] = step]
  /\ goal' = [goal EXCEPT ![r] = p]
  /\ seen' = [seen EXCEPT ![r] = s]

Proceed(r, step) == Goto(r, step, goal[r], seen[r])
Return(r) == Goto(r, "idle", None, {})

\* INCR; the counters saturate one above their limit, which is all that is asked of them.
Incr(n, max) == IF n > max THEN n ELSE n + 1

-----------------------------------------------------------------------------
(* Faulty variants of the definitions below, each a bug this code could have had. *)

Superseded_Nothing(r) == {}                  \* issue() without the updateMany
AttemptsLeft_Unchecked(k) == TRUE            \* verify() without the check of a capped row
AcceptedRows_Left(r) == {}                   \* success without consume()
OverLimit_Never(n, max) == FALSE             \* the counter is read and not compared
KeyPurposes_Shared(p) == {"otp:cd"}          \* a cooldown key without its purpose

-----------------------------------------------------------------------------
Init ==
  /\ rows = 0
  /\ purpose = [k \in RowIds |-> None]
  /\ attempts = [k \in RowIds |-> 0]
  /\ dead = {}
  /\ cooldown = {}
  /\ idHits = 0
  /\ pc = [r \in Requests |-> "idle"]
  /\ goal = [r \in Requests |-> None]
  /\ seen = [r \in Requests |-> {}]
  /\ used = [k \in RowIds |-> 0]
  /\ capped = {}
  /\ overlapped = {}
  /\ quota = IdMax

-----------------------------------------------------------------------------
(* issue(): cooldown, counter, counter, transaction, send. *)

\* SET NX EX, one key for each purpose; a key that exists is answered 429.
KeyPurposes(p) == {p}

IssueCooldown(r, p) ==
  /\ pc[r] = "idle"
  /\ p \notin cooldown
  /\ cooldown' = cooldown \cup KeyPurposes(p)
  /\ overlapped' = IF Issuing(p) # {} THEN overlapped \cup {p} ELSE overlapped
  /\ Goto(r, "hit", p, {})
  /\ UNCHANGED <<rowVars, idHits, used, capped, quota>>

OverLimit(n, max) == n > max

\* Over a limit: 429, and the cooldown stays taken.  The counter of the client's
\* address counts for every identifier, so here it may have any value: past the
\* identifier's own limit it refuses or it does not.
IssueHit(r) ==
  /\ pc[r] = "hit"
  /\ idHits' = Incr(idHits, IdMax)
  /\ \/ Return(r)
     \/ ~OverLimit(idHits', IdMax) /\ Proceed(r, "supersede")
  /\ UNCHANGED <<rowVars, cooldown, history>>

Superseded(r) == Pending(goal[r])

IssueSupersede(r) ==
  /\ pc[r] = "supersede"
  /\ Goto(r, "store", goal[r], Superseded(r))
  /\ UNCHANGED <<rowVars, limits, history>>

IssueStore(r) ==
  /\ pc[r] = "store"
  /\ rows < MaxRows
  /\ rows' = rows + 1
  /\ purpose' = [purpose EXCEPT ![rows + 1] = goal[r]]
  /\ dead' = dead \cup seen[r]
  /\ Goto(r, "send", goal[r], {})
  /\ UNCHANGED <<attempts, limits, history>>

\* A failed send throws after the row has been stored, and changes nothing;
\* that is Crash(r).
IssueSend(r) ==
  /\ pc[r] = "send"
  /\ quota' = quota - 1
  /\ Return(r)
  /\ UNCHANGED <<rowVars, limits, used, capped, overlapped>>

-----------------------------------------------------------------------------
(* verify(): find the newest pending row, judge it as it was read, write.  *)
(* With no pending row the answer is 401 and nothing changes.              *)

Newest(p, k) == k \in Pending(p) /\ \A j \in Pending(p) : j <= k
AttemptsLeft(k) == attempts[k] < MaxAttempts

\* The hash of a code is bound to its identifier and its purpose, and compared whole:
\* only the code of that very row gives the hash the row holds.
Matches(k, code) == code = k

VerifyRead(r, p, k, code) ==
  /\ pc[r] = "idle"
  /\ Newest(p, k)
  /\ \/ ~AttemptsLeft(k) /\ Goto(r, "giveUp", p, {k})
     \/ AttemptsLeft(k) /\ ~Matches(k, code) /\ Goto(r, "wrong", p, {k})
     \/ AttemptsLeft(k) /\ Matches(k, code) /\ Goto(r, "accept", p, {k})
  /\ UNCHANGED <<rowVars, limits, history>>

VerifyWrong(r, k) ==
  /\ pc[r] = "wrong" /\ seen[r] = {k}
  /\ attempts' = [attempts EXCEPT ![k] = @ + 1]
  /\ IF attempts'[k] >= MaxAttempts
     THEN /\ Proceed(r, "giveUp")
          /\ capped' = IF Accepting(k) = {} THEN capped \cup {k} ELSE capped
     ELSE Return(r) /\ UNCHANGED capped
  /\ UNCHANGED <<rows, purpose, dead, limits, used, overlapped, quota>>

\* consume() of a row that has used up its attempts; the answer is 401.
VerifyGiveUp(r) ==
  /\ pc[r] = "giveUp"
  /\ dead' = dead \cup seen[r]
  /\ Return(r)
  /\ UNCHANGED <<rows, purpose, attempts, limits, history>>

AcceptedRows(r) == seen[r]

\* consume() by id alone, whether or not the row has been consumed meanwhile.
VerifyAccept(r, k) ==
  /\ pc[r] = "accept" /\ seen[r] = {k}
  /\ dead' = dead \cup AcceptedRows(r)
  /\ used' = [used EXCEPT ![k] = @ + 1]
  /\ Return(r)
  /\ UNCHANGED <<rows, purpose, attempts, limits, capped, overlapped, quota>>

-----------------------------------------------------------------------------
(* Time, the administrator, and failures. *)

Expire(k) ==
  /\ k \in Rows \ dead
  /\ dead' = dead \cup {k}
  /\ UNCHANGED <<rows, purpose, attempts, limits, reqVars, history>>

CooldownEnds(p) ==
  /\ p \in cooldown
  /\ cooldown' = cooldown \ {p}
  /\ UNCHANGED <<rowVars, idHits, reqVars, history>>

OpenWindow ==
  /\ idHits' = 0
  /\ quota' = IdMax + Cardinality(Admitted)

IdWindowEnds ==
  /\ idHits > 0
  /\ OpenWindow
  /\ UNCHANGED <<rowVars, cooldown, reqVars, used, capped, overlapped>>

\* resetOtpLimits({identifier}): one DEL of the counter and of every cooldown key.
ResetOtpLimits ==
  /\ cooldown' = {}
  /\ OpenWindow
  /\ UNCHANGED <<rowVars, reqVars, used, capped, overlapped>>

\* The server stops, or a call to PostgreSQL, Redis or the sender fails.
Crash(r) ==
  /\ pc[r] # "idle"
  /\ Return(r)
  /\ UNCHANGED <<rowVars, limits, history>>

RequestStep(r) ==
  \/ \E p \in Purposes : IssueCooldown(r, p)
  \/ IssueHit(r)
  \/ IssueSupersede(r)
  \/ IssueStore(r)
  \/ IssueSend(r)
  \/ \E p \in Purposes, k \in Rows, code \in 0..rows : VerifyRead(r, p, k, code)
  \/ \E k \in Rows : VerifyWrong(r, k) \/ VerifyAccept(r, k)
  \/ VerifyGiveUp(r)
  \/ Crash(r)

Next ==
  \/ \E r \in Requests : RequestStep(r)
  \/ \E k \in Rows : Expire(k)
  \/ \E p \in Purposes : CooldownEnds(p)
  \/ IdWindowEnds
  \/ ResetOtpLimits

Spec == Init /\ [][Next]_vars

-----------------------------------------------------------------------------
(* Properties *)

\* The variables stay within their types.
TypeOK ==
  /\ rows \in 0..MaxRows
  /\ purpose \in [RowIds -> Purposes \cup {None}]
  /\ attempts \in [RowIds -> Nat]
  /\ dead \subseteq Rows
  /\ cooldown \subseteq Purposes
  /\ idHits \in 0..(IdMax + 1)
  /\ pc \in [Requests -> Steps]
  /\ goal \in [Requests -> Purposes \cup {None}]
  /\ seen \in [Requests -> SUBSET Rows]
  /\ used \in [RowIds -> Nat]
  /\ capped \subseteq Rows
  /\ overlapped \subseteq Purposes
  /\ quota \in Int

\* issue() keeps one pending code for each identifier and purpose, as its
\* comment says, as long as no two issues for the purpose were in flight at
\* once.  The cooldown keeps them apart unless it ends, or is reset, first.
OnePendingCode ==
  \A p \in Purposes \ overlapped : \A j, k \in Pending(p) : j = k

\* Attempt cap under concurrency: each of the other requests in flight adds
\* at most one wrong guess to the configured number.
AttemptsBounded ==
  \A k \in Rows : attempts[k] < MaxAttempts + Cardinality(Requests)

\* One-time use, as far as the code guarantees it: once a code has let somebody
\* in, only requests that had already read its row can still be let in by it,
\* so that no code is ever used more often than there are concurrent requests.
OneTimeUse ==
  \A k \in Rows :
    /\ used[k] > 0 => k \in dead
    /\ used[k] + Cardinality(Accepting(k)) <= Cardinality(Requests)

\* A code that used up its attempts while nobody was being let in by it never
\* lets anybody in, even when the request that counted the last attempt died
\* before it could consume the row.
CapIsFinal == [][\A k \in capped : used'[k] = used[k]]_vars

\* The hourly limit of an identifier holds for codes sent, but for the
\* requests that were already admitted when the window opened.
SendsBounded == quota >= 0

\* What the comment of verify() says: the code is consumed on success, for one
\* use.  The code does not reach it: consume() does not ask whether the row is
\* still unconsumed, so that two requests may both be let in by one code.
OneTimeUseAlways == \A k \in Rows : used[k] <= 1
=============================================================================
