----------------------------- MODULE AdminLogin -----------------------------
(***************************************************************************)
(* The administrator's login: AdminAuthService (admin/auth/admin-auth.     *)
(* service.ts) with its two kinds of keys in Redis, the counter of wrong   *)
(* passwords of an IP address and the revoked tokens, and the check that   *)
(* admits a request to the panel (admin/auth/admin-jwt.strategy.ts).       *)
(*                                                                         *)
(* One IP address.  Time is counted down: what a token, or a key, has      *)
(* left.                                                                   *)
(***************************************************************************)
EXTENDS Naturals, FiniteSets

CONSTANTS
  Tokens,        \* ids (jti) of the tokens handed out
  Requests,
  MaxAttempts,   \* ADMIN_MAX_LOGIN_ATTEMPTS
  Lifetime,      \* JWT_ADMIN_TTL
  None

VARIABLES
  failures,      \* the counter, 0 while there is no such key
  life,          \* life[t]: how long t is valid still, 0 if it is expired or not handed out
  revoked,       \* revoked[t]: what the key that revokes t has left, 0 if there is none
  req,           \* what each request does next, and what it has computed
  \* History variables: they are read by properties only.
  guesses,       \* wrong passwords tried since the counter was last empty
  loggedOut      \* tokens whose logout was answered, unless Redis lost its keys since

vars == <<failures, life, revoked, req, guesses, loggedOut>>

Idle == [pc |-> "idle", token |-> None, left |-> 0]
Steps == {"idle", "wrong", "right", "revoke"}

At(r, step) == req[r].pc = step
Become(r, q) == req' = [req EXCEPT ![r] = q]
Return(r) == Become(r, Idle)

-----------------------------------------------------------------------------
(* Faulty variants of the definitions below, each a bug this code could have had. *)

Locked_Never(n) == FALSE                          \* no assertNotLockedOut
RevokeTTL_Fixed(t) == 1                           \* a short key whatever the token has left

-----------------------------------------------------------------------------

\* An administrator may be logged in.
Init ==
  /\ failures = 0
  /\ life \in [Tokens -> {0, Lifetime}]
  /\ revoked = [t \in Tokens |-> 0]
  /\ req = [r \in Requests |-> Idle]
  /\ guesses = 0 /\ loggedOut = {}

Locked(n) == n >= MaxAttempts

\* Of a hash that cannot be read, or none and no password, every password is wrong.
VerifyPassword == {"wrong", "right"}

\* The counter is read before the slow comparison of the password.
LoginBegin(r, verdict) ==
  /\ At(r, "idle")
  /\ ~Locked(failures)
  /\ verdict \in VerifyPassword
  /\ Become(r, [pc |-> verdict, token |-> None, left |-> 0])
  /\ UNCHANGED <<failures, life, revoked, guesses, loggedOut>>

\* INCR, and EXPIRE NX: the window is that of the first failure.
RecordFailure(r) ==
  /\ At(r, "wrong")
  /\ failures' = failures + 1
  /\ guesses' = guesses + 1
  /\ Return(r)
  /\ UNCHANGED <<life, revoked, loggedOut>>

\* The counter is deleted and a token signed with a new id.
LoginDone(r, t) ==
  /\ At(r, "right")
  /\ life[t] = 0 /\ revoked[t] = 0 /\ \A q \in Requests : req[q].token # t
  /\ failures' = 0 /\ guesses' = 0
  /\ life' = [life EXCEPT ![t] = Lifetime]
  /\ loggedOut' = loggedOut \ {t}
  /\ Return(r)
  /\ UNCHANGED revoked

IsRevoked(t) == revoked[t] > 0

\* validate: what every request to the panel has to pass.
Admits(t) == life[t] > 0 /\ ~IsRevoked(t)

\* The life of the key is computed from the token's, at least a second.
RevokeTTL(t) == IF life[t] > 0 THEN life[t] ELSE 1

LogoutBegin(r, t) ==
  /\ At(r, "idle")
  /\ Admits(t)
  /\ Become(r, [pc |-> "revoke", token |-> t, left |-> RevokeTTL(t)])
  /\ UNCHANGED <<failures, life, revoked, guesses, loggedOut>>

Revoke(r) ==
  /\ At(r, "revoke")
  /\ revoked' = [revoked EXCEPT ![req[r].token] = req[r].left]
  /\ loggedOut' = loggedOut \cup {req[r].token}
  /\ Return(r)
  /\ UNCHANGED <<failures, life, guesses>>

\* The window of the counter ends.
WindowEnds ==
  /\ failures > 0
  /\ failures' = 0 /\ guesses' = 0
  /\ UNCHANGED <<life, revoked, req, loggedOut>>

Spent(f) == [t \in Tokens |-> IF f[t] = 0 THEN 0 ELSE f[t] - 1]

Tick ==
  /\ life' = Spent(life)
  /\ revoked' = Spent(revoked)
  /\ UNCHANGED <<failures, req, guesses, loggedOut>>

\* Redis is restarted without its keys.
RedisLost ==
  /\ failures' = 0 /\ guesses' = 0
  /\ revoked' = [t \in Tokens |-> 0]
  /\ loggedOut' = {}
  /\ UNCHANGED <<life, req>>

\* The server stops, or a call of Redis throws: the request fails.
Stop(r) ==
  /\ ~At(r, "idle")
  /\ Return(r)
  /\ UNCHANGED <<failures, life, revoked, guesses, loggedOut>>

Step(r) ==
  \/ RecordFailure(r)
  \/ \E t \in Tokens : LoginDone(r, t)
  \/ Revoke(r)

-----------------------------------------------------------------------------
(* Properties *)

\* The variables stay within their types.
TypeOK ==
  /\ failures \in Nat /\ guesses \in Nat
  /\ life \in [Tokens -> 0 .. Lifetime] /\ revoked \in [Tokens -> 0 .. Lifetime]
  /\ req \in [Requests -> [pc : Steps, token : Tokens \cup {None}, left : 0 .. Lifetime]]
  /\ loggedOut \subseteq Tokens

\* Within one window of the counter no more wrong passwords are compared than the
\* configured number and one for each other request that was past the check by then
\* ("after 10 wrong passwords that address is closed").  One whose INCR fails is not
\* counted: the request ends in an error, and says nothing of the password.
GuessesBounded == guesses < MaxAttempts + Cardinality(Requests)

\* A token that was logged out never opens the panel again: the key that revokes it
\* does not end before the token does, however late it was written.
LogoutHolds == \A t \in loggedOut : ~Admits(t)
=============================================================================
