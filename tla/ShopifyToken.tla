---------------------------- MODULE ShopifyToken ----------------------------
(***************************************************************************)
(* Access to the store: ShopifyGraphqlClient.request (shopify/shopify-     *)
(* graphql.client.ts), which retries, over ShopifyTokenService             *)
(* (shopify/shopify-token.service.ts), which keeps the access token in the *)
(* memory of each process and in Redis, and lets one load at a time go on  *)
(* in a process.  A rejected token is dropped from the memory at once and  *)
(* from Redis a call later.                                                *)
(*                                                                         *)
(* A token is "valid" until the store revokes it.                          *)
(***************************************************************************)
EXTENDS Naturals

CONSTANTS
  Processes,     \* of the server
  Requests,
  MaxRetries,
  None

VARIABLES
  memory,        \* memory[p]: memoryCache, None once it has expired
  cached,        \* the token in Redis
  load,          \* load[p]: the load that inflight stands for
  req,           \* what each request does next, in which process, and its attempts
  revocations    \* how often the store revoked its tokens (bounded)

vars == <<memory, cached, load, req, revocations>>

TokensOrNone == {"valid", "void", None}
NoLoad == [step |-> "none", token |-> None]
LoadSteps == {"none", "redis", "ttl", "fetch", "store", "memory"}

\* rejected counts the 401s (bounded); crossed says that a load was under way in
\* some process while the request dropped a token.  Both are read by properties only.
Idle == [pc |-> "idle", proc |-> None, token |-> None, tries |-> 0,
         rejected |-> 0, crossed |-> FALSE]
Steps == {"idle", "token", "wait", "call", "delete", "failed"}

At(r, step) == req[r].pc = step
Become(r, q) == req' = [req EXCEPT ![r] = q]
Return(r) == Become(r, Idle)

-----------------------------------------------------------------------------
(* Faulty variants of the definitions below, each a bug this code could have had. *)

Dropped_Kept(t) == t                              \* invalidate leaves Redis alone
Retried_OneMore(q) ==
  IF q.tries <= MaxRetries THEN [q EXCEPT !.pc = "token", !.token = None, !.tries = @ + 1]
  ELSE [q EXCEPT !.pc = "failed", !.token = None]

-----------------------------------------------------------------------------
\* retryDelayFor: what becomes of a request whose attempt failed; the wait is left out.
Retried(q) ==
  IF q.tries < MaxRetries THEN [q EXCEPT !.pc = "token", !.token = None, !.tries = @ + 1]
  ELSE [q EXCEPT !.pc = "failed", !.token = None]
Failed(q) == [q EXCEPT !.pc = "failed"]

\* A server that has been running; one that starts is one whose memory has lapsed.
Init ==
  /\ memory = [p \in Processes |-> "valid"] /\ cached = "valid"
  /\ load = [p \in Processes |-> NoLoad]
  /\ req = [r \in Requests |-> Idle]
  /\ revocations = 0

Begin(r, p) ==
  /\ At(r, "idle")
  /\ Become(r, [Idle EXCEPT !.pc = "token", !.proc = p])
  /\ UNCHANGED <<memory, cached, load, revocations>>

\* From the memory, or with the load that is in flight, or by a load that starts.
GetToken(r) ==
  LET p == req[r].proc IN
  /\ At(r, "token")
  /\ \/ /\ memory[p] # None
        /\ Become(r, [req[r] EXCEPT !.pc = "call", !.token = memory[p]])
        /\ UNCHANGED load
     \/ /\ memory[p] = None /\ load[p].step # "none"
        /\ Become(r, [req[r] EXCEPT !.pc = "wait"])
        /\ UNCHANGED load
     \/ /\ memory[p] = None /\ load[p].step = "none"
        /\ load' = [load EXCEPT ![p] = [step |-> "redis", token |-> None]]
        /\ req' = [q \in Requests |->
                     IF q = r THEN [req[q] EXCEPT !.pc = "wait"]
                     ELSE [req[q] EXCEPT !.crossed = @ \/ At(q, "delete")]]
  /\ UNCHANGED <<memory, cached, revocations>>

-----------------------------------------------------------------------------
(* The load of a process *)

LoadRedis(p) ==
  /\ load[p].step = "redis"
  /\ load' = [load EXCEPT ![p] = [step |-> IF cached # None THEN "ttl" ELSE "fetch",
                                  token |-> cached]]
  /\ UNCHANGED <<memory, cached, req, revocations>>

Fetch(p) ==
  /\ load[p].step = "fetch"
  /\ load' = [load EXCEPT ![p] = [step |-> "store", token |-> "valid"]]
  /\ UNCHANGED <<memory, cached, req, revocations>>

StoreRedis(p) ==
  /\ load[p].step = "store"
  /\ cached' = load[p].token
  /\ load' = [load EXCEPT ![p].step = "memory"]
  /\ UNCHANGED <<memory, req, revocations>>

\* Those who joined the load.
Waiting(p) == {r \in Requests : At(r, "wait") /\ req[r].proc = p}

\* A key that is gone by the time its TTL is asked leaves the memory expired; the
\* token that was read is used all the same.
SetMemory(p) ==
  LET l == load[p] IN
  /\ l.step \in {"ttl", "memory"}
  /\ memory' = [memory EXCEPT ![p] = IF l.step = "ttl" /\ cached = None THEN None ELSE l.token]
  /\ load' = [load EXCEPT ![p] = NoLoad]
  /\ req' = [r \in Requests |->
               IF r \in Waiting(p) THEN [req[r] EXCEPT !.pc = "call", !.token = l.token]
               ELSE req[r]]
  /\ UNCHANGED <<cached, revocations>>

\* Everyone who waits fails with it; a network error is one to retry.
LoadFails(p) ==
  /\ load[p].step \notin {"none", "memory"}
  /\ load' = [load EXCEPT ![p] = NoLoad]
  /\ \E outcome \in {"retry", "fail"} :
       req' = [r \in Requests |->
                 IF r \notin Waiting(p) THEN req[r]
                 ELSE IF outcome = "retry" THEN Retried(req[r]) ELSE Failed(req[r])]
  /\ UNCHANGED <<memory, cached, revocations>>

-----------------------------------------------------------------------------
(* The call itself *)

Loading == \E p \in Processes : load[p].step # "none"

Answered(r) ==
  /\ At(r, "call")
  /\ req[r].token = "valid"
  /\ Return(r)
  /\ UNCHANGED <<memory, cached, load, revocations>>

\* A 401 drops the token from the memory, in the same turn.
Rejected(r) ==
  LET q == req[r] IN
  /\ At(r, "call")
  /\ q.token = "void"
  /\ memory' = [memory EXCEPT ![q.proc] = None]
  /\ Become(r, [q EXCEPT !.pc = "delete", !.crossed = @ \/ Loading,
                         !.rejected = IF @ = 2 THEN 2 ELSE @ + 1])
  /\ UNCHANGED <<cached, load, revocations>>

\* A limit, a server error or the network; or an error that is not retried.
CallFails(r) ==
  /\ At(r, "call")
  /\ Become(r, Retried(req[r])) \/ Become(r, Failed(req[r]))
  /\ UNCHANGED <<memory, cached, load, revocations>>

\* invalidate deletes the key, whatever it holds by now.
Dropped(t) == None

Delete(r) ==
  /\ At(r, "delete")
  /\ cached' = Dropped(cached)
  /\ Become(r, Retried(req[r]))
  /\ UNCHANGED <<memory, load, revocations>>

-----------------------------------------------------------------------------

Voided(t) == IF t = "valid" THEN "void" ELSE t

\* The store revokes its tokens, or the app's scopes change.
Revoke ==
  /\ revocations = 0
  /\ revocations' = 1
  /\ memory' = [p \in Processes |-> Voided(memory[p])]
  /\ cached' = Voided(cached)
  /\ load' = [p \in Processes |-> [load[p] EXCEPT !.token = Voided(@)]]
  /\ req' = [r \in Requests |-> [req[r] EXCEPT !.token = Voided(@)]]

\* A token expires early, by REFRESH_MARGIN_SECONDS, in a process and in Redis.
Lapse(p) ==
  /\ memory[p] # None
  /\ memory' = [memory EXCEPT ![p] = None]
  /\ UNCHANGED <<cached, load, req, revocations>>

RedisLost == cached' = None /\ UNCHANGED <<memory, load, req, revocations>>

Step(r) ==
  \/ GetToken(r)
  \/ Rejected(r)
  \/ Delete(r)

LoadStep(p) ==
  \/ LoadRedis(p)
  \/ Fetch(p)
  \/ StoreRedis(p)
  \/ SetMemory(p)

-----------------------------------------------------------------------------
(* Properties *)

\* The variables stay within their types; whoever waits waits for a load.
TypeOK ==
  /\ memory \in [Processes -> TokensOrNone] /\ cached \in TokensOrNone
  /\ load \in [Processes -> [step : LoadSteps, token : TokensOrNone]]
  /\ req \in [Requests -> [pc : Steps, proc : Processes \cup {None}, token : TokensOrNone,
                           tries : 0 .. MaxRetries, rejected : 0 .. 2, crossed : BOOLEAN]]
  /\ revocations \in 0 .. 1
  /\ \A p \in Processes : Waiting(p) # {} => load[p].step # "none"

\* outcome a 401 the retry goes out with a new token ("Token rejected: clear the cache and
\* once more"): of one revocation a request sees two 401s only if a load was under way
\* while it dropped the token.
RetryGetsThrough == \A r \in Requests : req[r].rejected = 2 => req[r].crossed
=============================================================================
