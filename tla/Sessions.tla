------------------------------ MODULE Sessions ------------------------------
(***************************************************************************)
(* Refresh-token sessions: TokenService (auth/token.service.ts), the login *)
(* that opens a session, the logouts, and the administrator's block,       *)
(* unblock and merge, which change the status rotate() looks at.           *)
(*                                                                         *)
(* A request is a slot r of Requests that runs one service method at a     *)
(* time.  Every await on the database is a step of its own, so two         *)
(* requests interleave exactly where the event loop (or another instance   *)
(* of the server) can interleave them; a single updateMany or a            *)
(* transaction is one step.                                                *)
(***************************************************************************)
CONSTANTS
  Customers,   \* Customer rows, all of them existing
  Tokens,      \* RefreshToken ids; bounds the number of rows
  Requests,    \* concurrent requests
  None         \* SQL NULL, and "no row"

ASSUME NoneAssumption == None \notin Customers \cup Tokens

VARIABLES
  status,      \* Customer.status
  owner, family, revoked, replacedBy,   \* the rows, as in TokenLifecycle
  held,        \* tokens some client has received
  pc,          \* pc[r]: what request r does next
  cust,        \* cust[r]: the customer request r works for
  tok,         \* tok[r]: the presented token, as rotate() read it
  new,         \* new[r]: the row rotate() has created
  \* History variables: they are read by properties only.
  burnt,       \* burnt[f]: "no" until reuse detection revoked family f; then
               \* "raced" or "quiet" by whether a rotation of f was in flight
  forked,      \* families in which two rotations overlapped, or one died half way
  sealed       \* customers blocked while none of their logins or rotations was in
               \* flight, and not unblocked or merged since

rowVars == <<owner, family, revoked, replacedBy>>
reqVars == <<pc, cust, tok, new>>
history == <<burnt, forked, sealed>>
vars == <<status, rowVars, held, reqVars, history>>

Statuses == {"ACTIVE", "BLOCKED", "MERGED"}
Steps == {"idle", "issueLogin", "burn", "issueChild", "retire",
          "blockWrite", "blockRevoke", "unblockWrite", "mergeWrite"}

-----------------------------------------------------------------------------
(* Rows *)

Issued == {t \in Tokens : owner[t] # None}
Live == Issued \ revoked
FamilyRows(f) == {t \in Issued : family[t] = f}
CustomerRows(c) == {t \in Issued : owner[t] = c}

\* Requests past their checks that will still create a row.
ChildPending(f) == \E r \in Requests : pc[r] = "issueChild" /\ family[tok[r]] = f
IssuePending(c) == \E r \in Requests : pc[r] \in {"issueLogin", "issueChild"} /\ cust[r] = c

\* updateMany({where: {.., revokedAt: null}, data: {revokedAt: now}})
RevokeAll(S) == revoked' = revoked \cup S

Goto(r, step, c, t, n) ==
  /\ pc' = [pc EXCEPT ![r] = step]
  /\ cust' = [cust EXCEPT ![r] = c]
  /\ tok' = [tok EXCEPT ![r] = t]
  /\ new' = [new EXCEPT ![r] = n]

Return(r) == Goto(r, "idle", None, None, None)

-----------------------------------------------------------------------------
(* Faulty variants of the definitions below, each a bug this code could have had. *)

LoginAllowed_Unchecked(c) == TRUE
ChildFamily_Fresh(t, n) == n                   \* issuePair() without the familyId argument
RevokeFamily_OnlyReused(f, t) == RevokeAll({t})  \* where: {tokenHash} instead of {familyId}
Retired_LeftLive(t) == {}                        \* update without revokedAt
Successor_Customer(r) == cust[r]                 \* the wrong id in replacedById

-----------------------------------------------------------------------------
Init ==
  /\ status = [c \in Customers |-> "ACTIVE"]
  /\ owner = [t \in Tokens |-> None]
  /\ family = [t \in Tokens |-> None]
  /\ revoked = {}
  /\ replacedBy = [t \in Tokens |-> None]
  /\ held = {}
  /\ pc = [r \in Requests |-> "idle"]
  /\ cust = [r \in Requests |-> None]
  /\ tok = [r \in Requests |-> None]
  /\ new = [r \in Requests |-> None]
  /\ burnt = [t \in Tokens |-> "no"]
  /\ forked = {}
  /\ sealed = {}

(* issuePair: a row of customer c in family f, expiring later. *)
CreateRow(n, c, f) ==
  /\ owner[n] = None
  /\ owner' = [owner EXCEPT ![n] = c]
  /\ family' = [family EXCEPT ![n] = f]
  /\ UNCHANGED <<revoked, replacedBy>>

-----------------------------------------------------------------------------
(* Login.  Between the transaction that admits the customer and issuePair  *)
(* lie the Shopify calls of linkShopifySafely: seconds, not milliseconds.  *)
(* c is the customer the identity resolves to (module Identity); it can be *)
(* a MERGED one, since only BLOCKED is refused.                            *)

LoginAllowed(c) == status[c] # "BLOCKED"

LoginBegin(r, c) ==
  /\ pc[r] = "idle"
  /\ LoginAllowed(c)
  /\ Goto(r, "issueLogin", c, None, None)
  /\ UNCHANGED <<status, rowVars, held, history>>

LoginIssue(r, n) ==
  /\ pc[r] = "issueLogin"
  /\ CreateRow(n, cust[r], n)
  /\ held' = held \cup {n}
  /\ Return(r)
  /\ UNCHANGED <<status, history>>

-----------------------------------------------------------------------------
(* rotate(rawToken).  A token is presented by whoever holds it; an unknown *)
(* or an expired one, and one of an inactive customer, is answered 401     *)
(* with no change of state.  Those answers are no steps here, and as no    *)
(* step of a client is ever owed, expiry needs no variable: a token that   *)
(* has expired is one that no RotateAdmit presents any more.               *)

RotateReused(r, t) ==
  /\ pc[r] = "idle"
  /\ t \in held /\ t \in revoked
  /\ Goto(r, "burn", owner[t], t, None)
  /\ UNCHANGED <<status, rowVars, held, history>>

RevokeFamily(f, t) == RevokeAll(FamilyRows(f))

RotateBurn(r) ==
  LET f == family[tok[r]] IN
  /\ pc[r] = "burn"
  /\ RevokeFamily(f, tok[r])
  /\ burnt' = [burnt EXCEPT ![f] = IF ChildPending(f) THEN "raced" ELSE "quiet"]
  /\ Return(r)
  /\ UNCHANGED <<status, owner, family, replacedBy, held, forked, sealed>>

Rotating(f) ==
  \E r \in Requests : pc[r] \in {"issueChild", "retire"} /\ family[tok[r]] = f

RotateAdmit(r, t) ==
  /\ pc[r] = "idle"
  /\ t \in held /\ t \notin revoked
  /\ status[owner[t]] = "ACTIVE"
  /\ Goto(r, "issueChild", owner[t], t, None)
  /\ forked' = IF Rotating(family[t]) THEN forked \cup {family[t]} ELSE forked
  /\ UNCHANGED <<status, rowVars, held, burnt, sealed>>

ChildFamily(t, n) == family[t]

RotateIssue(r, n) ==
  /\ pc[r] = "issueChild"
  /\ CreateRow(n, cust[r], ChildFamily(tok[r], n))
  /\ Goto(r, "retire", cust[r], tok[r], n)
  /\ UNCHANGED <<status, held, history>>

\* The update is by id alone: it stamps the old row whatever happened to it
\* since it was read.
Retired(t) == {t}
Successor(r) == new[r]

RotateRetire(r) ==
  /\ pc[r] = "retire"
  /\ RevokeAll(Retired(tok[r]))
  /\ replacedBy' = [replacedBy EXCEPT ![tok[r]] = Successor(r)]
  /\ held' = held \cup {new[r]}
  /\ Return(r)
  /\ UNCHANGED <<status, owner, family, history>>

-----------------------------------------------------------------------------
(* Logout: one updateMany each. *)

\* revoke(rawToken), and the administrator's revokeSession(customerId, sessionId).
Logout(t) ==
  /\ t \in held /\ t \notin revoked
  /\ RevokeAll({t})
  /\ UNCHANGED <<status, owner, family, replacedBy, held, reqVars, history>>

RevokeSession(c, t) ==
  /\ t \in Live /\ owner[t] = c
  /\ RevokeAll({t})
  /\ UNCHANGED <<status, owner, family, replacedBy, held, reqVars, history>>

\* revokeAllForCustomer, asked for by the customer or by an administrator.
LogoutEverywhere(c) ==
  /\ RevokeAll(CustomerRows(c))
  /\ UNCHANGED <<status, owner, family, replacedBy, held, reqVars, history>>

-----------------------------------------------------------------------------
(* Administrator: the status is read, checked and then written by id. *)

BlockRead(r, c) ==
  /\ pc[r] = "idle"
  /\ status[c] \notin {"MERGED", "BLOCKED"}
  /\ Goto(r, "blockWrite", c, None, None)
  /\ UNCHANGED <<status, rowVars, held, history>>

BlockWrite(r) ==
  /\ pc[r] = "blockWrite"
  /\ status' = [status EXCEPT ![cust[r]] = "BLOCKED"]
  /\ Goto(r, "blockRevoke", cust[r], None, None)
  /\ UNCHANGED <<rowVars, held, history>>

BlockRevoke(r) ==
  LET c == cust[r] IN
  /\ pc[r] = "blockRevoke"
  /\ RevokeAll(CustomerRows(c))
  /\ sealed' = IF status[c] = "BLOCKED" /\ ~IssuePending(c) THEN sealed \cup {c} ELSE sealed
  /\ Return(r)
  /\ UNCHANGED <<status, owner, family, replacedBy, held, burnt, forked>>

UnblockRead(r, c) ==
  /\ pc[r] = "idle"
  /\ status[c] = "BLOCKED"
  /\ Goto(r, "unblockWrite", c, None, None)
  /\ UNCHANGED <<status, rowVars, held, history>>

UnblockWrite(r) ==
  /\ pc[r] = "unblockWrite"
  /\ status' = [status EXCEPT ![cust[r]] = "ACTIVE"]
  /\ sealed' = sealed \ {cust[r]}
  /\ Return(r)
  /\ UNCHANGED <<rowVars, held, burnt, forked>>

\* AdminCustomerMergeService.merge, as far as it concerns sessions: both
\* customers are read and checked first, the transaction comes later.
MergeRead(r, source, target) ==
  /\ pc[r] = "idle"
  /\ source # target
  /\ status[source] # "MERGED" /\ status[target] = "ACTIVE"
  /\ Goto(r, "mergeWrite", source, None, None)
  /\ UNCHANGED <<status, rowVars, held, history>>

MergeWrite(r) ==
  /\ pc[r] = "mergeWrite"
  /\ RevokeAll(CustomerRows(cust[r]))
  /\ status' = [status EXCEPT ![cust[r]] = "MERGED"]
  /\ sealed' = sealed \ {cust[r]}
  /\ Return(r)
  /\ UNCHANGED <<owner, family, replacedBy, held, burnt, forked>>

-----------------------------------------------------------------------------
(* Environment *)

\* The server stops, or the database connection fails, between two steps of r.
Crash(r) ==
  /\ pc[r] # "idle"
  /\ forked' = IF pc[r] = "retire" THEN forked \cup {family[tok[r]]} ELSE forked
  /\ Return(r)
  /\ UNCHANGED <<status, rowVars, held, burnt, sealed>>

\* AuthService.refresh hands the token to rotate().
Refresh(r) ==
  \/ \E t \in Tokens : RotateReused(r, t) \/ RotateAdmit(r, t)
  \/ RotateBurn(r)
  \/ \E n \in Tokens : RotateIssue(r, n)
  \/ RotateRetire(r)

\* What the app sends: a login, or the refresh of a token.
CustomerStep(r) ==
  \/ \E c \in Customers : LoginBegin(r, c)
  \/ \E n \in Tokens : LoginIssue(r, n)
  \/ Refresh(r)

\* AuthService.logout of the token that is given, and logoutEverywhere, which the
\* app and the panel share.
SignOut ==
  \/ \E t \in Tokens : Logout(t)
  \/ \E c \in Customers : LogoutEverywhere(c)

\* What the panel sends, as far as it takes more than one step.
AdminStep(r) ==
  \/ \E c \in Customers : BlockRead(r, c) \/ UnblockRead(r, c)
  \/ \E c, d \in Customers : MergeRead(r, c, d)
  \/ BlockWrite(r)
  \/ BlockRevoke(r)
  \/ UnblockWrite(r)
  \/ MergeWrite(r)

RequestStep(r) == CustomerStep(r) \/ AdminStep(r) \/ Crash(r)

Next ==
  \/ \E r \in Requests : RequestStep(r)
  \/ SignOut
  \/ \E c \in Customers, t \in Tokens : RevokeSession(c, t)

Spec == Init /\ [][Next]_vars

-----------------------------------------------------------------------------
(* Properties *)

\* The variables stay within their types; an idle request remembers nothing.
TypeOK ==
  /\ status \in [Customers -> Statuses]
  /\ owner \in [Tokens -> Customers \cup {None}]
  /\ family \in [Tokens -> Tokens \cup {None}]
  /\ revoked \subseteq Tokens
  /\ replacedBy \in [Tokens -> Tokens \cup {None}]
  /\ held \subseteq Tokens
  /\ pc \in [Requests -> Steps]
  /\ cust \in [Requests -> Customers \cup {None}]
  /\ tok \in [Requests -> Tokens \cup {None}]
  /\ new \in [Requests -> Tokens \cup {None}]
  /\ burnt \in [Tokens -> {"no", "raced", "quiet"}]
  /\ forked \subseteq Tokens
  /\ sealed \subseteq Customers

\* Reuse detection, as far as the code guarantees it: once a revoked token was
\* presented and its family revoked at a moment when no rotation of the family
\* was between its check and its insert, no token of that family is ever usable
\* again, whatever logins, rotations, logouts and crashes follow.
QuietBurnIsFinal ==
  \A f \in Tokens : burnt[f] = "quiet" => FamilyRows(f) \subseteq revoked

\* Block, as far as the code guarantees it: a customer blocked while none of
\* his logins or rotations was in flight has no usable refresh token until he
\* is unblocked or merged.
SealedCustomerHasNoSession ==
  \A c \in sealed : status[c] = "BLOCKED" /\ CustomerRows(c) \subseteq revoked

\* Rotation keeps one usable token for each device: two live rows of a family
\* are the parent and child of a rotation that has yet to retire the parent,
\* unless two rotations of the family overlapped or one of them died half way.
RotationIsLinear ==
  \A t, u \in Live :
    (t # u /\ family[t] = family[u] /\ family[t] \notin forked) =>
      \E r \in Requests : pc[r] = "retire" /\ {t, u} = {tok[r], new[r]}

\* The rows keep the promises of TokenLifecycle.
Lifecycle ==
  INSTANCE TokenLifecycle WITH owner <- owner, family <- family, revoked <- revoked,
    replacedBy <- replacedBy
RowsAreLifecycle == Lifecycle!Spec

\* What the comment of rotate() says of reuse: the whole family is revoked, so
\* that the thief and the real user are both out.  The code does not reach it:
\* a rotation between its check and its insert adds a live row afterwards.
ReuseEndsFamily ==
  \A f \in Tokens : burnt[f] # "no" => FamilyRows(f) \subseteq revoked
=============================================================================
