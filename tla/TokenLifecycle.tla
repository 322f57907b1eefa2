--------------------------- MODULE TokenLifecycle ---------------------------
(***************************************************************************)
(* What the rows of the refresh_tokens table promise to every reader of    *)
(* it, whoever writes them and in whatever order: a row appears once, live *)
(* and bound for good to one customer and one family; it dies once and     *)
(* for good; and a dead row may name as its successor only another row of  *)
(* the same customer and family.  Sessions.tla is shown to implement this. *)
(***************************************************************************)
CONSTANTS Customers, Tokens, None

VARIABLES
  owner,       \* owner[t]: RefreshToken.customerId, None while t has no row
  family,      \* family[t]: RefreshToken.familyId, named by the family's first row
  revoked,     \* rows whose revokedAt is set
  replacedBy   \* RefreshToken.replacedById, None for NULL

rows == <<owner, family, revoked, replacedBy>>

Issued == {t \in Tokens : owner[t] # None}

Init ==
  /\ owner = [t \in Tokens |-> None]
  /\ family = [t \in Tokens |-> None]
  /\ revoked = {}
  /\ replacedBy = [t \in Tokens |-> None]

\* A fresh live row of customer c: the first of a family, or a further one of
\* a family that already belongs to c.
Appear(t, c, f) ==
  /\ owner[t] = None
  /\ f = t \/ (owner[f] = c /\ family[f] = f)
  /\ owner' = [owner EXCEPT ![t] = c]
  /\ family' = [family EXCEPT ![t] = f]
  /\ UNCHANGED <<revoked, replacedBy>>

\* Any set of existing rows dies.
Die(S) ==
  /\ S \subseteq Issued
  /\ revoked' = revoked \cup S
  /\ UNCHANGED <<owner, family, replacedBy>>

\* t dies, if it had not already, and points at its successor u.
Succeed(t, u) ==
  /\ {t, u} \subseteq Issued
  /\ t # u /\ owner[t] = owner[u] /\ family[t] = family[u]
  /\ revoked' = revoked \cup {t}
  /\ replacedBy' = [replacedBy EXCEPT ![t] = u]
  /\ UNCHANGED <<owner, family>>

Next ==
  \/ \E t, f \in Tokens, c \in Customers : Appear(t, c, f)
  \/ \E S \in SUBSET Tokens : Die(S)
  \/ \E t, u \in Tokens : Succeed(t, u)

Spec == Init /\ [][Next]_rows
=============================================================================
