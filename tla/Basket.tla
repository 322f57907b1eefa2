------------------------------- MODULE Basket -------------------------------
(***************************************************************************)
(* What a customer puts aside: the cart (cart/cart.service.ts), the        *)
(* wishlist and the products viewed last (wishlist/wishlist.service.ts),   *)
(* and steps 5, 6 and 9 of the administrator's merge, which hand them over *)
(* to another account in one transaction at READ COMMITTED.                *)
(***************************************************************************)
EXTENDS Naturals, FiniteSets, FiniteSetsExt

CONSTANTS
  Customers,
  Carts,         \* ids of Cart rows
  Variants,      \* what a line of a cart is for
  Products,      \* what a heart or a view is for
  Views,         \* ids of RecentlyViewed rows
  Requests,
  Limit,         \* RECENT_LIMIT
  MaxQuantity,   \* bound on the quantity of a line
  MaxRequests,   \* bound on the requests made
  None

ASSUME BasketAssumption ==
  /\ None \notin Customers \cup Carts \cup Variants \cup Products
  /\ IsFiniteSet(Views)
  /\ Limit \in Nat \ {0} /\ MaxQuantity \in Nat \ {0} /\ MaxRequests \in Nat

VARIABLES
  cartOf,        \* cartOf[k]: Cart.customerId, unique; None while k has no row
  line,          \* line[k][v]: CartItem.quantity, 0 while there is no such line
  discount,      \* carts with a discountCode
  wish,          \* wish[c]: products of the WishlistItem rows of c
  viewer, product, \* columns of RecentlyViewed, unique together
  viewedAt,      \* column of RecentlyViewed, of which only the order matters; 0 without a row
  merged,        \* customers whose status is MERGED
  req,           \* what each request does next, and what it has read
  begun,         \* how many requests were made
  \* History variables: they are read by properties only.
  owed,          \* owed[c][v]: how many of v customer c asked for and did not take out
  hearts,        \* hearts[c]: what c put on the wishlist and did not take off
  newest,        \* newest[c]: the product c viewed last
  late,          \* customers for whom something was written while a merge of theirs
                 \* was under way or after it, or whose merges overlapped
  untrimmed,     \* customers whose list was merged, or not trimmed because the server stopped
  raced          \* customers who viewed again, or got by a merge, a row that a trim was
                 \* about to delete

cartVars == <<cartOf, line, discount>>
viewVars == <<viewer, product, viewedAt>>
cartHistory == <<owed>>
viewHistory == <<newest, untrimmed, raced>>
vars == <<cartVars, wish, viewVars, merged, req, begun, owed, hearts, late, viewHistory>>

NoLines == [v \in Variants |-> 0]

Idle == [pc |-> "idle", cust |-> None, thing |-> None, cart |-> None, lines |-> NoLines,
         other |-> None, into |-> None, saw |-> {}, had |-> {}, extras |-> {}, watched |-> {}]

Steps == {"idle", "upsert", "code", "heart", "trim", "drop", "commit"}

At(r, step) == req[r].pc = step
Become(r, q) == req' = [req EXCEPT ![r] = q]
Return(r) == Become(r, Idle)

CartsOf(c) == {k \in Carts : cartOf[k] = c}
LinesOf(c) == [v \in Variants |-> IF CartsOf(c) = {} THEN 0 ELSE line[CHOOSE k \in CartsOf(c) : TRUE][v]]
FreeCarts == {k \in Carts : cartOf[k] = None /\ \A r \in Requests : k \notin {req[r].cart, req[r].other}}
ViewsOf(c) == {w \in Views : viewer[w] = c}
Watched(c) == {product[w] : w \in ViewsOf(c)}
FreeViews == {w \in Views : viewer[w] = None /\ \A r \in Requests : w \notin req[r].extras}

\* A merge of c is between its reads and its writes.
Moving(c) == \E m \in Requests : At(m, "commit") /\ req[m].cust = c
Writes(c) == late' = IF c # None /\ (c \in merged \/ Moving(c)) THEN late \cup {c} ELSE late

Take(r, q) ==
  /\ At(r, "idle") /\ begun < MaxRequests
  /\ begun' = begun + 1
  /\ Become(r, q)

\* The guard of every request lets in customers that are not merged.
Begin(r, q) == q.cust \notin merged /\ Take(r, q)

-----------------------------------------------------------------------------
(* Faulty variants of the definitions below, each a bug this code could have had. *)

\* The upsert of a line sets the quantity instead of incrementing it.
Added_Overwritten(l, k, d) ==
  [l EXCEPT ![k] = [v \in Variants |-> IF d[v] = 0 THEN l[k][v] ELSE d[v]]]
Extras_None(c) == {}                             \* never trimmed
CartHanded_Always(r) == IF req[r].lines # NoLines THEN req[r].into ELSE None   \* onto the target's own cart

-----------------------------------------------------------------------------
Init ==
  /\ cartOf = [k \in Carts |-> None]
  /\ line = [k \in Carts |-> NoLines]
  /\ discount = {}
  /\ wish = [c \in Customers |-> {}]
  /\ viewer = [w \in Views |-> None]
  /\ product = [w \in Views |-> None]
  /\ viewedAt = [w \in Views |-> 0]
  /\ merged = {}
  /\ req = [r \in Requests |-> Idle] /\ begun = 0
  /\ owed = [c \in Customers |-> NoLines]
  /\ hearts = [c \in Customers |-> {}]
  /\ newest = [c \in Customers |-> None]
  /\ late = {} /\ untrimmed = {} /\ raced = {}

-----------------------------------------------------------------------------
(* The cart: ensureCart and then a statement on that cart. *)

EnsureCart(c, k) ==
  /\ IF CartsOf(c) # {} THEN k \in CartsOf(c) ELSE k \in FreeCarts
  /\ cartOf' = [cartOf EXCEPT ![k] = c]

\* addItem, or applyDiscount with v = None.  addItem waits for resolveVariant between
\* the guard and ensureCart: the customer it let in may be merged by then.
AddItem(r, c, v, k) ==
  /\ v = None => c \notin merged
  /\ EnsureCart(c, k)
  /\ Take(r, [Idle EXCEPT !.pc = IF v = None THEN "code" ELSE "upsert", !.cust = c,
                          !.thing = v, !.cart = k])
  /\ Writes(c)
  /\ UNCHANGED <<line, discount, wish, viewVars, merged, owed, hearts, viewHistory>>

Plus(l, k, d) == [l EXCEPT ![k] = [v \in Variants |-> l[k][v] + d[v]]]
One(v) == [w \in Variants |-> IF w = v THEN 1 ELSE 0]

\* Whoever's the cart is by now.  Without the cart the statement fails.
UpsertItem(r) ==
  LET k == req[r].cart
      c == cartOf[k]
  IN
  /\ At(r, "upsert")
  /\ IF c = None THEN UNCHANGED <<line, owed>>
     ELSE /\ line[k][req[r].thing] < MaxQuantity
          /\ line' = Plus(line, k, One(req[r].thing))
          /\ owed' = Plus(owed, c, One(req[r].thing))
  /\ Writes(c)
  /\ Return(r)
  /\ UNCHANGED <<cartOf, discount, wish, viewVars, merged, begun, hearts, viewHistory>>

ApplyDiscount(r) ==
  LET k == req[r].cart IN
  /\ At(r, "code")
  /\ discount' = IF cartOf[k] = None THEN discount ELSE discount \cup {k}
  /\ Return(r)
  /\ UNCHANGED <<cartOf, line, wish, viewVars, merged, begun, owed, hearts, late, viewHistory>>

\* updateItem and removeItem (quantity 0): one statement on a line of a cart of c.
UpdateItem(c, k, v, quantity) ==
  /\ cartOf[k] = c /\ c \notin merged
  /\ line[k][v] > 0 /\ line[k][v] # quantity
  /\ line' = [line EXCEPT ![k][v] = quantity]
  /\ owed' = [owed EXCEPT ![c][v] = quantity]
  /\ Writes(c)
  /\ UNCHANGED <<cartOf, discount, wish, viewVars, merged, req, begun, hearts, viewHistory>>

Clear(c, k) ==
  /\ cartOf[k] = c /\ c \notin merged
  /\ line' = [line EXCEPT ![k] = NoLines]
  /\ owed' = [owed EXCEPT ![c] = NoLines]
  /\ Writes(c)
  /\ UNCHANGED <<cartOf, discount, wish, viewVars, merged, req, begun, hearts, viewHistory>>

RemoveDiscount(c, k) ==
  /\ cartOf[k] = c /\ k \in discount /\ c \notin merged
  /\ discount' = discount \ {k}
  /\ UNCHANGED <<cartOf, line, wish, viewVars, merged, req, begun, owed, hearts, late, viewHistory>>

-----------------------------------------------------------------------------
(* The wishlist. *)

\* Nothing is done for what is there already.
AddHeart(r, c, p) ==
  /\ p \notin wish[c]
  /\ Begin(r, [Idle EXCEPT !.pc = "heart", !.cust = c, !.thing = p])
  /\ UNCHANGED <<cartVars, wish, viewVars, merged, owed, hearts, late, viewHistory>>

\* The unique index refuses the second of two.
CreateHeart(r) ==
  LET c == req[r].cust IN
  /\ At(r, "heart")
  /\ wish' = [wish EXCEPT ![c] = @ \cup {req[r].thing}]
  /\ hearts' = [hearts EXCEPT ![c] = @ \cup {req[r].thing}]
  /\ Writes(c)
  /\ Return(r)
  /\ UNCHANGED <<cartVars, viewVars, merged, begun, owed, viewHistory>>

\* A merge that has read the row moves rows by id, and this one is gone.
RemoveHeart(c, p) ==
  /\ p \in wish[c] /\ c \notin merged
  /\ wish' = [wish EXCEPT ![c] = @ \ {p}]
  /\ hearts' = [hearts EXCEPT ![c] = @ \ {p}]
  /\ req' = [m \in Requests |->
               IF At(m, "commit") /\ req[m].cust = c THEN [req[m] EXCEPT !.saw = @ \ {p}] ELSE req[m]]
  /\ Writes(c)
  /\ UNCHANGED <<cartVars, viewVars, merged, begun, owed, viewHistory>>

-----------------------------------------------------------------------------
(* Recently viewed: an upsert, then the rows beyond the limit are read and deleted. *)

\* A trim has read the row and is going to delete it.
Picked(w) == \E q \in Requests : At(q, "drop") /\ w \in req[q].extras

RecordView(r, c, p, w) ==
  LET known == {u \in ViewsOf(c) : product[u] = p}
      before == {viewedAt[u] : u \in Views \ {w}}
  IN
  /\ IF known # {} THEN w \in known ELSE w \in FreeViews
  /\ viewer' = [viewer EXCEPT ![w] = c]
  /\ product' = [product EXCEPT ![w] = p]
  /\ viewedAt' = [viewedAt EXCEPT ![w] = Max({0} \cup before) + 1]
  /\ newest' = [newest EXCEPT ![c] = p]
  /\ raced' = IF Picked(w) THEN raced \cup {c} ELSE raced
  /\ Begin(r, [Idle EXCEPT !.pc = "trim", !.cust = c])
  /\ Writes(c)
  /\ UNCHANGED <<cartVars, wish, merged, owed, hearts, untrimmed>>

Newer(w, rows) == {u \in rows : viewedAt[u] > viewedAt[w]}
Extras(c) == {w \in ViewsOf(c) : Cardinality(Newer(w, ViewsOf(c))) >= Limit}

TrimRead(r) ==
  /\ At(r, "trim")
  /\ IF Extras(req[r].cust) = {} THEN Return(r)
     ELSE Become(r, [req[r] EXCEPT !.pc = "drop", !.extras = Extras(req[r].cust)])
  /\ untrimmed' = untrimmed \ {req[r].cust}
  /\ UNCHANGED <<cartVars, wish, viewVars, merged, begun, owed, hearts, late, newest, raced>>

\* By id: whoever's they are, and however new they are by now.
TrimDelete(r) ==
  LET gone == req[r].extras IN
  /\ At(r, "drop")
  /\ viewer' = [w \in Views |-> IF w \in gone THEN None ELSE viewer[w]]
  /\ product' = [w \in Views |-> IF w \in gone THEN None ELSE product[w]]
  /\ viewedAt' = [w \in Views |-> IF w \in gone THEN 0 ELSE viewedAt[w]]
  /\ Return(r)
  /\ UNCHANGED <<cartVars, wish, merged, begun, owed, hearts, late, viewHistory>>

-----------------------------------------------------------------------------
(* The merge of s into t: what its transaction reads, and what it writes. *)

MergeRead(r, s, t) ==
  /\ s # t /\ t \notin merged
  /\ Begin(r, [Idle EXCEPT !.pc = "commit", !.cust = s, !.into = t,
                           !.cart = IF CartsOf(s) = {} THEN None ELSE CHOOSE k \in CartsOf(s) : TRUE,
                           !.lines = LinesOf(s),
                           !.other = IF CartsOf(t) = {} THEN None ELSE CHOOSE k \in CartsOf(t) : TRUE,
                           !.saw = wish[s], !.had = wish[t],
                           !.extras = ViewsOf(s), !.watched = Watched(t)])
  /\ late' = IF \E m \in Requests : At(m, "commit") THEN late \cup {s, t} ELSE late
  /\ UNCHANGED <<cartVars, wish, viewVars, merged, owed, hearts, viewHistory>>

\* moveWithDedupe: what moves is what the target was read not to have.
ToMove(r) == {w \in req[r].extras : product[w] \notin req[r].watched /\ viewer[w] # None}

\* An index, a foreign key or a cart that is gone refuses one of the writes, and
\* all of them are rolled back.
Refused(r) ==
  LET k == req[r].cart
      t == req[r].into
  IN
  \/ k # None /\ cartOf[k] = None
  \/ k # None /\ req[r].lines # NoLines /\
       IF req[r].other = None THEN CartsOf(t) \ {k} # {} ELSE cartOf[req[r].other] = None
  \/ (req[r].saw \ req[r].had) \cap wish[t] # {}
  \/ \E w \in ToMove(r) : product[w] \in Watched(t)

MergeRefused(r) ==
  /\ At(r, "commit") /\ Refused(r)
  /\ Return(r)
  /\ UNCHANGED <<cartVars, wish, viewVars, merged, begun, owed, hearts, late, viewHistory>>

\* mergeCarts: an empty cart is deleted, a cart is handed over to a target without
\* one, and otherwise its lines are added to those of the target's.
CartHanded(r) == IF req[r].lines # NoLines /\ req[r].other = None THEN req[r].into ELSE None
Added(l, k, d) == Plus(l, k, d)

MergeCart(r) ==
  LET k == req[r].cart IN
  IF k = None THEN UNCHANGED cartVars
  ELSE /\ cartOf' = [cartOf EXCEPT ![k] = CartHanded(r)]
       /\ IF CartHanded(r) # None THEN UNCHANGED <<line, discount>>
          ELSE /\ line' = [(IF req[r].lines = NoLines THEN line
                            ELSE Added(line, req[r].other, req[r].lines)) EXCEPT ![k] = NoLines]
               /\ discount' = discount \ {k}

MergeCommit(r) ==
  LET s == req[r].cust
      t == req[r].into
      move == ToMove(r)
      drop == req[r].extras \ move
      last == {w \in move \cup ViewsOf(t) : Newer(w, move \cup ViewsOf(t)) = {}}
  IN
  /\ At(r, "commit") /\ ~Refused(r)
  /\ req[r].other # None =>
       \A v \in Variants : req[r].lines[v] + line[req[r].other][v] <= MaxQuantity
  /\ MergeCart(r)
  /\ wish' = [wish EXCEPT ![s] = @ \ req[r].saw, ![t] = @ \cup (req[r].saw \ req[r].had)]
  /\ viewer' = [w \in Views |-> IF w \in move THEN t ELSE IF w \in drop THEN None ELSE viewer[w]]
  /\ product' = [w \in Views |-> IF w \in drop THEN None ELSE product[w]]
  /\ viewedAt' = [w \in Views |-> IF w \in drop THEN 0 ELSE viewedAt[w]]
  /\ merged' = merged \cup {s}
  /\ owed' = [Plus(owed, t, owed[s]) EXCEPT ![s] = NoLines]
  /\ hearts' = [hearts EXCEPT ![s] = {}, ![t] = @ \cup (hearts[s] \ req[r].had)]
  /\ late' = IF s \in late THEN late \cup {t} ELSE late
  /\ newest' = [newest EXCEPT ![t] = IF last = {} THEN None ELSE product[CHOOSE w \in last : TRUE]]
  /\ untrimmed' = untrimmed \cup {t}
  /\ raced' = IF \E w \in move : Picked(w) THEN raced \cup {t} ELSE raced
  /\ Return(r)
  /\ UNCHANGED begun

-----------------------------------------------------------------------------

\* The server stops, or the database fails.
Stop(r) ==
  /\ ~At(r, "idle")
  /\ untrimmed' = IF req[r].pc \in {"trim", "drop"} THEN untrimmed \cup {req[r].cust} ELSE untrimmed
  /\ Return(r)
  /\ UNCHANGED <<cartVars, wish, viewVars, merged, begun, owed, hearts, late, newest, raced>>

CartRequest ==
  \E c \in Customers, k \in Carts :
    \/ \E r \in Requests, v \in Variants \cup {None} : AddItem(r, c, v, k)
    \/ \E v \in Variants, quantity \in 0 .. MaxQuantity : UpdateItem(c, k, v, quantity)
    \/ Clear(c, k)
    \/ RemoveDiscount(c, k)

WishlistRequest ==
  \E c \in Customers, p \in Products :
    \/ \E r \in Requests : AddHeart(r, c, p)
    \/ RemoveHeart(c, p)

ViewRequest ==
  \E r \in Requests, c \in Customers, p \in Products, w \in Views : RecordView(r, c, p, w)

Step(r) ==
  \/ UpsertItem(r)
  \/ ApplyDiscount(r)
  \/ CreateHeart(r)
  \/ TrimRead(r)
  \/ TrimDelete(r)
  \/ \E s, t \in Customers : MergeRead(r, s, t)
  \/ MergeRefused(r)
  \/ MergeCommit(r)
  \/ Stop(r)

Next ==
  \/ CartRequest
  \/ WishlistRequest
  \/ ViewRequest
  \/ \E r \in Requests : Step(r)

Spec == Init /\ [][Next]_vars

-----------------------------------------------------------------------------
(* Properties *)

\* The variables stay within their types, and the unique indexes hold.
TypeOK ==
  /\ cartOf \in [Carts -> Customers \cup {None}]
  /\ line \in [Carts -> [Variants -> 0 .. MaxQuantity]]
  /\ discount \subseteq {k \in Carts : cartOf[k] # None}
  /\ wish \in [Customers -> SUBSET Products]
  /\ viewer \in [Views -> Customers \cup {None}] /\ product \in [Views -> Products \cup {None}]
  /\ viewedAt \in [Views -> 0 .. begun]
  /\ \A v, w \in Views : v # w /\ viewedAt[v] = viewedAt[w] => viewer[v] = None /\ viewer[w] = None
  /\ merged \subseteq Customers
  /\ \A r \in Requests : req[r].pc \in Steps
  /\ begun \in 0 .. MaxRequests
  /\ \A k, l \in Carts : k # l /\ cartOf[k] # None => cartOf[k] # cartOf[l]
  /\ \A v, w \in Views : v # w /\ viewer[v] # None => <<viewer[v], product[v]>> # <<viewer[w], product[w]>>

\* A merge hands over what it is a merge of: the quantities of both carts are added
\* up, every heart arrives, and nothing stays behind with the merged account,
\* whatever either customer does meanwhile, except what is written for the merged
\* account while its merge is under way or after it, and merges that overlap.
NothingLost ==
  \A c \in Customers \ late : LinesOf(c) = owed[c] /\ wish[c] = hearts[c]

\* The list of products viewed last: trimmed to its limit when nobody is viewing,
\* however the views overlapped, unless the server stopped or a merge made it longer;
\* and the product viewed last is on it, unless a trim had picked its row to delete.
RecentIsRecent ==
  \A c \in Customers \ (late \cup untrimmed \cup merged) :
    (\A r \in Requests : req[r].cust # c /\ req[r].into # c) =>
      /\ Cardinality(ViewsOf(c)) <= Limit
      /\ newest[c] # None /\ c \notin raced => newest[c] \in Watched(c)
=============================================================================
