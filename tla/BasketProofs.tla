---------------------------- MODULE BasketProofs ----------------------------
(***************************************************************************)
(* Proofs about module Basket, for any customers, carts, rows and requests *)
(* and any length of the list.                                             *)
(***************************************************************************)
EXTENDS Basket, FiniteSetTheorems, WellFoundedInduction, TLAPS

(***************************************************************************)
(* Least and greatest numbers                                              *)
(***************************************************************************)

\* Some number of a set is the least.
LEMMA Least ==
  ASSUME NEW S \in SUBSET Nat, S # {}
  PROVE  \E x \in S : \A y \in S : x <= y
  <1> DEFINE Below(x) == {y \in S : y < x}
             Sets == {Below(x) : x \in S}
  <1>1. Sets \subseteq FiniteSubsetsOf(S)
    <2>1. ASSUME NEW x \in S PROVE Below(x) \in SUBSET S /\ IsFiniteSet(Below(x))
      <3>1. x \in Nat /\ Below(x) \in SUBSET Nat
        OBVIOUS
      <3>2. \A y \in Below(x) : y <= x
        BY <3>1
      <3>3. IsFiniteSet(Below(x))
        BY <3>1, <3>2, FS_BoundedSetOfNaturals
      <3>4. QED
        BY <3>3
    <2> HIDE DEF Below
    <2>2. QED
      BY <2>1 DEF FiniteSubsetsOf
  <1>2. Sets # {}
    OBVIOUS
  <1>3. PICK B \in Sets : \A A \in Sets : <<A, B>> \notin StrictSubsetOrdering(S)
    <2>1. IsWellFoundedOn(StrictSubsetOrdering(S), FiniteSubsetsOf(S))
      BY FS_StrictSubsetOrderingWellFounded
    <2> HIDE DEF Sets
    <2>2. QED
      BY <1>1, <1>2, <2>1, WFMin
  <1>4. PICK x \in S : B = Below(x)
    BY <1>3
  <1>5. ASSUME NEW y \in S, ~ x <= y PROVE FALSE
    <2>1. y < x /\ x \in Nat /\ y \in Nat
      BY <1>5
    <2>2. Below(y) \subseteq Below(x) /\ y \in Below(x) /\ y \notin Below(y)
      <3>1. ASSUME NEW z \in S, z < y PROVE z < x
        <4>1. z \in Nat
          OBVIOUS
        <4> HIDE DEF Sets, Below
        <4>2. QED
          BY <2>1, <3>1, <4>1
      <3>2. Below(y) \subseteq Below(x) /\ y \in Below(x)
        BY <2>1, <3>1
      <3>3. ~ y < y
        BY <2>1
      <3>4. QED
        BY <3>2, <3>3
    <2>3. Below(y) \in SUBSET S /\ Below(x) \in SUBSET S
      OBVIOUS
    <2> HIDE DEF Below
    <2>4. <<Below(y), Below(x)>> \in StrictSubsetOrdering(S)
      BY <2>2, <2>3 DEF StrictSubsetOrdering
    <2>5. QED
      BY <1>3, <1>4, <2>4
  <1>6. QED
    BY <1>5

\* Some number of a bounded set is the greatest.
LEMMA Greatest ==
  ASSUME NEW S \in SUBSET Nat, S # {}, NEW n \in Nat, \A y \in S : y <= n
  PROVE  \E x \in S : \A y \in S : y <= x
  <1> DEFINE Caps == {m \in Nat : \A y \in S : y <= m}
  <1>1. Caps \in SUBSET Nat /\ n \in Caps
    OBVIOUS
  <1>2. PICK m \in Caps : \A k \in Caps : m <= k
    <2> HIDE DEF Caps
    <2>1. QED
      BY <1>1, Least
  <1>3. CASE m \in S
    BY <1>3
  <1>4. CASE m \notin S
    <2>1. \A y \in S : y < m
      BY <1>4
    <2>2. m # 0
      <3>1. PICK y \in S : TRUE
        OBVIOUS
      <3>2. y \in Nat /\ y < m
        BY <2>1
      <3>3. QED
        BY <3>2
    <2>3. m - 1 \in Caps
      BY <2>1, <2>2
    <2>4. QED
      BY <1>1, <1>2, <2>3
  <1>5. QED
    BY <1>3, <1>4

(***************************************************************************)
(* Types                                                                   *)
(***************************************************************************)

CartTypes ==
  /\ cartOf \in [Carts -> Customers \cup {None}]
  /\ line \in [Carts -> [Variants -> 0 .. MaxQuantity]]
  /\ discount \subseteq {k \in Carts : cartOf[k] # None}
  /\ \A k, l \in Carts : k # l /\ cartOf[k] # None => cartOf[k] # cartOf[l]

ViewTypes ==
  /\ viewer \in [Views -> Customers \cup {None}] /\ product \in [Views -> Products \cup {None}]
  /\ viewedAt \in [Views -> 0 .. begun]
  /\ \A w \in Views : viewer[w] # None => viewedAt[w] # 0
  /\ \A v, w \in Views : v # w /\ viewedAt[v] = viewedAt[w] => viewer[v] = None /\ viewer[w] = None
  /\ \A v, w \in Views : v # w /\ viewer[v] # None => <<viewer[v], product[v]>> # <<viewer[w], product[w]>>

OtherTypes ==
  /\ wish \in [Customers -> SUBSET Products] /\ hearts \in [Customers -> SUBSET Products]
  /\ owed \in [Customers -> [Variants -> Nat]]
  /\ newest \in [Customers -> Products \cup {None}]
  /\ merged \subseteq Customers /\ late \subseteq Customers
  /\ untrimmed \subseteq Customers /\ raced \subseteq Customers
  /\ begun \in 0 .. MaxRequests

Reqs ==
  [pc : Steps, cust : Customers \cup {None}, thing : Variants \cup Products \cup {None},
   cart : Carts \cup {None}, lines : [Variants -> 0 .. MaxQuantity], other : Carts \cup {None},
   into : Customers \cup {None}, saw : SUBSET Products, had : SUBSET Products,
   extras : SUBSET Views, watched : SUBSET (Products \cup {None})]

\* What a request has in hand at its step.
InHand(q) ==
  /\ q.pc = "upsert" => q.cart \in Carts /\ q.thing \in Variants
  /\ q.pc = "code" => q.cart \in Carts
  /\ q.pc = "heart" => q.cust \in Customers /\ q.thing \in Products
  /\ q.pc \in {"trim", "drop"} => q.cust \in Customers
  /\ q.pc = "commit" =>
       /\ q.cust \in Customers /\ q.into \in Customers /\ q.cust # q.into
       /\ q.cart = None => q.lines = NoLines
       /\ q.cart # None => q.cart # q.other

RequestTypes == req \in [Requests -> Reqs] /\ \A r \in Requests : InHand(req[r])

\* The rows a merge is about to move are of different products.
RowsDiffer ==
  \A r \in Requests : At(r, "commit") =>
    \A v, w \in req[r].extras : v # w /\ viewer[v] # None /\ viewer[w] # None => product[v] # product[w]

Sound == CartTypes /\ ViewTypes /\ OtherTypes /\ RequestTypes /\ RowsDiffer

LEMMA SoundIsTyped == Sound => TypeOK
  <1> SUFFICES ASSUME Sound PROVE TypeOK
    OBVIOUS
  <1>1. \A r \in Requests : req[r].pc \in Steps
    BY DEF Sound, RequestTypes, Reqs
  <1>2. QED
    BY <1>1 DEF Sound, TypeOK, CartTypes, ViewTypes, OtherTypes

LEMMA NoNone == None \notin Customers /\ None \notin Carts /\ None \notin Variants /\ None \notin Products
  BY BasketAssumption

LEMMA IdleInHand == Idle \in Reqs /\ InHand(Idle)
  <1>1. NoLines \in [Variants -> 0 .. MaxQuantity]
    BY BasketAssumption DEF NoLines
  <1>2. QED
    BY <1>1 DEF Idle, Reqs, InHand, Steps

\* A request has something else in hand, and no other request has.
LEMMA RequestBecomes ==
  ASSUME RequestTypes, NEW r \in Requests, NEW q \in Reqs, InHand(q), Become(r, q)
  PROVE  /\ RequestTypes'
         /\ req'[r] = q
         /\ \A m \in Requests \ {r} : req'[m] = req[m]
  <1>1. req' \in [Requests -> Reqs] /\ req'[r] = q /\ \A m \in Requests \ {r} : req'[m] = req[m]
    BY DEF RequestTypes, Become
  <1>2. \A m \in Requests : InHand(req'[m])
    BY <1>1 DEF RequestTypes
  <1>3. QED
    BY <1>1, <1>2 DEF RequestTypes, InHand

\* A request goes on with something well typed in hand; a merge begins with what it reads.
Takes(r) ==
  \E q \in Reqs :
    /\ InHand(q) /\ Become(r, q)
    /\ q.pc = "commit" => \E s, t \in Customers : MergeRead(r, s, t)

LEMMA ReturnTakes == ASSUME NEW r \in Requests, Return(r) PROVE Takes(r)
  BY IdleInHand DEF Takes, Return, Idle

LEMMA AddItemTakes ==
  ASSUME Sound, NEW r \in Requests, NEW c \in Customers, NEW v \in Variants \cup {None},
         NEW k \in Carts, AddItem(r, c, v, k)
  PROVE  Takes(r)
  <1> DEFINE q == [Idle EXCEPT !.pc = IF v = None THEN "code" ELSE "upsert", !.cust = c,
                               !.thing = v, !.cart = k]
  <1>1. Become(r, q)
    BY DEF AddItem, Take
  <1>2. q \in Reqs /\ InHand(q) /\ q.pc # "commit"
    BY IdleInHand DEF Idle, Reqs, InHand, Steps
  <1>3. QED
    BY <1>1, <1>2 DEF Takes

LEMMA AddHeartTakes ==
  ASSUME Sound, NEW r \in Requests, NEW c \in Customers, NEW p \in Products, AddHeart(r, c, p)
  PROVE  Takes(r)
  <1> DEFINE q == [Idle EXCEPT !.pc = "heart", !.cust = c, !.thing = p]
  <1>1. Become(r, q)
    BY DEF AddHeart, Begin, Take
  <1>2. q \in Reqs /\ InHand(q) /\ q.pc # "commit"
    BY IdleInHand DEF Idle, Reqs, InHand, Steps
  <1>3. QED
    BY <1>1, <1>2 DEF Takes

LEMMA RecordViewTakes ==
  ASSUME Sound, NEW r \in Requests, NEW c \in Customers, NEW p \in Products, NEW w \in Views,
         RecordView(r, c, p, w)
  PROVE  Takes(r)
  <1> DEFINE q == [Idle EXCEPT !.pc = "trim", !.cust = c]
  <1>1. Become(r, q)
    BY DEF RecordView, Begin, Take
  <1>2. q \in Reqs /\ InHand(q) /\ q.pc # "commit"
    BY IdleInHand DEF Idle, Reqs, InHand, Steps
  <1>3. QED
    BY <1>1, <1>2 DEF Takes

LEMMA TrimReadTakes ==
  ASSUME Sound, NEW r \in Requests, TrimRead(r)
  PROVE  Takes(r)
  <1> DEFINE q == [req[r] EXCEPT !.pc = "drop", !.extras = Extras(req[r].cust)]
  <1>1. CASE Return(r)
    BY <1>1, ReturnTakes
  <1>2. CASE Become(r, q)
    <2>1. req[r] \in Reqs /\ req[r].cust \in Customers
      BY DEF Sound, RequestTypes, InHand, TrimRead, At
    <2>2. Extras(req[r].cust) \in SUBSET Views
      BY DEF Extras, ViewsOf
    <2>3. q \in Reqs /\ InHand(q) /\ q.pc # "commit"
      BY <2>1, <2>2 DEF Reqs, InHand, Steps
    <2>4. QED
      BY <1>2, <2>3 DEF Takes
  <1>3. QED
    BY <1>1, <1>2 DEF TrimRead

\* A customer's cart, if he has one, is his.
LEMMA OwnCart ==
  ASSUME NEW c \in Customers
  PROVE  LET k == IF CartsOf(c) = {} THEN None ELSE CHOOSE j \in CartsOf(c) : TRUE
         IN  /\ k = None => CartsOf(c) = {}
             /\ k # None => k \in CartsOf(c) /\ k \in Carts /\ cartOf[k] = c
             /\ LinesOf(c) = IF k = None THEN NoLines ELSE [v \in Variants |-> line[k][v]]
  <1>1. CASE CartsOf(c) = {}
    BY <1>1 DEF LinesOf, NoLines
  <1>2. CASE CartsOf(c) # {}
    <2>1. PICK k \in CartsOf(c) : k = CHOOSE j \in CartsOf(c) : TRUE
      BY <1>2
    <2>2. k \in Carts /\ k # None /\ cartOf[k] = c
      BY <2>1, NoNone DEF CartsOf
    <2>3. QED
      BY <1>2, <2>1, <2>2 DEF LinesOf
  <1>3. QED
    BY <1>1, <1>2

\* What a merge has read, as it begins.
LEMMA MergeReadTakes ==
  ASSUME Sound, NEW r \in Requests, NEW s \in Customers, NEW t \in Customers, MergeRead(r, s, t)
  PROVE  /\ Takes(r)
         /\ req'[r].pc = "commit" /\ req'[r].cust = s /\ req'[r].into = t
         /\ req'[r].cart = None => CartsOf(s) = {}
         /\ req'[r].cart # None => cartOf[req'[r].cart] = s /\ req'[r].lines = line[req'[r].cart]
         /\ req'[r].other # None => cartOf[req'[r].other] = t
         /\ req'[r].saw = wish[s] /\ req'[r].extras = ViewsOf(s)
  <1> DEFINE ks == IF CartsOf(s) = {} THEN None ELSE CHOOSE j \in CartsOf(s) : TRUE
             kt == IF CartsOf(t) = {} THEN None ELSE CHOOSE j \in CartsOf(t) : TRUE
             q == [Idle EXCEPT !.pc = "commit", !.cust = s, !.into = t, !.cart = ks,
                               !.lines = LinesOf(s), !.other = kt, !.saw = wish[s], !.had = wish[t],
                               !.extras = ViewsOf(s), !.watched = Watched(t)]
  <1>1. Become(r, q) /\ s # t
    BY DEF MergeRead, Begin, Take
  <1>2. /\ ks = None => CartsOf(s) = {}
        /\ ks # None => ks \in Carts /\ cartOf[ks] = s
        /\ LinesOf(s) = IF ks = None THEN NoLines ELSE [v \in Variants |-> line[ks][v]]
    BY OwnCart
  <1>3. kt # None => kt \in Carts /\ cartOf[kt] = t
    BY OwnCart
  <1>4. ks # None => line[ks] \in [Variants -> 0 .. MaxQuantity] /\ LinesOf(s) = line[ks]
    BY <1>2 DEF Sound, CartTypes
  <1>5. wish[s] \in SUBSET Products /\ wish[t] \in SUBSET Products
    BY DEF Sound, OtherTypes
  <1>6. ViewsOf(s) \in SUBSET Views /\ Watched(t) \in SUBSET (Products \cup {None})
    BY DEF Sound, ViewTypes, ViewsOf, Watched
  <1>7. LinesOf(s) \in [Variants -> 0 .. MaxQuantity]
    BY <1>2, <1>4, IdleInHand DEF Idle, Reqs
  <1> HIDE DEF ks, kt
  <1>8. ks # None => ks # kt
    BY <1>1, <1>2, <1>3
  <1>9. q \in Reqs
    BY <1>2, <1>3, <1>5, <1>6, <1>7 DEF Idle, Reqs, Steps
  <1>10. /\ q.pc = "commit" /\ q.cust = s /\ q.into = t /\ q.cart = ks /\ q.lines = LinesOf(s)
         /\ q.other = kt /\ q.saw = wish[s] /\ q.extras = ViewsOf(s)
    BY DEF Idle
  <1> HIDE DEF q
  <1>11. InHand(q)
    BY <1>1, <1>2, <1>8, <1>10 DEF InHand
  <1>12. req'[r] = q
    BY <1>1, <1>9, <1>11, RequestBecomes DEF Sound
  <1>13. QED
    BY <1>1, <1>2, <1>3, <1>4, <1>9, <1>10, <1>11, <1>12 DEF Takes

\* A heart that is taken off leaves the merges that have seen it.
LEMMA HeartLeaves ==
  ASSUME Sound, NEW c \in Customers, NEW p \in Products, RemoveHeart(c, p)
  PROVE  /\ RequestTypes'
         /\ \A r \in Requests : \E seen \in SUBSET Products :
              /\ req'[r] = [req[r] EXCEPT !.saw = seen]
              /\ (At(r, "commit") /\ req[r].cust = c) \/ seen = req[r].saw
  <1>1. ASSUME NEW r \in Requests
        PROVE  \E seen \in SUBSET Products :
                 /\ req'[r] = [req[r] EXCEPT !.saw = seen]
                 /\ (At(r, "commit") /\ req[r].cust = c) \/ seen = req[r].saw
    <2>1. req[r] \in Reqs
      BY DEF Sound, RequestTypes
    <2>2. req[r].saw \in SUBSET Products /\ req[r] = [req[r] EXCEPT !.saw = req[r].saw]
      BY <2>1 DEF Reqs
    <2>3. CASE At(r, "commit") /\ req[r].cust = c
      <3>1. req'[r] = [req[r] EXCEPT !.saw = req[r].saw \ {p}]
        BY <2>3 DEF RemoveHeart
      <3>2. QED
        BY <2>2, <2>3, <3>1
    <2>4. CASE ~ (At(r, "commit") /\ req[r].cust = c)
      <3>1. req'[r] = req[r]
        BY <2>4 DEF RemoveHeart
      <3>2. QED
        BY <2>2, <3>1
    <2>5. QED
      BY <2>3, <2>4
  <1>2. ASSUME NEW r \in Requests PROVE req'[r] \in Reqs /\ InHand(req'[r])
    <2>1. req[r] \in Reqs /\ InHand(req[r])
      BY DEF Sound, RequestTypes
    <2>2. PICK seen \in SUBSET Products : req'[r] = [req[r] EXCEPT !.saw = seen]
      BY <1>1
    <2>3. QED
      BY <2>1, <2>2 DEF Reqs, InHand
  <1>3. req' = [r \in Requests |-> req'[r]]
    BY DEF RemoveHeart
  <1>4. QED
    BY <1>1, <1>2, <1>3 DEF RequestTypes, InHand

LEMMA RequestsMove ==
  ASSUME Sound, [Next]_vars
  PROVE  \/ req' = req
         \/ \E r \in Requests : Takes(r)
         \/ \E c \in Customers, p \in Products : RemoveHeart(c, p)
  <1>1. CASE CartRequest
    <2>1. ASSUME NEW r \in Requests, NEW c \in Customers, NEW v \in Variants \cup {None},
                 NEW k \in Carts, AddItem(r, c, v, k)
          PROVE  Takes(r)
      BY <2>1, AddItemTakes
    <2>2. QED
      BY <1>1, <2>1 DEF CartRequest, UpdateItem, Clear, RemoveDiscount
  <1>2. CASE WishlistRequest
    <2>1. ASSUME NEW r \in Requests, NEW c \in Customers, NEW p \in Products, AddHeart(r, c, p)
          PROVE  Takes(r)
      BY <2>1, AddHeartTakes
    <2>2. QED
      BY <1>2, <2>1 DEF WishlistRequest
  <1>3. CASE ViewRequest
    <2>1. ASSUME NEW r \in Requests, NEW c \in Customers, NEW p \in Products, NEW w \in Views,
                 RecordView(r, c, p, w)
          PROVE  Takes(r)
      BY <2>1, RecordViewTakes
    <2>2. QED
      BY <1>3, <2>1 DEF ViewRequest
  <1>4. ASSUME NEW r \in Requests, Step(r) PROVE Takes(r)
    <2>1. ASSUME NEW s \in Customers, NEW t \in Customers, MergeRead(r, s, t) PROVE Takes(r)
      BY <2>1, MergeReadTakes
    <2>2. QED
      BY <1>4, <2>1, ReturnTakes, TrimReadTakes
      DEF Step, UpsertItem, ApplyDiscount, CreateHeart, TrimDelete, MergeRefused, MergeCommit, Stop
  <1>5. CASE UNCHANGED vars
    BY <1>5 DEF vars
  <1>6. QED
    BY <1>1, <1>2, <1>3, <1>4, <1>5 DEF Next

LEMMA RequestTypesKept == Sound /\ [Next]_vars => RequestTypes'
  <1> SUFFICES ASSUME Sound, [Next]_vars PROVE RequestTypes'
    OBVIOUS
  <1>1. CASE req' = req
    BY <1>1 DEF Sound, RequestTypes, InHand
  <1>2. ASSUME NEW r \in Requests, Takes(r) PROVE RequestTypes'
    BY <1>2, RequestBecomes DEF Takes, Sound
  <1>3. QED
    BY <1>1, <1>2, RequestsMove, HeartLeaves

(***************************************************************************)
(* The carts                                                               *)
(***************************************************************************)

CartMoves ==
  \/ UNCHANGED cartVars /\ UNCHANGED owed
  \/ \E c \in Customers, k \in Carts :
       \/ \E r \in Requests, v \in Variants \cup {None} : AddItem(r, c, v, k)
       \/ \E v \in Variants, quantity \in 0 .. MaxQuantity : UpdateItem(c, k, v, quantity)
       \/ Clear(c, k)
       \/ RemoveDiscount(c, k)
  \/ \E r \in Requests : UpsertItem(r) \/ ApplyDiscount(r) \/ MergeCommit(r)

LEMMA CartsMove == [Next]_vars => CartMoves
  <1> SUFFICES ASSUME [Next]_vars PROVE CartMoves
    OBVIOUS
  <1>1. CASE CartRequest
    BY <1>1 DEF CartRequest, CartMoves
  <1>2. CASE WishlistRequest
    BY <1>2 DEF WishlistRequest, AddHeart, RemoveHeart, CartMoves
  <1>3. CASE ViewRequest
    BY <1>3 DEF ViewRequest, RecordView, CartMoves
  <1>4. ASSUME NEW r \in Requests, Step(r) PROVE CartMoves
    BY <1>4 DEF Step, CreateHeart, TrimRead, TrimDelete, MergeRead, MergeRefused, Stop, CartMoves
  <1>5. CASE UNCHANGED vars
    BY <1>5 DEF vars, CartMoves
  <1>6. QED
    BY <1>1, <1>2, <1>3, <1>4, <1>5 DEF Next

\* An item or a discount needs a cart: the customer's own, or a new one.
LEMMA CartEnsured ==
  ASSUME Sound, NEW r \in Requests, NEW c \in Customers, NEW v \in Variants \cup {None},
         NEW k \in Carts, AddItem(r, c, v, k)
  PROVE  /\ cartOf' = [cartOf EXCEPT ![k] = c]
         /\ \/ cartOf[k] = c
            \/ /\ cartOf[k] = None /\ CartsOf(c) = {}
               /\ \A m \in Requests : k # req[m].cart /\ k # req[m].other
  BY DEF AddItem, EnsureCart, CartsOf, FreeCarts

\* What a merge does to the carts: nothing, it hands one over, deletes an empty one, or adds up two.
LEMMA CartsMerged ==
  ASSUME Sound, NEW r \in Requests, MergeCommit(r)
  PROVE  LET k == req[r].cart
             t == req[r].into
             l == req[r].other
             lines == req[r].lines
         IN  \/ k = None /\ UNCHANGED cartVars
             \/ /\ k \in Carts /\ lines # NoLines /\ l = None
                /\ cartOf[k] # None /\ CartsOf(t) \subseteq {k}
                /\ cartOf' = [cartOf EXCEPT ![k] = t] /\ UNCHANGED <<line, discount>>
             \/ /\ k \in Carts /\ lines = NoLines
                /\ cartOf' = [cartOf EXCEPT ![k] = None] /\ line' = [line EXCEPT ![k] = NoLines]
                /\ discount' = discount \ {k}
             \/ /\ k \in Carts /\ l \in Carts /\ k # l /\ lines # NoLines /\ cartOf[l] # None
                /\ \A v \in Variants : lines[v] + line[l][v] <= MaxQuantity
                /\ cartOf' = [cartOf EXCEPT ![k] = None]
                /\ line' = [line EXCEPT ![l] = [v \in Variants |-> line[l][v] + lines[v]],
                                        ![k] = NoLines]
                /\ discount' = discount \ {k}
  <1> DEFINE k == req[r].cart
             t == req[r].into
             l == req[r].other
             lines == req[r].lines
  <1>1. /\ MergeCart(r) /\ ~ Refused(r) /\ req[r].pc = "commit"
        /\ l # None => \A v \in Variants : lines[v] + line[l][v] <= MaxQuantity
    BY DEF MergeCommit, At
  <1>2. /\ k \in Carts \cup {None} /\ l \in Carts \cup {None} /\ t \in Customers
        /\ k # None => k # l
    BY <1>1 DEF Sound, RequestTypes, Reqs, InHand
  <1>3. CASE k = None
    BY <1>1, <1>3 DEF MergeCart
  <1>4. CASE k # None /\ lines # NoLines /\ l = None
    BY <1>1, <1>2, <1>4, NoNone DEF MergeCart, CartHanded, Refused
  <1>5. CASE k # None /\ lines = NoLines
    BY <1>1, <1>2, <1>5 DEF MergeCart, CartHanded
  <1>6. CASE k # None /\ lines # NoLines /\ l # None
    BY <1>1, <1>2, <1>6 DEF MergeCart, CartHanded, Refused, Added, Plus
  <1>7. QED
    BY <1>3, <1>4, <1>5, <1>6

LEMMA CartTypesKept == Sound /\ [Next]_vars => CartTypes'
  <1> SUFFICES ASSUME Sound, [Next]_vars PROVE CartTypes'
    OBVIOUS
  <1> USE NoNone
  <1>1. CASE UNCHANGED cartVars
    BY <1>1 DEF Sound, CartTypes, cartVars
  <1>2. ASSUME NEW r \in Requests, NEW c \in Customers, NEW v \in Variants \cup {None},
               NEW k \in Carts, AddItem(r, c, v, k)
        PROVE  CartTypes'
    <2>1. UNCHANGED <<line, discount>>
      BY <1>2 DEF AddItem
    <2>2. QED
      BY <1>2, <2>1, CartEnsured DEF Sound, CartTypes, CartsOf
  <1>3. ASSUME NEW c \in Customers, NEW k \in Carts, NEW v \in Variants,
               NEW quantity \in 0 .. MaxQuantity, UpdateItem(c, k, v, quantity)
        PROVE  CartTypes'
    BY <1>3 DEF UpdateItem, Sound, CartTypes
  <1>4. ASSUME NEW c \in Customers, NEW k \in Carts, Clear(c, k) PROVE CartTypes'
    <2>1. NoLines \in [Variants -> 0 .. MaxQuantity]
      BY IdleInHand DEF Idle, Reqs
    <2>2. QED
      BY <1>4, <2>1 DEF Clear, Sound, CartTypes
  <1>5. ASSUME NEW c \in Customers, NEW k \in Carts, RemoveDiscount(c, k) PROVE CartTypes'
    BY <1>5 DEF RemoveDiscount, Sound, CartTypes
  <1>6. ASSUME NEW r \in Requests, UpsertItem(r) PROVE CartTypes'
    <2>1. req[r].cart \in Carts /\ req[r].thing \in Variants
      BY <1>6 DEF UpsertItem, At, Sound, RequestTypes, InHand
    <2>2. UNCHANGED <<cartOf, discount>>
      BY <1>6 DEF UpsertItem
    <2>3. line' \in [Carts -> [Variants -> 0 .. MaxQuantity]]
      <3>1. CASE cartOf[req[r].cart] = None
        BY <1>6, <3>1 DEF UpsertItem, Sound, CartTypes
      <3>2. CASE cartOf[req[r].cart] # None
        <4> DEFINE k == req[r].cart
                   new == [v \in Variants |-> line[k][v] + One(req[r].thing)[v]]
        <4>1. line' = [line EXCEPT ![k] = new] /\ line[k][req[r].thing] < MaxQuantity
          BY <1>6, <3>2 DEF UpsertItem, Plus
        <4>2. \A v \in Variants : new[v] \in 0 .. MaxQuantity
          <5>1. ASSUME NEW v \in Variants PROVE new[v] \in 0 .. MaxQuantity
            <6>1. line[k][v] \in 0 .. MaxQuantity /\ MaxQuantity \in Nat
              BY <2>1, BasketAssumption DEF Sound, CartTypes
            <6>2. new[v] = line[k][v] + (IF v = req[r].thing THEN 1 ELSE 0)
              BY DEF One
            <6>3. QED
              BY <4>1, <6>1, <6>2
          <5>2. QED
            BY <5>1
        <4>3. new \in [Variants -> 0 .. MaxQuantity]
          BY <4>2
        <4> HIDE DEF new
        <4>4. QED
          BY <2>1, <4>1, <4>3 DEF Sound, CartTypes
      <3>3. QED
        BY <3>1, <3>2
    <2>4. QED
      BY <2>2, <2>3 DEF Sound, CartTypes
  <1>7. ASSUME NEW r \in Requests, ApplyDiscount(r) PROVE CartTypes'
    <2>1. req[r].cart \in Carts
      BY <1>7 DEF ApplyDiscount, At, Sound, RequestTypes, InHand
    <2>2. QED
      BY <1>7, <2>1 DEF ApplyDiscount, Sound, CartTypes
  <1>8. ASSUME NEW r \in Requests, MergeCommit(r) PROVE CartTypes'
    <2> DEFINE k == req[r].cart
               t == req[r].into
               l == req[r].other
               lines == req[r].lines
    <2>1. NoLines \in [Variants -> 0 .. MaxQuantity]
      BY IdleInHand DEF Idle, Reqs
    <2>2. t \in Customers /\ lines \in [Variants -> 0 .. MaxQuantity]
      BY <1>8 DEF MergeCommit, At, Sound, RequestTypes, Reqs, InHand
    <2>3. CASE k = None /\ UNCHANGED cartVars
      BY <1>1, <2>3
    <2>4. CASE /\ k \in Carts /\ cartOf[k] # None /\ CartsOf(t) \subseteq {k}
               /\ cartOf' = [cartOf EXCEPT ![k] = t] /\ UNCHANGED <<line, discount>>
      BY <2>2, <2>4 DEF Sound, CartTypes, CartsOf
    <2>5. CASE /\ k \in Carts
               /\ cartOf' = [cartOf EXCEPT ![k] = None] /\ line' = [line EXCEPT ![k] = NoLines]
               /\ discount' = discount \ {k}
      BY <2>1, <2>5 DEF Sound, CartTypes
    <2>6. CASE /\ k \in Carts /\ l \in Carts /\ k # l
               /\ \A v \in Variants : lines[v] + line[l][v] <= MaxQuantity
               /\ cartOf' = [cartOf EXCEPT ![k] = None]
               /\ line' = [line EXCEPT ![l] = [v \in Variants |-> line[l][v] + lines[v]],
                                       ![k] = NoLines]
               /\ discount' = discount \ {k}
      <3> DEFINE sum == [v \in Variants |-> line[l][v] + lines[v]]
      <3>1. ASSUME NEW v \in Variants PROVE line[l][v] + lines[v] \in 0 .. MaxQuantity
        <4>1. line[l][v] \in 0 .. MaxQuantity /\ lines[v] \in 0 .. MaxQuantity /\ MaxQuantity \in Nat
          BY <2>2, <2>6, BasketAssumption DEF Sound, CartTypes
        <4>2. lines[v] + line[l][v] <= MaxQuantity
          BY <2>6
        <4> HIDE DEF lines, l
        <4>3. QED
          BY <4>1, <4>2
      <3>2. sum \in [Variants -> 0 .. MaxQuantity]
        BY <3>1
      <3> HIDE DEF sum
      <3>3. line' = [line EXCEPT ![l] = sum, ![k] = NoLines]
        BY <2>6 DEF sum
      <3>4. line' \in [Carts -> [Variants -> 0 .. MaxQuantity]]
        BY <2>1, <2>6, <3>2, <3>3 DEF Sound, CartTypes
      <3>5. QED
        BY <2>6, <3>4 DEF Sound, CartTypes
    <2>7. QED
      BY <1>8, <2>3, <2>4, <2>5, <2>6, CartsMerged
  <1>9. QED
    BY <1>1, <1>2, <1>3, <1>4, <1>5, <1>6, <1>7, <1>8, CartsMove DEF CartMoves

(***************************************************************************)
(* The rows of what was viewed                                             *)
(***************************************************************************)

ViewMoves ==
  \/ UNCHANGED viewVars
  \/ \E r \in Requests, c \in Customers, p \in Products, w \in Views : RecordView(r, c, p, w)
  \/ \E r \in Requests : TrimDelete(r) \/ MergeCommit(r)

LEMMA ViewsMove == [Next]_vars => ViewMoves
  <1> SUFFICES ASSUME [Next]_vars PROVE ViewMoves
    OBVIOUS
  <1>1. CASE CartRequest
    BY <1>1 DEF CartRequest, AddItem, UpdateItem, Clear, RemoveDiscount, ViewMoves
  <1>2. CASE WishlistRequest
    BY <1>2 DEF WishlistRequest, AddHeart, RemoveHeart, ViewMoves
  <1>3. CASE ViewRequest
    BY <1>3 DEF ViewRequest, ViewMoves
  <1>4. ASSUME NEW r \in Requests, Step(r) PROVE ViewMoves
    BY <1>4 DEF Step, UpsertItem, ApplyDiscount, CreateHeart, TrimRead, MergeRead, MergeRefused,
                Stop, ViewMoves
  <1>5. CASE UNCHANGED vars
    BY <1>5 DEF vars, ViewMoves
  <1>6. QED
    BY <1>1, <1>2, <1>3, <1>4, <1>5 DEF Next

\* A view is later than every other.
LEMMA RowRecorded ==
  ASSUME Sound, NEW r \in Requests, NEW c \in Customers, NEW p \in Products, NEW w \in Views,
         RecordView(r, c, p, w)
  PROVE  /\ viewer' = [viewer EXCEPT ![w] = c] /\ product' = [product EXCEPT ![w] = p]
         /\ \E now \in 1 .. begun + 1 :
              /\ viewedAt' = [viewedAt EXCEPT ![w] = now]
              /\ \A u \in Views \ {w} : viewedAt[u] < now
         /\ \/ viewer[w] = c /\ product[w] = p
            \/ /\ viewer[w] = None
               /\ \A u \in ViewsOf(c) : product[u] # p
               /\ \A m \in Requests : w \notin req[m].extras
         /\ begun' = begun + 1
  <1> DEFINE stamps == {0} \cup {viewedAt[u] : u \in Views \ {w}}
  <1>1. viewedAt \in [Views -> 0 .. begun] /\ begun \in Nat
    BY DEF Sound, ViewTypes, OtherTypes
  <1>2. stamps \in SUBSET Nat /\ stamps # {} /\ \A y \in stamps : y <= begun
    BY <1>1
  <1>3. \A u \in Views \ {w} : viewedAt[u] \in stamps
    OBVIOUS
  <1> HIDE DEF stamps
  <1>4. Max(stamps) \in stamps /\ \A y \in stamps : Max(stamps) >= y
    <2>1. \E x \in stamps : \A y \in stamps : x >= y
      <3>1. PICK x \in stamps : \A y \in stamps : y <= x
        BY <1>1, <1>2, Greatest
      <3>2. \A y \in stamps : x >= y
        BY <1>2, <3>1
      <3>3. QED
        BY <3>2
    <2>2. QED
      BY <2>1 DEF Max
  <1>5. Max(stamps) + 1 \in 1 .. begun + 1 /\ \A u \in Views \ {w} : viewedAt[u] < Max(stamps) + 1
    <2>1. Max(stamps) \in Nat /\ Max(stamps) <= begun
      BY <1>2, <1>4
    <2>2. \A u \in Views \ {w} : viewedAt[u] \in Nat /\ viewedAt[u] <= Max(stamps)
      BY <1>1, <1>3, <1>4
    <2>3. QED
      BY <1>1, <2>1, <2>2
  <1>6. viewedAt' = [viewedAt EXCEPT ![w] = Max(stamps) + 1]
    BY DEF RecordView, stamps
  <1>7. \/ viewer[w] = c /\ product[w] = p
        \/ /\ viewer[w] = None
           /\ \A u \in ViewsOf(c) : product[u] # p
           /\ \A m \in Requests : w \notin req[m].extras
    BY DEF RecordView, ViewsOf, FreeViews
  <1>8. QED
    BY <1>5, <1>6, <1>7 DEF RecordView, Begin, Take

\* A merge moves rows of different products, none of which the target has, and drops others.
LEMMA RowsMerged ==
  ASSUME Sound, NEW r \in Requests, MergeCommit(r)
  PROVE  LET t == req[r].into
             move == ToMove(r)
             drop == req[r].extras \ move
         IN  /\ req[r].cust \in Customers /\ t \in Customers /\ req[r].cust # t
             /\ move \subseteq req[r].extras /\ req[r].extras \subseteq Views
             /\ \A w \in move : viewer[w] # None /\ product[w] \notin Watched(t)
             /\ \A v, w \in move : v # w => product[v] # product[w]
             /\ viewer' = [w \in Views |-> IF w \in move THEN t ELSE IF w \in drop THEN None ELSE viewer[w]]
             /\ product' = [w \in Views |-> IF w \in drop THEN None ELSE product[w]]
             /\ viewedAt' = [w \in Views |-> IF w \in drop THEN 0 ELSE viewedAt[w]]
  <1>1. At(r, "commit") /\ ~ Refused(r)
    BY DEF MergeCommit
  <1>2. /\ req[r].cust \in Customers /\ req[r].into \in Customers /\ req[r].cust # req[r].into
        /\ req[r].extras \in SUBSET Views
    BY <1>1 DEF At, Sound, RequestTypes, Reqs, InHand
  <1>3. ToMove(r) \subseteq req[r].extras /\ \A w \in ToMove(r) : viewer[w] # None
    BY DEF ToMove
  <1>4. \A w \in ToMove(r) : product[w] \notin Watched(req[r].into)
    BY <1>1 DEF Refused
  <1>5. \A v, w \in ToMove(r) : v # w => product[v] # product[w]
    BY <1>1, <1>3 DEF Sound, RowsDiffer
  <1>6. QED
    BY <1>2, <1>3, <1>4, <1>5 DEF MergeCommit

LEMMA StampsGrow == Sound /\ [Next]_vars => begun' \in 0 .. MaxRequests /\ begun' >= begun
  <1> SUFFICES ASSUME Sound, [Next]_vars PROVE begun' \in 0 .. MaxRequests /\ begun' >= begun
    OBVIOUS
  <1>1. begun' = begun \/ (begun < MaxRequests /\ begun' = begun + 1)
    <2>1. ASSUME NEW r \in Requests, NEW c \in Customers, NEW v \in Variants \cup {None},
                 NEW k \in Carts, AddItem(r, c, v, k)
          PROVE  begun < MaxRequests /\ begun' = begun + 1
      BY <2>1 DEF AddItem, Take
    <2>2. CASE CartRequest
      BY <2>1, <2>2 DEF CartRequest, UpdateItem, Clear, RemoveDiscount
    <2>3. CASE WishlistRequest \/ ViewRequest
      BY <2>3 DEF WishlistRequest, AddHeart, RemoveHeart, ViewRequest, RecordView, Begin, Take
    <2>4. ASSUME NEW r \in Requests, Step(r) PROVE begun' = begun \/ (begun < MaxRequests /\ begun' = begun + 1)
      BY <2>4 DEF Step, UpsertItem, ApplyDiscount, CreateHeart, TrimRead, TrimDelete, MergeRead,
                  MergeRefused, MergeCommit, Stop, Begin, Take
    <2>5. QED
      BY <2>2, <2>3, <2>4 DEF Next, vars
  <1>2. begun \in 0 .. MaxRequests /\ MaxRequests \in Nat
    BY BasketAssumption DEF Sound, OtherTypes
  <1>3. QED
    BY <1>1, <1>2

LEMMA ViewTypesKept == Sound /\ [Next]_vars => ViewTypes'
  <1> SUFFICES ASSUME Sound, [Next]_vars PROVE ViewTypes'
    OBVIOUS
  <1>0. begun \in Nat /\ begun' \in Nat /\ begun' >= begun
    BY StampsGrow, BasketAssumption DEF Sound, OtherTypes
  <1> USE NoNone
  <1>1. CASE UNCHANGED viewVars
    <2>1. viewedAt \in [Views -> 0 .. begun']
      BY <1>0 DEF Sound, ViewTypes
    <2>2. QED
      BY <1>1, <2>1 DEF Sound, ViewTypes, viewVars
  <1>2. ASSUME NEW r \in Requests, NEW c \in Customers, NEW p \in Products, NEW w \in Views,
               RecordView(r, c, p, w)
        PROVE  ViewTypes'
    <2>1. PICK now \in 1 .. begun + 1 :
            /\ viewedAt' = [viewedAt EXCEPT ![w] = now]
            /\ \A u \in Views \ {w} : viewedAt[u] < now
      BY <1>2, RowRecorded
    <2>2. /\ viewedAt' \in [Views -> 0 .. begun'] /\ now # 0
          /\ \A u \in Views \ {w} : viewedAt[u] # now
      <3>1. begun' = begun + 1
        BY <1>2, RowRecorded
      <3>2. viewedAt \in [Views -> 0 .. begun'] /\ now \in 0 .. begun'
        BY <1>0, <3>1 DEF Sound, ViewTypes
      <3>3. \A u \in Views \ {w} : viewedAt[u] # now
        <4>1. ASSUME NEW u \in Views \ {w} PROVE viewedAt[u] # now
          <5>1. viewedAt[u] \in 0 .. begun' /\ viewedAt[u] < now
            BY <2>1, <3>2
          <5>2. QED
            BY <5>1
        <4>2. QED
          BY <4>1
      <3>4. QED
        BY <2>1, <3>2, <3>3
    <2>3. /\ viewer' = [viewer EXCEPT ![w] = c] /\ product' = [product EXCEPT ![w] = p]
          /\ \/ viewer[w] = c /\ product[w] = p
             \/ \A u \in ViewsOf(c) : product[u] # p
      BY <1>2, RowRecorded
    <2>4. /\ viewer' \in [Views -> Customers \cup {None}] /\ product' \in [Views -> Products \cup {None}]
      BY <2>3 DEF Sound, ViewTypes
    <2>5. \A u, v \in Views : u # v /\ viewedAt'[u] = viewedAt'[v] => viewer'[u] = None /\ viewer'[v] = None
      BY <2>1, <2>2, <2>3 DEF Sound, ViewTypes
    <2>6. \A u, v \in Views : u # v /\ viewer'[u] # None => <<viewer'[u], product'[u]>> # <<viewer'[v], product'[v]>>
      BY <2>3 DEF Sound, ViewTypes, ViewsOf
    <2>7. \A u \in Views : viewer'[u] # None => viewedAt'[u] # 0
      BY <2>1, <2>2, <2>3 DEF Sound, ViewTypes
    <2>8. QED
      BY <2>2, <2>4, <2>5, <2>6, <2>7 DEF ViewTypes
  <1>3. ASSUME NEW r \in Requests, TrimDelete(r) PROVE ViewTypes'
    <2>1. viewedAt' \in [Views -> 0 .. begun']
      BY <1>0, <1>3 DEF TrimDelete, Sound, ViewTypes
    <2>2. QED
      BY <1>3, <2>1 DEF TrimDelete, Sound, ViewTypes
  <1>4. ASSUME NEW r \in Requests, MergeCommit(r) PROVE ViewTypes'
    <2> DEFINE t == req[r].into
               move == ToMove(r)
               drop == req[r].extras \ move
    <2>1. /\ t \in Customers
          /\ \A w \in move : viewer[w] # None /\ product[w] \notin Watched(t)
          /\ \A v, w \in move : v # w => product[v] # product[w]
          /\ viewer' = [w \in Views |-> IF w \in move THEN t ELSE IF w \in drop THEN None ELSE viewer[w]]
          /\ product' = [w \in Views |-> IF w \in drop THEN None ELSE product[w]]
          /\ viewedAt' = [w \in Views |-> IF w \in drop THEN 0 ELSE viewedAt[w]]
          /\ \A w \in move : w \notin drop
      BY <1>4, RowsMerged
    <2> HIDE DEF move, drop, t
    <2>2. viewedAt' \in [Views -> 0 .. begun']
      BY <1>0, <2>1 DEF Sound, ViewTypes
    <2>3. /\ viewer' \in [Views -> Customers \cup {None}] /\ product' \in [Views -> Products \cup {None}]
      BY <2>1 DEF Sound, ViewTypes
    <2>4. \A u, v \in Views : u # v /\ viewedAt'[u] = viewedAt'[v] => viewer'[u] = None /\ viewer'[v] = None
      BY <2>1 DEF Sound, ViewTypes
    <2>5. \A u, v \in Views : u # v /\ viewer'[u] # None => <<viewer'[u], product'[u]>> # <<viewer'[v], product'[v]>>
      BY <2>1 DEF Sound, ViewTypes, Watched, ViewsOf
    <2>6. \A w \in Views : viewer'[w] # None => viewedAt'[w] # 0
      BY <2>1 DEF Sound, ViewTypes
    <2>7. QED
      BY <2>2, <2>3, <2>4, <2>5, <2>6 DEF ViewTypes
  <1>5. QED
    BY <1>1, <1>2, <1>3, <1>4, ViewsMove DEF ViewMoves

\* Between its reads and its writes a merge has the same in hand, but for hearts taken off.
LEMMA MergesMove ==
  ASSUME Sound, [Next]_vars, NEW m \in Requests, At(m, "commit")'
  PROVE  \/ \E s, t \in Customers : MergeRead(m, s, t)
         \/ At(m, "commit") /\ req'[m] = req[m]
         \/ /\ At(m, "commit")
            /\ \E p \in Products : RemoveHeart(req[m].cust, p)
            /\ \E seen \in SUBSET Products : req'[m] = [req[m] EXCEPT !.saw = seen]
  <1>0. req[m] \in Reqs
    BY DEF Sound, RequestTypes
  <1>1. CASE req' = req
    BY <1>1 DEF At
  <1>2. ASSUME NEW r \in Requests, Takes(r)
        PROVE  \/ \E s, t \in Customers : MergeRead(m, s, t)
               \/ At(m, "commit") /\ req'[m] = req[m]
    <2>1. PICK q \in Reqs : /\ InHand(q) /\ Become(r, q)
                            /\ q.pc = "commit" => \E s, t \in Customers : MergeRead(r, s, t)
      BY <1>2 DEF Takes
    <2>2. req'[r] = q /\ \A n \in Requests \ {r} : req'[n] = req[n]
      BY <2>1, RequestBecomes DEF Sound
    <2>3. QED
      BY <2>1, <2>2 DEF At
  <1>3. ASSUME NEW c \in Customers, NEW p \in Products, RemoveHeart(c, p)
        PROVE  \/ At(m, "commit") /\ req'[m] = req[m]
               \/ /\ At(m, "commit") /\ c = req[m].cust
                  /\ \E seen \in SUBSET Products : req'[m] = [req[m] EXCEPT !.saw = seen]
    <2>1. PICK seen \in SUBSET Products :
            /\ req'[m] = [req[m] EXCEPT !.saw = seen]
            /\ (At(m, "commit") /\ req[m].cust = c) \/ seen = req[m].saw
      BY <1>3, HeartLeaves
    <2>2. req'[m].pc = req[m].pc /\ (seen = req[m].saw => req'[m] = req[m])
      BY <1>0, <2>1 DEF Reqs
    <2>3. QED
      BY <2>1, <2>2 DEF At
  <1>4. QED
    BY <1>1, <1>2, <1>3, RequestsMove

LEMMA RowsDifferKept == Sound /\ [Next]_vars => RowsDiffer'
  <1> SUFFICES ASSUME Sound, [Next]_vars, NEW m \in Requests, At(m, "commit")',
                      NEW v \in req'[m].extras, NEW w \in req'[m].extras,
                      v # w, viewer'[v] # None, viewer'[w] # None
               PROVE  product'[v] # product'[w]
    BY DEF RowsDiffer
  <1>1. RequestTypes /\ RequestTypes' /\ ViewTypes /\ ViewTypes'
    BY RequestTypesKept, ViewTypesKept DEF Sound
  <1>2. v \in Views /\ w \in Views
    BY <1>1 DEF RequestTypes, Reqs
  <1>3. CASE At(m, "commit") /\ req'[m].extras = req[m].extras
    <2>0. viewer[v] # None /\ viewer[w] # None => product[v] # product[w]
      BY <1>3 DEF Sound, RowsDiffer
    <2>1. CASE UNCHANGED viewVars
      BY <2>0, <2>1 DEF viewVars
    <2>2. ASSUME NEW r \in Requests, NEW c \in Customers, NEW p \in Products, NEW u \in Views,
                 RecordView(r, c, p, u)
          PROVE  product'[v] # product'[w]
      <3>1. /\ viewer' = [viewer EXCEPT ![u] = c] /\ product' = [product EXCEPT ![u] = p]
            /\ \/ viewer[u] = c /\ product[u] = p
               \/ viewer[u] = None /\ u \notin req[m].extras
        BY <2>2, RowRecorded
      <3>2. viewer'[v] = viewer[v] /\ viewer'[w] = viewer[w] /\ product'[v] = product[v] /\ product'[w] = product[w]
        BY <1>1, <1>2, <1>3, <3>1 DEF ViewTypes
      <3>3. QED
        BY <2>0, <3>2
    <2>3. ASSUME NEW r \in Requests, TrimDelete(r) PROVE product'[v] # product'[w]
      BY <1>2, <2>0, <2>3 DEF TrimDelete
    <2>4. ASSUME NEW r \in Requests, MergeCommit(r) PROVE product'[v] # product'[w]
      BY <1>2, <2>0, <2>4, RowsMerged
    <2>5. QED
      BY <2>1, <2>2, <2>3, <2>4, ViewsMove DEF ViewMoves
  <1>4. ASSUME NEW s \in Customers, NEW t \in Customers, MergeRead(m, s, t)
        PROVE  product'[v] # product'[w]
    <2>1. UNCHANGED viewVars /\ req'[m].extras = ViewsOf(s)
      BY <1>4, MergeReadTakes DEF MergeRead
    <2>2. viewer[v] = s /\ viewer[w] = s
      BY <2>1 DEF ViewsOf
    <2>3. QED
      BY <1>1, <1>2, <2>1, <2>2, NoNone DEF ViewTypes, viewVars
  <1>5. \/ At(m, "commit") /\ req'[m].extras = req[m].extras
        \/ \E s, t \in Customers : MergeRead(m, s, t)
    <2>1. ASSUME NEW seen \in SUBSET Products, req'[m] = [req[m] EXCEPT !.saw = seen]
          PROVE  req'[m].extras = req[m].extras
      BY <1>1, <2>1 DEF RequestTypes, Reqs
    <2>2. QED
      BY <2>1, MergesMove
  <1>6. QED
    BY <1>3, <1>4, <1>5

LEMMA OtherTypesKept == Sound /\ [Next]_vars => OtherTypes'
  <1> SUFFICES ASSUME Sound, [Next]_vars PROVE OtherTypes'
    OBVIOUS
  <1>0. begun' \in 0 .. MaxRequests
    BY StampsGrow
  <1>1. /\ wish \in [Customers -> SUBSET Products] /\ hearts \in [Customers -> SUBSET Products]
        /\ owed \in [Customers -> [Variants -> Nat]]
        /\ newest \in [Customers -> Products \cup {None}]
        /\ merged \subseteq Customers /\ late \subseteq Customers
        /\ untrimmed \subseteq Customers /\ raced \subseteq Customers
    BY DEF Sound, OtherTypes
  <1>2. ASSUME NEW c \in Customers \cup {None}, Writes(c) PROVE late' \subseteq Customers
    BY <1>1, <1>2 DEF Writes
  <1>3. CASE CartRequest
    <2>1. ASSUME NEW r \in Requests, NEW c \in Customers, NEW v \in Variants \cup {None},
                 NEW k \in Carts, AddItem(r, c, v, k)
          PROVE  OtherTypes'
      BY <1>0, <1>1, <1>2, <2>1 DEF AddItem, OtherTypes, viewHistory
    <2>2. ASSUME NEW c \in Customers, NEW k \in Carts, NEW v \in Variants,
                 NEW quantity \in 0 .. MaxQuantity, UpdateItem(c, k, v, quantity)
          PROVE  OtherTypes'
      <3>1. owed' \in [Customers -> [Variants -> Nat]]
        BY <1>1, <2>2, BasketAssumption DEF UpdateItem
      <3>2. QED
        BY <1>0, <1>1, <1>2, <2>2, <3>1 DEF UpdateItem, OtherTypes, viewHistory
    <2>3. ASSUME NEW c \in Customers, NEW k \in Carts, Clear(c, k) PROVE OtherTypes'
      <3>1. owed' \in [Customers -> [Variants -> Nat]]
        BY <1>1, <2>3 DEF Clear, NoLines
      <3>2. QED
        BY <1>0, <1>1, <1>2, <2>3, <3>1 DEF Clear, OtherTypes, viewHistory
    <2>4. ASSUME NEW c \in Customers, NEW k \in Carts, RemoveDiscount(c, k) PROVE OtherTypes'
      BY <1>0, <1>1, <2>4 DEF RemoveDiscount, OtherTypes, viewHistory
    <2>5. QED
      BY <1>3, <2>1, <2>2, <2>3, <2>4 DEF CartRequest
  <1>4. CASE WishlistRequest
    <2>1. ASSUME NEW r \in Requests, NEW c \in Customers, NEW p \in Products, AddHeart(r, c, p)
          PROVE  OtherTypes'
      BY <1>0, <1>1, <2>1 DEF AddHeart, OtherTypes, viewHistory
    <2>2. ASSUME NEW c \in Customers, NEW p \in Products, RemoveHeart(c, p) PROVE OtherTypes'
      BY <1>0, <1>1, <1>2, <2>2 DEF RemoveHeart, OtherTypes, viewHistory
    <2>3. QED
      BY <1>4, <2>1, <2>2 DEF WishlistRequest
  <1>5. CASE ViewRequest
    <2>1. ASSUME NEW r \in Requests, NEW c \in Customers, NEW p \in Products, NEW w \in Views,
                 RecordView(r, c, p, w)
          PROVE  OtherTypes'
      BY <1>0, <1>1, <1>2, <2>1 DEF RecordView, OtherTypes
    <2>2. QED
      BY <1>5, <2>1 DEF ViewRequest
  <1>6. ASSUME NEW r \in Requests, Step(r) PROVE OtherTypes'
    <2>0. req[r] \in Reqs /\ InHand(req[r])
      BY DEF Sound, RequestTypes
    <2>1. CASE UpsertItem(r)
      <3>1. req[r].cart \in Carts /\ cartOf[req[r].cart] \in Customers \cup {None}
        BY <2>0, <2>1 DEF UpsertItem, At, InHand, Sound, CartTypes
      <3>2. owed' \in [Customers -> [Variants -> Nat]]
        <4> DEFINE c == cartOf[req[r].cart]
                   new == [v \in Variants |-> owed[c][v] + One(req[r].thing)[v]]
        <4>1. owed' = owed \/ (c \in Customers /\ owed' = [owed EXCEPT ![c] = new])
          BY <2>1, <3>1 DEF UpsertItem, Plus
        <4>2. c \in Customers => new \in [Variants -> Nat]
          BY <1>1 DEF One
        <4> HIDE DEF c, new
        <4>3. QED
          BY <1>1, <4>1, <4>2
      <3>3. QED
        BY <1>0, <1>1, <1>2, <2>1, <3>1, <3>2 DEF UpsertItem, OtherTypes, viewHistory
    <2>2. CASE CreateHeart(r)
      <3>1. req[r].cust \in Customers /\ req[r].thing \in Products
        BY <2>0, <2>2 DEF CreateHeart, At, InHand
      <3>2. QED
        BY <1>0, <1>1, <1>2, <2>2, <3>1 DEF CreateHeart, OtherTypes, viewHistory
    <2>3. CASE MergeCommit(r)
      <3> DEFINE s == req[r].cust
                 t == req[r].into
      <3>1. s \in Customers /\ t \in Customers /\ req[r].saw \subseteq Products
        BY <2>0, <2>3 DEF MergeCommit, At, InHand, Reqs
      <3>2. owed' \in [Customers -> [Variants -> Nat]]
        <4> HIDE DEF s, t
        <4>1. owed' = [Plus(owed, t, owed[s]) EXCEPT ![s] = NoLines]
          BY <2>3 DEF MergeCommit, s, t
        <4>2. Plus(owed, t, owed[s]) \in [Customers -> [Variants -> Nat]]
          BY <1>1, <3>1 DEF Plus
        <4>3. QED
          BY <4>1, <4>2 DEF NoLines
      <3>3. newest' \in [Customers -> Products \cup {None}]
        <4> DEFINE rows == ToMove(r) \cup ViewsOf(t)
                   last == {w \in rows : Newer(w, rows) = {}}
                   new == IF last = {} THEN None ELSE product[CHOOSE w \in last : TRUE]
        <4>1. rows \subseteq Views
          BY <2>0 DEF ToMove, ViewsOf, Reqs
        <4>2. newest' = [newest EXCEPT ![t] = new]
          BY <2>3 DEF MergeCommit
        <4> HIDE DEF rows
        <4>3. new \in Products \cup {None}
          BY <4>1 DEF Sound, ViewTypes
        <4> HIDE DEF new
        <4>4. QED
          BY <1>1, <4>2, <4>3
      <3>4. /\ wish' \in [Customers -> SUBSET Products] /\ hearts' \in [Customers -> SUBSET Products]
        BY <1>1, <2>3, <3>1 DEF MergeCommit
      <3>5. QED
        BY <1>0, <1>1, <2>3, <3>1, <3>2, <3>3, <3>4 DEF MergeCommit, OtherTypes
    <2>4. ASSUME NEW s \in Customers, NEW t \in Customers, MergeRead(r, s, t) PROVE OtherTypes'
      BY <1>0, <1>1, <2>4 DEF MergeRead, OtherTypes, viewHistory
    <2>5. CASE Stop(r)
      <3>1. req[r].pc \in {"trim", "drop"} => req[r].cust \in Customers
        BY <2>0 DEF InHand
      <3>2. QED
        BY <1>0, <1>1, <2>5, <3>1 DEF Stop, OtherTypes
    <2>6. CASE ApplyDiscount(r) \/ TrimRead(r) \/ TrimDelete(r) \/ MergeRefused(r)
      BY <1>0, <1>1, <2>6 DEF ApplyDiscount, TrimRead, TrimDelete, MergeRefused, OtherTypes, viewHistory
    <2>7. QED
      BY <1>6, <2>1, <2>2, <2>3, <2>4, <2>5, <2>6 DEF Step
  <1>7. CASE UNCHANGED vars
    BY <1>0, <1>1, <1>7 DEF vars, OtherTypes, viewHistory
  <1>8. QED
    BY <1>3, <1>4, <1>5, <1>6, <1>7 DEF Next

LEMMA SoundStarts == Init => Sound
  <1> SUFFICES ASSUME Init PROVE Sound
    OBVIOUS
  <1> USE DEF Init
  <1>1. NoLines \in [Variants -> 0 .. MaxQuantity] /\ NoLines \in [Variants -> Nat]
    BY BasketAssumption DEF NoLines
  <1>2. CartTypes
    BY <1>1 DEF CartTypes
  <1>3. ViewTypes
    BY DEF ViewTypes
  <1>4. OtherTypes
    BY <1>1, BasketAssumption DEF OtherTypes
  <1>5. RequestTypes /\ RowsDiffer
    BY IdleInHand DEF RequestTypes, RowsDiffer, At, Idle
  <1>6. QED
    BY <1>2, <1>3, <1>4, <1>5 DEF Sound

LEMMA SoundKept == Sound /\ [Next]_vars => Sound'
  BY CartTypesKept, ViewTypesKept, OtherTypesKept, RequestTypesKept, RowsDifferKept DEF Sound

\* The variables of the basket stay within their types: a customer has one cart at most and
\* one row for each product he viewed, also after merges (the unique indexes of schema.prisma).
THEOREM TypeCorrect == Spec => []TypeOK
  <1>1. QED
    BY SoundStarts, SoundKept, SoundIsTyped, PTL DEF Spec

(***************************************************************************)
(* What a merge has in hand                                                *)
(***************************************************************************)

\* What was c's is his still, or gone, or with somebody who is late as c is.
Follows(x, c) == x \in {None, c} \/ (c \in late /\ x \in late)

HeldCarts(q) ==
  /\ q.cart # None => Follows(cartOf[q.cart], q.cust)
  /\ q.other # None => Follows(cartOf[q.other], q.into)
  /\ q.other # None /\ q.into \notin late => cartOf[q.other] = q.into
  /\ q.cust \notin late /\ q.cart = None => CartsOf(q.cust) = {}
  /\ q.cust \notin late /\ q.cart # None => cartOf[q.cart] = q.cust /\ line[q.cart] = q.lines

HeldRows(q) == \A w \in q.extras : Follows(viewer[w], q.cust)
HeldHearts(q) == q.cust \notin late => q.saw = wish[q.cust]

Held(q) == HeldCarts(q) /\ HeldRows(q) /\ HeldHearts(q)
HeldInv == \A r \in Requests : At(r, "commit") => Held(req[r])

\* Of two merges that overlap the second has made both its customers late.
TwoMerges ==
  \A r, m \in Requests : r # m /\ At(r, "commit") /\ At(m, "commit") =>
    {req[r].cust, req[r].into} \subseteq late \/ {req[m].cust, req[m].into} \subseteq late

MergesInv == Sound /\ HeldInv /\ TwoMerges

LEMMA LateGrows == [Next]_vars => late \subseteq late'
  <1> SUFFICES ASSUME [Next]_vars PROVE late \subseteq late'
    OBVIOUS
  <1>0. ASSUME NEW c, Writes(c) PROVE late \subseteq late'
    BY <1>0 DEF Writes
  <1>1. CASE CartRequest
    BY <1>0, <1>1 DEF CartRequest, AddItem, UpdateItem, Clear, RemoveDiscount
  <1>2. CASE WishlistRequest
    BY <1>0, <1>2 DEF WishlistRequest, AddHeart, RemoveHeart
  <1>3. CASE ViewRequest
    BY <1>0, <1>3 DEF ViewRequest, RecordView
  <1>4. ASSUME NEW r \in Requests, Step(r) PROVE late \subseteq late'
    BY <1>0, <1>4 DEF Step, UpsertItem, ApplyDiscount, CreateHeart, TrimRead, TrimDelete, MergeRead,
                      MergeRefused, MergeCommit, Stop
  <1>5. CASE UNCHANGED vars
    BY <1>5 DEF vars
  <1>6. QED
    BY <1>1, <1>2, <1>3, <1>4, <1>5 DEF Next

LEMMA FollowsStill ==
  ASSUME NEW x, NEW c, Follows(x, c), late \subseteq late'
  PROVE  x \in {None, c} \/ (c \in late' /\ x \in late')
  BY DEF Follows

\* Who writes something while a merge of his is under way is late.
LEMMA WriterIsLate ==
  ASSUME Sound, NEW m \in Requests, At(m, "commit"), Writes(req[m].cust)
  PROVE  req[m].cust \in late'
  <1>1. req[m].cust \in Customers
    BY DEF Sound, RequestTypes, InHand, At
  <1>2. QED
    BY <1>1, NoNone DEF Writes, Moving

\* A merge keeps in hand what it read.
LEMMA MergeKeeps ==
  ASSUME Sound, [Next]_vars, NEW m \in Requests, At(m, "commit"), At(m, "commit")'
  PROVE  /\ req'[m].cust = req[m].cust /\ req'[m].into = req[m].into /\ req'[m].cart = req[m].cart
         /\ req'[m].other = req[m].other /\ req'[m].lines = req[m].lines /\ req'[m].extras = req[m].extras
         /\ req[m].cust \notin late' => req'[m] = req[m]
  <1>1. req[m] \in Reqs
    BY DEF Sound, RequestTypes
  <1>2. ASSUME NEW s \in Customers, NEW t \in Customers, MergeRead(m, s, t) PROVE FALSE
    BY <1>2 DEF MergeRead, Begin, Take, At
  <1>3. ASSUME NEW p \in Products, RemoveHeart(req[m].cust, p) PROVE req[m].cust \in late'
    BY <1>3, WriterIsLate DEF RemoveHeart
  <1>4. ASSUME NEW seen \in SUBSET Products, req'[m] = [req[m] EXCEPT !.saw = seen]
        PROVE  /\ req'[m].cust = req[m].cust /\ req'[m].into = req[m].into /\ req'[m].cart = req[m].cart
               /\ req'[m].other = req[m].other /\ req'[m].lines = req[m].lines
               /\ req'[m].extras = req[m].extras
    BY <1>1, <1>4 DEF Reqs
  <1>5. QED
    BY <1>2, <1>3, <1>4, MergesMove

LEMMA TwoMergesKept == Sound /\ TwoMerges /\ [Next]_vars => TwoMerges'
  <1> SUFFICES ASSUME Sound, TwoMerges, [Next]_vars, NEW r \in Requests, NEW m \in Requests, r # m,
                      At(r, "commit")', At(m, "commit")'
               PROVE  \/ {req'[r].cust, req'[r].into} \subseteq late'
                      \/ {req'[m].cust, req'[m].into} \subseteq late'
    BY DEF TwoMerges
  <1>1. ASSUME NEW n \in Requests, NEW k \in Requests \ {n}, At(k, "commit")',
               NEW s \in Customers, NEW t \in Customers, MergeRead(n, s, t)
        PROVE  {req'[n].cust, req'[n].into} \subseteq late'
    <2>1. req'[n].cust = s /\ req'[n].into = t
      BY <1>1, MergeReadTakes
    <2>2. req'[k] = req[k]
      BY <1>1, RequestBecomes DEF MergeRead, Begin, Take, Become, Sound, RequestTypes
    <2>3. At(k, "commit")
      BY <1>1, <2>2 DEF At
    <2>4. QED
      BY <1>1, <2>1, <2>3 DEF MergeRead
  <1>2. CASE At(r, "commit") /\ At(m, "commit")
    BY <1>2, MergeKeeps, LateGrows DEF TwoMerges
  <1>3. QED
    BY <1>1, <1>2, MergesMove

\* What a merge takes over from another that is under way goes to somebody who is late.
LEMMA HandedFollows ==
  ASSUME MergesInv, NEW r \in Requests, NEW m \in Requests \ {r}, At(m, "commit"), MergeCommit(r),
         NEW c \in {req[m].cust, req[m].into}, NEW x, x # None, Follows(x, req[r].cust), Follows(x, c)
  PROVE  c \in late' /\ req[r].into \in late'
  <1>1. At(r, "commit") /\ late' = IF req[r].cust \in late THEN late \cup {req[r].into} ELSE late
    BY DEF MergeCommit
  <1>2. CASE req[r].cust \in late
    BY <1>1, <1>2 DEF Follows
  <1>3. CASE req[r].cust \notin late
    <2>1. {req[m].cust, req[m].into} \subseteq late
      BY <1>1, <1>3 DEF MergesInv, TwoMerges
    <2>2. QED
      BY <1>3, <2>1 DEF Follows
  <1>4. QED
    BY <1>2, <1>3

\* A merge writes nothing of a customer who is not late and whom another merge is about.
LEMMA OtherMergeApart ==
  ASSUME MergesInv, NEW r \in Requests, NEW m \in Requests \ {r}, At(m, "commit"), At(r, "commit"),
         NEW c \in {req[m].cust, req[m].into}, c \notin late
  PROVE  /\ req[r].cust # c /\ req[r].into # c
         /\ \A x : Follows(x, req[r].cust) \/ Follows(x, req[r].into) => x # c
  <1>1. {req[r].cust, req[r].into} \subseteq late
    BY DEF MergesInv, TwoMerges
  <1>2. c # None
    BY NoNone DEF MergesInv, Sound, RequestTypes, InHand, At
  <1>3. QED
    BY <1>1, <1>2 DEF Follows

LEMMA HeldCartsKept ==
  ASSUME MergesInv, [Next]_vars, NEW m \in Requests, At(m, "commit"), At(m, "commit")'
  PROVE  HeldCarts(req[m])'
  <1> DEFINE q == req[m]
  <1>1. /\ req'[m].cust = q.cust /\ req'[m].into = q.into /\ req'[m].cart = q.cart
        /\ req'[m].other = q.other /\ req'[m].lines = q.lines
    BY MergeKeeps DEF MergesInv
  <1>2. HeldCarts(q) /\ Sound /\ CartTypes
    BY DEF MergesInv, HeldInv, Held, Sound
  <1>3. /\ q.cust \in Customers /\ q.into \in Customers /\ q.cart \in Carts \cup {None}
        /\ q.other \in Carts \cup {None}
    BY <1>2 DEF Sound, RequestTypes, Reqs, InHand, At
  <1>4. late \subseteq late'
    BY LateGrows
  <1> DEFINE Kept ==
               /\ q.cart # None => cartOf'[q.cart] \in {None, q.cust} \/ (q.cust \in late' /\ cartOf'[q.cart] \in late')
               /\ q.other # None => cartOf'[q.other] \in {None, q.into} \/ (q.into \in late' /\ cartOf'[q.other] \in late')
               /\ q.other # None /\ q.into \notin late' => cartOf'[q.other] = q.into
               /\ q.cust \notin late' /\ q.cart = None => \A k \in Carts : cartOf'[k] # q.cust
               /\ q.cust \notin late' /\ q.cart # None => cartOf'[q.cart] = q.cust /\ line'[q.cart] = q.lines
  <1>5. Kept => HeldCarts(req[m])'
    BY <1>1 DEF HeldCarts, Follows, CartsOf
  <1>6. /\ q.cart # None => cartOf[q.cart] \in {None, q.cust} \/ (q.cust \in late' /\ cartOf[q.cart] \in late')
        /\ q.other # None => cartOf[q.other] \in {None, q.into} \/ (q.into \in late' /\ cartOf[q.other] \in late')
        /\ q.other # None /\ q.into \notin late' => cartOf[q.other] = q.into
        /\ q.cust \notin late' /\ q.cart = None => \A k \in Carts : cartOf[k] # q.cust
        /\ q.cust \notin late' /\ q.cart # None => cartOf[q.cart] = q.cust /\ line[q.cart] = q.lines
    BY <1>2, <1>4 DEF HeldCarts, Follows, CartsOf
  <1>7. Writes(q.cust) => q.cust \in late'
    BY <1>2, WriterIsLate
  <1> USE NoNone
  <1> HIDE DEF q
  <1>8. ASSUME UNCHANGED <<cartOf, line>> PROVE Kept
    BY <1>6, <1>8
  <1>9. ASSUME NEW r \in Requests, NEW c \in Customers, NEW v \in Variants \cup {None},
               NEW k \in Carts, AddItem(r, c, v, k)
        PROVE  /\ UNCHANGED line /\ cartOf' = [cartOf EXCEPT ![k] = c]
               /\ cartOf[k] = c \/ (k # q.cart /\ k # q.other)
               /\ c = q.cust => q.cust \in late'
    <2>1. UNCHANGED line /\ Writes(c)
      BY <1>9 DEF AddItem
    <2>2. /\ cartOf' = [cartOf EXCEPT ![k] = c]
          /\ cartOf[k] = c \/ \A n \in Requests : k # req[n].cart /\ k # req[n].other
      BY <1>2, <1>9, CartEnsured
    <2>3. QED
      BY <1>7, <2>1, <2>2 DEF q
  <1>10. ASSUME NEW c \in Customers, NEW k \in Carts, NEW v \in Variants,
                NEW quantity \in 0 .. MaxQuantity, UpdateItem(c, k, v, quantity)
         PROVE  /\ UNCHANGED cartOf /\ \A j \in Carts \ {k} : line'[j] = line[j]
                /\ cartOf[k] = q.cust => q.cust \in late'
    BY <1>2, <1>7, <1>10 DEF UpdateItem, CartTypes
  <1>11. ASSUME NEW c \in Customers, NEW k \in Carts, Clear(c, k)
         PROVE  /\ UNCHANGED cartOf /\ \A j \in Carts \ {k} : line'[j] = line[j]
                /\ cartOf[k] = q.cust => q.cust \in late'
    BY <1>2, <1>7, <1>11 DEF Clear, CartTypes
  <1>12. ASSUME NEW r \in Requests, UpsertItem(r)
         PROVE  /\ UNCHANGED cartOf /\ \A j \in Carts \ {req[r].cart} : line'[j] = line[j]
                /\ req[r].cart \in Carts
                /\ cartOf[req[r].cart] = q.cust => q.cust \in late'
    <2>1. req[r].cart \in Carts
      BY <1>2, <1>12 DEF UpsertItem, Sound, RequestTypes, InHand, At
    <2>2. QED
      BY <1>2, <1>7, <1>12, <2>1 DEF UpsertItem, Plus, CartTypes
  <1>13. ASSUME NEW k \in Carts, UNCHANGED cartOf, \A j \in Carts \ {k} : line'[j] = line[j],
                cartOf[k] = q.cust => q.cust \in late'
         PROVE  Kept
    BY <1>3, <1>6, <1>13
  <1>14. ASSUME NEW r \in Requests, MergeCommit(r) PROVE Kept
    <2> DEFINE g == req[r]
    <2>1. r # m /\ At(r, "commit")
      BY <1>2, <1>14, IdleInHand, RequestBecomes DEF MergeCommit, Return, At, Idle, Sound
    <2>2. /\ g.cart \in Carts \cup {None} /\ g.other \in Carts \cup {None} /\ g.into \in Customers
          /\ HeldCarts(g)
      BY <1>2, <2>1 DEF Sound, RequestTypes, Reqs, InHand, At, MergesInv, HeldInv, Held
    <2> DEFINE k == g.cart
               l == g.other
               sum == [v \in Variants |-> line[l][v] + g.lines[v]]
    <2>a. \/ k = None /\ UNCHANGED cartVars
          \/ /\ cartOf[k] # None /\ cartOf' = [cartOf EXCEPT ![k] = g.into] /\ UNCHANGED line
          \/ /\ cartOf' = [cartOf EXCEPT ![k] = None] /\ line' = [line EXCEPT ![k] = NoLines]
          \/ /\ cartOf' = [cartOf EXCEPT ![k] = None]
             /\ line' = [line EXCEPT ![l] = sum, ![k] = NoLines]
      BY <1>2, <1>14, CartsMerged
    <2> HIDE DEF sum
    <2>3. \A j \in Carts \ {k} : cartOf'[j] = cartOf[j]
      BY <1>2, <2>a DEF CartTypes, cartVars
    <2>4. \A j \in Carts \ {k, l} : line'[j] = line[j]
      BY <1>2, <2>a DEF CartTypes, cartVars
    <2>5. g.cart # None => /\ Follows(cartOf[g.cart], g.cust)
                           /\ \/ cartOf'[g.cart] = None
                              \/ cartOf'[g.cart] = g.into /\ cartOf[g.cart] # None
      BY <1>2, <2>2, <2>a DEF CartTypes, HeldCarts
    <2>6. g.other # None => Follows(cartOf[g.other], g.into)
      BY <2>2 DEF HeldCarts
    <2>7. ASSUME NEW c \in {q.cust, q.into}, c \notin late'
          PROVE  /\ g.into # c
                 /\ g.cart # None => cartOf[g.cart] # c
                 /\ g.other # None => cartOf[g.other] # c
      BY <1>4, <2>1, <2>5, <2>6, <2>7, OtherMergeApart DEF q
    <2>8. ASSUME NEW c \in {q.cust, q.into}, g.cart # None, Follows(cartOf[g.cart], c)
          PROVE  \/ cartOf'[g.cart] = None
                 \/ c \in late' /\ cartOf'[g.cart] \in late'
      BY <1>14, <2>1, <2>5, <2>8, HandedFollows DEF q
    <2>9. /\ q.cart # None => Follows(cartOf[q.cart], q.cust)
          /\ q.other # None => Follows(cartOf[q.other], q.into)
      BY <1>2 DEF HeldCarts
    <2> HIDE DEF g
    <2>10. /\ q.cart # None => cartOf'[q.cart] \in {None, q.cust} \/ (q.cust \in late' /\ cartOf'[q.cart] \in late')
           /\ q.other # None => cartOf'[q.other] \in {None, q.into} \/ (q.into \in late' /\ cartOf'[q.other] \in late')
      BY <1>3, <1>6, <2>3, <2>8, <2>9
    <2>11. q.other # None /\ q.into \notin late' => cartOf'[q.other] = q.into
      BY <1>3, <1>6, <2>3, <2>7
    <2>12. q.cust \notin late' /\ q.cart = None => \A j \in Carts : cartOf'[j] # q.cust
      BY <1>3, <1>6, <2>3, <2>5, <2>7
    <2>13. q.cust \notin late' /\ q.cart # None => cartOf'[q.cart] = q.cust /\ line'[q.cart] = q.lines
      BY <1>3, <1>6, <2>3, <2>4, <2>7
    <2>14. QED
      BY <2>10, <2>11, <2>12, <2>13
  <1>15. ASSUME NEW r \in Requests, NEW c \in Customers, NEW v \in Variants \cup {None},
                NEW k \in Carts, AddItem(r, c, v, k)
         PROVE  Kept
    BY <1>2, <1>3, <1>6, <1>9, <1>15 DEF CartTypes
  <1>16. QED
    BY <1>5, <1>8, <1>10, <1>11, <1>12, <1>13, <1>14, <1>15, CartsMove
    DEF CartMoves, cartVars, RemoveDiscount, ApplyDiscount

LEMMA HeldRowsKept ==
  ASSUME MergesInv, [Next]_vars, NEW m \in Requests, At(m, "commit"), At(m, "commit")'
  PROVE  HeldRows(req[m])'
  <1> DEFINE q == req[m]
  <1>1. req'[m].cust = q.cust /\ req'[m].extras = q.extras
    BY MergeKeeps DEF MergesInv
  <1>2. HeldRows(q) /\ Sound /\ ViewTypes
    BY DEF MergesInv, HeldInv, Held, Sound
  <1>3. late \subseteq late'
    BY LateGrows
  <1>4. q.extras \subseteq Views
    BY <1>2 DEF Sound, RequestTypes, Reqs
  <1> HIDE DEF q
  <1>5. SUFFICES ASSUME NEW w \in q.extras
                 PROVE  viewer'[w] \in {None, q.cust} \/ (q.cust \in late' /\ viewer'[w] \in late')
    BY <1>1 DEF HeldRows, Follows
  <1>6. /\ w \in Views /\ Follows(viewer[w], q.cust)
        /\ viewer[w] \in {None, q.cust} \/ (q.cust \in late' /\ viewer[w] \in late')
    BY <1>2, <1>3, <1>4 DEF HeldRows, Follows
  <1>7. CASE viewer'[w] \in {None, viewer[w]}
    BY <1>6, <1>7
  <1>8. ASSUME NEW r \in Requests, NEW c \in Customers, NEW p \in Products, NEW u \in Views,
               RecordView(r, c, p, u)
        PROVE  viewer'[w] \in {None, viewer[w]}
    <2>1. /\ viewer' = [viewer EXCEPT ![u] = c]
          /\ viewer[u] = c \/ \A n \in Requests : u \notin req[n].extras
      BY <1>2, <1>8, RowRecorded
    <2>2. QED
      BY <1>2, <1>6, <2>1 DEF ViewTypes, q
  <1>9. ASSUME NEW r \in Requests, TrimDelete(r) PROVE viewer'[w] \in {None, viewer[w]}
    BY <1>6, <1>9 DEF TrimDelete
  <1>10. ASSUME NEW r \in Requests, MergeCommit(r)
         PROVE  \/ viewer'[w] \in {None, viewer[w]}
                \/ q.cust \in late' /\ viewer'[w] \in late'
    <2>1. r # m /\ At(r, "commit")
      BY <1>2, <1>10, IdleInHand, RequestBecomes DEF MergeCommit, Return, At, Idle, Sound
    <2>2. HeldRows(req[r])
      BY <2>1 DEF MergesInv, HeldInv, Held
    <2>3. \/ viewer'[w] \in {None, viewer[w]}
          \/ /\ w \in req[r].extras /\ viewer[w] # None /\ viewer'[w] = req[r].into
      BY <1>2, <1>6, <1>10, RowsMerged
    <2>4. ASSUME w \in req[r].extras, viewer[w] # None
          PROVE  q.cust \in late' /\ req[r].into \in late'
      <3>1. Follows(viewer[w], req[r].cust) /\ Follows(viewer[w], q.cust) /\ q.cust \in {req[m].cust, req[m].into}
        BY <1>6, <2>2, <2>4 DEF HeldRows, q
      <3>2. QED
        BY <1>10, <2>1, <2>4, <3>1, HandedFollows
    <2>5. QED
      BY <2>3, <2>4
  <1>11. QED
    BY <1>7, <1>8, <1>9, <1>10, ViewsMove DEF ViewMoves, viewVars

\* Who puts hearts on the wishlist, or takes them off, while a merge of his is under way is late.
WishMoves ==
  \/ UNCHANGED wish /\ UNCHANGED hearts
  \/ \E c \in Customers, p \in Products :
       /\ Writes(c)
       /\ \/ wish' = [wish EXCEPT ![c] = @ \cup {p}] /\ hearts' = [hearts EXCEPT ![c] = @ \cup {p}]
          \/ wish' = [wish EXCEPT ![c] = @ \ {p}] /\ hearts' = [hearts EXCEPT ![c] = @ \ {p}]
  \/ \E r \in Requests : MergeCommit(r)

LEMMA WishMove == Sound /\ [Next]_vars => WishMoves
  <1> SUFFICES ASSUME Sound, [Next]_vars PROVE WishMoves
    OBVIOUS
  <1>0. wish \in [Customers -> SUBSET Products]
    BY DEF Sound, OtherTypes
  <1>1. CASE CartRequest
    <2>1. UNCHANGED wish /\ UNCHANGED hearts
      BY <1>1 DEF CartRequest, AddItem, UpdateItem, Clear, RemoveDiscount
    <2>2. QED
      BY <2>1 DEF WishMoves
  <1>2. CASE WishlistRequest
    BY <1>0, <1>2 DEF WishlistRequest, AddHeart, RemoveHeart, WishMoves
  <1>3. CASE ViewRequest
    BY <1>3 DEF ViewRequest, RecordView, WishMoves
  <1>4. ASSUME NEW r \in Requests, CreateHeart(r) PROVE WishMoves
    <2>1. req[r].cust \in Customers /\ req[r].thing \in Products
      BY <1>4 DEF CreateHeart, At, Sound, RequestTypes, InHand
    <2>2. QED
      BY <1>0, <1>4, <2>1 DEF CreateHeart, WishMoves
  <1>5. ASSUME NEW r \in Requests, Step(r) PROVE WishMoves
    BY <1>4, <1>5 DEF Step, UpsertItem, ApplyDiscount, TrimRead, TrimDelete, MergeRead, MergeRefused,
                      Stop, WishMoves
  <1>6. CASE UNCHANGED vars
    BY <1>6 DEF vars, WishMoves
  <1>7. QED
    BY <1>1, <1>2, <1>3, <1>5, <1>6 DEF Next

LEMMA HeldHeartsKept ==
  ASSUME MergesInv, [Next]_vars, NEW m \in Requests, At(m, "commit"), At(m, "commit")'
  PROVE  HeldHearts(req[m])'
  <1> DEFINE c == req[m].cust
  <1>1. SUFFICES ASSUME c \notin late' PROVE wish'[c] = wish[c]
    <2>1. req'[m].cust = c /\ (c \notin late' => req'[m] = req[m])
      BY MergeKeeps DEF MergesInv
    <2>2. c \notin late => req[m].saw = wish[c]
      BY DEF MergesInv, HeldInv, Held, HeldHearts
    <2>3. QED
      BY <1>1, <2>1, <2>2, LateGrows DEF HeldHearts
  <1>2. Sound /\ c \in Customers /\ wish \in [Customers -> SUBSET Products]
    BY DEF MergesInv, Sound, OtherTypes, RequestTypes, InHand, At
  <1>3. ASSUME NEW d \in Customers, Writes(d), \E set \in SUBSET Products : wish' = [wish EXCEPT ![d] = set]
        PROVE  wish'[c] = wish[c]
    BY <1>1, <1>2, <1>3, WriterIsLate
  <1>4. ASSUME NEW r \in Requests, MergeCommit(r) PROVE wish'[c] = wish[c]
    <2>1. r # m /\ At(r, "commit")
      BY <1>2, <1>4, IdleInHand, RequestBecomes DEF MergeCommit, Return, At, Idle, Sound
    <2>2. c \notin late
      BY <1>1, LateGrows
    <2>3. req[r].cust # c /\ req[r].into # c
      BY <2>1, <2>2, OtherMergeApart
    <2>4. QED
      BY <1>2, <1>4, <2>3 DEF MergeCommit
  <1>5. ASSUME NEW d \in Customers, NEW p \in Products,
               \/ wish' = [wish EXCEPT ![d] = @ \cup {p}]
               \/ wish' = [wish EXCEPT ![d] = @ \ {p}]
        PROVE  \E set \in SUBSET Products : wish' = [wish EXCEPT ![d] = set]
    <2>1. wish[d] \cup {p} \in SUBSET Products /\ wish[d] \ {p} \in SUBSET Products
      BY <1>2
    <2>2. QED
      BY <1>5, <2>1
  <1>6. QED
    BY <1>2, <1>3, <1>4, <1>5, WishMove DEF WishMoves

LEMMA HeldAtFirst ==
  ASSUME MergesInv, NEW m \in Requests, NEW s \in Customers, NEW t \in Customers, MergeRead(m, s, t)
  PROVE  Held(req[m])'
  <1> DEFINE q == req'[m]
  <1>1. /\ q.cust = s /\ q.into = t
        /\ q.cart = None => CartsOf(s) = {}
        /\ q.cart # None => cartOf[q.cart] = s /\ q.lines = line[q.cart]
        /\ q.other # None => cartOf[q.other] = t
        /\ q.saw = wish[s] /\ q.extras = ViewsOf(s)
    BY MergeReadTakes DEF MergesInv
  <1>2. UNCHANGED <<cartOf, line, wish, viewer>>
    BY DEF MergeRead, cartVars, viewVars
  <1>3. HeldCarts(req[m])'
    BY <1>1, <1>2 DEF HeldCarts, Follows, CartsOf
  <1>4. HeldRows(req[m])'
    BY <1>1, <1>2 DEF HeldRows, Follows, ViewsOf
  <1>5. HeldHearts(req[m])'
    BY <1>1, <1>2 DEF HeldHearts
  <1>6. QED
    BY <1>3, <1>4, <1>5 DEF Held

LEMMA MergesKept == MergesInv /\ [Next]_vars => MergesInv'
  <1> SUFFICES ASSUME MergesInv, [Next]_vars PROVE MergesInv'
    OBVIOUS
  <1>1. Sound' /\ TwoMerges'
    BY SoundKept, TwoMergesKept DEF MergesInv
  <1>2. ASSUME NEW m \in Requests, At(m, "commit")' PROVE Held(req[m])'
    <2>1. CASE At(m, "commit")
      BY <1>2, <2>1, HeldCartsKept, HeldRowsKept, HeldHeartsKept DEF Held
    <2>2. ASSUME NEW s \in Customers, NEW t \in Customers, MergeRead(m, s, t) PROVE Held(req[m])'
      BY <2>2, HeldAtFirst
    <2>3. QED
      BY <1>2, <2>1, <2>2, MergesMove DEF MergesInv
  <1>3. QED
    BY <1>1, <1>2 DEF MergesInv, HeldInv

LEMMA MergesStart == Init => MergesInv
  <1> SUFFICES ASSUME Init PROVE MergesInv
    OBVIOUS
  <1>1. \A r \in Requests : ~ At(r, "commit")
    BY DEF Init, At, Idle
  <1>2. QED
    BY <1>1, SoundStarts DEF MergesInv, HeldInv, TwoMerges

(***************************************************************************)
(* Nothing is lost                                                         *)
(***************************************************************************)

\* A cart that nobody has, or has yet, has no lines.
FreeIsEmpty == \A k \in Carts : cartOf[k] = None => line[k] = NoLines

\* A customer's cart has what he asked for; without a cart he asked for nothing.
KeptLines(c) ==
  /\ \A k \in Carts : cartOf[k] = c => line[k] = owed[c]
  /\ (\A k \in Carts : cartOf[k] # c) => owed[c] = NoLines

KeptInv ==
  /\ MergesInv /\ FreeIsEmpty
  /\ \A c \in Customers \ late : KeptLines(c) /\ wish[c] = hearts[c]

LEMMA FreeIsEmptyKept ==
  ASSUME Sound, FreeIsEmpty, [Next]_vars
  PROVE  FreeIsEmpty'
  <1>0. /\ CartTypes
        /\ \A r \in Requests : At(r, "upsert") => req[r].cart \in Carts
    BY DEF Sound, RequestTypes, InHand, At
  <1> USE NoNone
  <1>1. CASE UNCHANGED <<cartOf, line>>
    BY <1>1 DEF FreeIsEmpty
  <1>2. ASSUME NEW r \in Requests, NEW c \in Customers, NEW v \in Variants \cup {None},
               NEW k \in Carts, AddItem(r, c, v, k)
        PROVE  FreeIsEmpty'
    <2>1. UNCHANGED line
      BY <1>2 DEF AddItem
    <2>2. QED
      BY <1>0, <1>2, <2>1, CartEnsured DEF FreeIsEmpty, CartTypes
  <1>3. ASSUME NEW k \in Carts, cartOf[k] # None, UNCHANGED cartOf, \A j \in Carts \ {k} : line'[j] = line[j]
        PROVE  FreeIsEmpty'
    BY <1>0, <1>3 DEF FreeIsEmpty
  <1>4. ASSUME NEW c \in Customers, NEW k \in Carts, NEW v \in Variants,
               NEW quantity \in 0 .. MaxQuantity, UpdateItem(c, k, v, quantity)
        PROVE  FreeIsEmpty'
    BY <1>0, <1>3, <1>4 DEF UpdateItem, CartTypes
  <1>5. ASSUME NEW c \in Customers, NEW k \in Carts, Clear(c, k) PROVE FreeIsEmpty'
    BY <1>0, <1>3, <1>5 DEF Clear, CartTypes
  <1>6. ASSUME NEW r \in Requests, UpsertItem(r) PROVE FreeIsEmpty'
    BY <1>0, <1>1, <1>3, <1>6 DEF UpsertItem, Plus, CartTypes
  <1>7. ASSUME NEW r \in Requests, MergeCommit(r) PROVE FreeIsEmpty'
    <2> DEFINE k == req[r].cart
               l == req[r].other
               sum == [v \in Variants |-> line[l][v] + req[r].lines[v]]
    <2>1. \/ UNCHANGED cartVars
          \/ /\ k \in Carts /\ cartOf' = [cartOf EXCEPT ![k] = req[r].into] /\ UNCHANGED line
          \/ /\ k \in Carts /\ cartOf' = [cartOf EXCEPT ![k] = None] /\ line' = [line EXCEPT ![k] = NoLines]
          \/ /\ k \in Carts /\ l \in Carts /\ k # l /\ cartOf[l] # None
             /\ cartOf' = [cartOf EXCEPT ![k] = None]
             /\ line' = [line EXCEPT ![l] = sum, ![k] = NoLines]
      BY <1>7, CartsMerged
    <2>2. req[r].into # None
      BY <1>7 DEF MergeCommit, At, Sound, RequestTypes, InHand
    <2> HIDE DEF k, l, sum
    <2>3. QED
      BY <1>0, <1>1, <2>1, <2>2 DEF FreeIsEmpty, CartTypes, cartVars
  <1>8. QED
    BY <1>1, <1>2, <1>4, <1>5, <1>6, <1>7, CartsMove DEF CartMoves, cartVars, RemoveDiscount, ApplyDiscount

\* What a merge hands over is what was asked for, of the source and of the target.
LEMMA MergeKeepsLines ==
  ASSUME KeptInv, NEW r \in Requests, MergeCommit(r), NEW c \in Customers \ late'
  PROVE  KeptLines(c)'
  <1> DEFINE s == req[r].cust
             t == req[r].into
             k == req[r].cart
             l == req[r].other
             lines == req[r].lines
             sum == [v \in Variants |-> line[l][v] + lines[v]]
             both == [v \in Variants |-> owed[t][v] + owed[s][v]]
  <1>1. /\ Sound /\ CartTypes /\ At(r, "commit")
        /\ late' = IF s \in late THEN late \cup {t} ELSE late
        /\ owed' = [Plus(owed, t, owed[s]) EXCEPT ![s] = NoLines]
    BY DEF KeptInv, MergesInv, Sound, MergeCommit
  <1>2. /\ s \in Customers /\ t \in Customers /\ s # t /\ (k = None => lines = NoLines)
        /\ k \in Carts \cup {None} /\ l \in Carts \cup {None} /\ lines \in [Variants -> 0 .. MaxQuantity]
    BY <1>1 DEF Sound, RequestTypes, Reqs, InHand, At
  <1>3. owed \in [Customers -> [Variants -> Nat]]
    BY <1>1 DEF Sound, OtherTypes
  <1>4. owed' = [owed EXCEPT ![t] = both, ![s] = NoLines]
    BY <1>1 DEF Plus
  <1>5. HeldCarts(req[r])
    BY <1>1 DEF KeptInv, MergesInv, HeldInv, Held
  <1>6. \/ k = None /\ UNCHANGED cartVars
        \/ /\ k \in Carts /\ lines # NoLines /\ l = None /\ CartsOf(t) \subseteq {k}
           /\ cartOf' = [cartOf EXCEPT ![k] = t] /\ UNCHANGED line
        \/ /\ k \in Carts /\ lines = NoLines
           /\ cartOf' = [cartOf EXCEPT ![k] = None] /\ line' = [line EXCEPT ![k] = NoLines]
        \/ /\ k \in Carts /\ l \in Carts /\ k # l
           /\ cartOf' = [cartOf EXCEPT ![k] = None]
           /\ line' = [line EXCEPT ![l] = sum, ![k] = NoLines]
    BY <1>1, CartsMerged
  <1>7. c \notin late /\ (c = t => s \notin late)
    BY <1>1
  <1>8. KeptLines(c) /\ (c = t => KeptLines(s))
    BY <1>2, <1>7 DEF KeptInv
  <1>9. /\ k # None => cartOf[k] \in {None, s} \/ cartOf[k] \in late
        /\ l # None => cartOf[l] \in {None, t} \/ cartOf[l] \in late
        /\ l # None /\ t \notin late => cartOf[l] = t
        /\ s \notin late /\ k = None => \A j \in Carts : cartOf[j] # s
        /\ s \notin late /\ k # None => cartOf[k] = s /\ line[k] = lines
    BY <1>5 DEF HeldCarts, Follows, CartsOf
  <1>10. s \notin late => lines = owed[s]
    <2>1. s \notin late => KeptLines(s)
      BY <1>2 DEF KeptInv
    <2>2. QED
      BY <1>2, <1>9, <2>1 DEF KeptLines
  <1> USE NoNone
  <1> HIDE DEF s, t, k, l, lines, sum, both
  <1>11. SUFFICES /\ \A j \in Carts : cartOf'[j] = c => line'[j] = owed'[c]
                  /\ (\A j \in Carts : cartOf'[j] # c) => owed'[c] = NoLines
    BY DEF KeptLines
  <1>12. CASE c = s
    <2>1. owed'[s] = NoLines
      BY <1>2, <1>3, <1>4
    <2>2. \A j \in Carts : cartOf'[j] # s
      BY <1>1, <1>2, <1>6, <1>7, <1>9, <1>12 DEF CartTypes, cartVars
    <2>3. QED
      BY <1>12, <2>1, <2>2
  <1>13. CASE c = t
    <2>1. owed'[t] = both /\ lines = owed[s]
      BY <1>2, <1>3, <1>4, <1>7, <1>10, <1>13
    <2>2. lines = NoLines => both = owed[t]
      <3>1. ASSUME lines = NoLines, NEW v \in Variants PROVE owed[t][v] + owed[s][v] = owed[t][v]
        <4>1. owed[s][v] = 0 /\ owed[t][v] \in Nat
          BY <1>2, <1>3, <2>1, <3>1 DEF NoLines
        <4>2. QED
          BY <4>1
      <3>2. owed[t] \in [Variants -> Nat]
        BY <1>2, <1>3
      <3>3. QED
        BY <3>1, <3>2 DEF both
    <2>3. owed[t] = NoLines => both = lines
      <3>1. ASSUME owed[t] = NoLines, NEW v \in Variants PROVE owed[t][v] + owed[s][v] = lines[v]
        <4>1. owed[t][v] = 0 /\ owed[s][v] \in Nat /\ owed[s][v] = lines[v]
          BY <1>2, <1>3, <2>1, <3>1 DEF NoLines
        <4>2. QED
          BY <4>1
      <3>2. QED
        BY <1>2, <3>1 DEF both
    <2>4. line[l] = owed[t] => sum = both
      BY <2>1 DEF sum, both
    <2>5. /\ k # None => cartOf[k] = s /\ line[k] = lines
          /\ l # None => cartOf[l] = t
      BY <1>7, <1>9, <1>13
    <2>6. /\ \A j \in Carts : cartOf[j] = t => line[j] = owed[t]
          /\ (\A j \in Carts : cartOf[j] # t) => owed[t] = NoLines
      BY <1>8, <1>13 DEF KeptLines
    <2>7. CASE k = None /\ UNCHANGED cartVars
      BY <1>2, <1>13, <2>1, <2>2, <2>6, <2>7 DEF cartVars
    <2>8. CASE /\ k \in Carts /\ CartsOf(t) \subseteq {k}
               /\ cartOf' = [cartOf EXCEPT ![k] = t] /\ UNCHANGED line
      <3>1. \A j \in Carts : cartOf[j] # t
        BY <1>2, <2>5, <2>8 DEF CartsOf
      <3>2. QED
        BY <1>1, <1>13, <2>1, <2>3, <2>5, <2>6, <2>8, <3>1 DEF CartTypes
    <2>9. CASE /\ k \in Carts /\ lines = NoLines
               /\ cartOf' = [cartOf EXCEPT ![k] = None] /\ line' = [line EXCEPT ![k] = NoLines]
      BY <1>1, <1>2, <1>13, <2>1, <2>2, <2>5, <2>6, <2>9 DEF CartTypes
    <2>10. CASE /\ k \in Carts /\ l \in Carts /\ k # l
                /\ cartOf' = [cartOf EXCEPT ![k] = None]
                /\ line' = [line EXCEPT ![l] = sum, ![k] = NoLines]
      <3>1. cartOf[l] = t /\ line'[l] = both /\ cartOf'[l] = t
        BY <1>1, <2>4, <2>5, <2>6, <2>10 DEF CartTypes
      <3>2. \A j \in Carts : cartOf'[j] = t => j = l
        BY <1>1, <1>2, <2>10, <3>1 DEF CartTypes
      <3>3. QED
        BY <1>13, <2>1, <2>10, <3>1, <3>2
    <2>11. QED
      BY <1>6, <2>7, <2>8, <2>9, <2>10
  <1>14. CASE c # s /\ c # t
    <2>1. owed'[c] = owed[c]
      BY <1>3, <1>4, <1>14
    <2>2. /\ k # None => cartOf[k] # c
          /\ l # None => cartOf[l] # c
      BY <1>7, <1>9, <1>14
    <2>3. /\ \A j \in Carts : cartOf'[j] = c => cartOf[j] = c /\ line'[j] = line[j]
          /\ \A j \in Carts : cartOf[j] = c => cartOf'[j] = c
      BY <1>1, <1>6, <1>14, <2>2 DEF CartTypes, cartVars
    <2>4. QED
      BY <1>8, <2>1, <2>3 DEF KeptLines
  <1>15. QED
    BY <1>12, <1>13, <1>14

LEMMA LinesKept ==
  ASSUME KeptInv, [Next]_vars, NEW c \in Customers \ late'
  PROVE  KeptLines(c)'
  <1>1. /\ Sound /\ CartTypes /\ FreeIsEmpty /\ owed \in [Customers -> [Variants -> Nat]]
        /\ \A r \in Requests : At(r, "upsert") => req[r].cart \in Carts
    BY DEF KeptInv, MergesInv, Sound, OtherTypes, RequestTypes, InHand, At
  <1>2. KeptLines(c) /\ \A d \in Customers : d \notin late => KeptLines(d)
    BY LateGrows DEF KeptInv
  <1> USE NoNone
  <1>3. CASE UNCHANGED <<cartOf, line, owed>>
    BY <1>2, <1>3 DEF KeptLines
  <1>4. ASSUME NEW r \in Requests, NEW d \in Customers, NEW v \in Variants \cup {None},
               NEW k \in Carts, AddItem(r, d, v, k)
        PROVE  KeptLines(c)'
    <2>1. UNCHANGED <<line, owed>>
      BY <1>4 DEF AddItem
    <2>2. /\ cartOf' = [cartOf EXCEPT ![k] = d]
          /\ cartOf[k] = d \/ (cartOf[k] = None /\ \A j \in Carts : cartOf[j] # d)
      BY <1>1, <1>4, CartEnsured DEF CartsOf
    <2>3. cartOf[k] = None => line[k] = NoLines
      BY <1>1 DEF FreeIsEmpty
    <2>4. CASE cartOf[k] = d
      BY <1>1, <1>2, <2>1, <2>2, <2>4 DEF KeptLines, CartTypes
    <2>5. CASE cartOf[k] = None /\ (\A j \in Carts : cartOf[j] # d) /\ c = d
      <3>1. owed[c] = NoLines
        BY <1>2, <2>5 DEF KeptLines
      <3>2. \A j \in Carts : cartOf'[j] = c => j = k
        BY <1>1, <2>2, <2>5 DEF CartTypes
      <3>3. cartOf'[k] = c
        BY <1>1, <2>2, <2>5 DEF CartTypes
      <3>4. QED
        BY <2>1, <2>3, <2>5, <3>1, <3>2, <3>3 DEF KeptLines
    <2>6. CASE cartOf[k] = None /\ c # d
      <3>1. \A j \in Carts : cartOf'[j] = c <=> cartOf[j] = c
        BY <1>1, <2>2, <2>6 DEF CartTypes
      <3>2. QED
        BY <1>2, <2>1, <3>1 DEF KeptLines
    <2>7. QED
      BY <2>2, <2>4, <2>5, <2>6
  \* The lines of one cart change as its owner asks for.
  <1>5. ASSUME NEW k \in Carts, NEW d \in Customers, cartOf[k] = d, UNCHANGED cartOf,
               \A j \in Carts \ {k} : line'[j] = line[j],
               \A b \in Customers \ {d} : owed'[b] = owed[b],
               line[k] = owed[d] => line'[k] = owed'[d]
        PROVE  KeptLines(c)'
    <2>1. CASE c = d
      BY <1>1, <1>2, <1>5, <2>1 DEF KeptLines, CartTypes
    <2>2. CASE c # d
      BY <1>2, <1>5, <2>2 DEF KeptLines
    <2>3. QED
      BY <2>1, <2>2
  <1>6. ASSUME NEW d \in Customers, NEW k \in Carts, NEW v \in Variants,
               NEW quantity \in 0 .. MaxQuantity, UpdateItem(d, k, v, quantity)
        PROVE  KeptLines(c)'
    <2>1. /\ cartOf[k] = d /\ UNCHANGED cartOf
          /\ line' = [line EXCEPT ![k] = [line[k] EXCEPT ![v] = quantity]]
          /\ owed' = [owed EXCEPT ![d] = [owed[d] EXCEPT ![v] = quantity]]
      BY <1>6 DEF UpdateItem
    <2>2. QED
      BY <1>1, <1>5, <2>1 DEF CartTypes
  <1>7. ASSUME NEW d \in Customers, NEW k \in Carts, Clear(d, k) PROVE KeptLines(c)'
    <2>1. /\ cartOf[k] = d /\ UNCHANGED cartOf
          /\ line' = [line EXCEPT ![k] = NoLines] /\ owed' = [owed EXCEPT ![d] = NoLines]
      BY <1>7 DEF Clear
    <2>2. QED
      BY <1>1, <1>5, <2>1 DEF CartTypes
  <1>8. ASSUME NEW r \in Requests, UpsertItem(r) PROVE KeptLines(c)'
    <2> DEFINE k == req[r].cart
               d == cartOf[k]
               one == One(req[r].thing)
    <2>1. CASE d = None
      BY <1>3, <1>8, <2>1 DEF UpsertItem
    <2>2. CASE d # None
      <3>1. /\ k \in Carts /\ UNCHANGED cartOf
            /\ line' = [line EXCEPT ![k] = [v \in Variants |-> line[k][v] + one[v]]]
            /\ owed' = [owed EXCEPT ![d] = [v \in Variants |-> owed[d][v] + one[v]]]
        BY <1>1, <1>8, <2>2 DEF UpsertItem, Plus
      <3>2. d \in Customers
        BY <1>1, <2>2, <3>1 DEF CartTypes
      <3> HIDE DEF k, one
      <3>3. QED
        BY <1>1, <1>5, <3>1, <3>2 DEF CartTypes
    <2>3. QED
      BY <2>1, <2>2
  <1>9. ASSUME NEW r \in Requests, MergeCommit(r) PROVE KeptLines(c)'
    BY <1>9, MergeKeepsLines
  <1>10. QED
    BY <1>3, <1>4, <1>6, <1>7, <1>8, <1>9, CartsMove DEF CartMoves, cartVars, RemoveDiscount, ApplyDiscount

\* Every heart arrives.
LEMMA HeartsKept ==
  ASSUME KeptInv, [Next]_vars, NEW c \in Customers \ late'
  PROVE  wish'[c] = hearts'[c]
  <1>1. /\ Sound /\ wish \in [Customers -> SUBSET Products] /\ hearts \in [Customers -> SUBSET Products]
    BY DEF KeptInv, MergesInv, Sound, OtherTypes
  <1>2. \A d \in Customers : d \notin late => wish[d] = hearts[d]
    BY DEF KeptInv
  <1>3. c \notin late
    BY LateGrows
  <1>4. ASSUME NEW d \in Customers, NEW p \in Products,
               \/ wish' = [wish EXCEPT ![d] = @ \cup {p}] /\ hearts' = [hearts EXCEPT ![d] = @ \cup {p}]
               \/ wish' = [wish EXCEPT ![d] = @ \ {p}] /\ hearts' = [hearts EXCEPT ![d] = @ \ {p}]
        PROVE  wish'[c] = hearts'[c]
    BY <1>1, <1>2, <1>3, <1>4
  <1>5. ASSUME NEW r \in Requests, MergeCommit(r) PROVE wish'[c] = hearts'[c]
    <2> DEFINE s == req[r].cust
               t == req[r].into
    <2>1. /\ At(r, "commit") /\ late' = IF s \in late THEN late \cup {t} ELSE late
          /\ wish' = [wish EXCEPT ![s] = @ \ req[r].saw, ![t] = @ \cup (req[r].saw \ req[r].had)]
          /\ hearts' = [hearts EXCEPT ![s] = {}, ![t] = @ \cup (hearts[s] \ req[r].had)]
      BY <1>5 DEF MergeCommit
    <2>2. s \in Customers /\ t \in Customers /\ s # t
      BY <1>1, <2>1 DEF Sound, RequestTypes, InHand, At
    <2>3. s \notin late => req[r].saw = wish[s]
      BY <2>1 DEF KeptInv, MergesInv, HeldInv, Held, HeldHearts
    <2> HIDE DEF s, t
    <2>4. CASE c = s
      BY <1>1, <1>3, <2>1, <2>2, <2>3, <2>4
    <2>5. CASE c = t
      <3>1. s \notin late
        BY <2>1, <2>5
      <3>2. QED
        BY <1>1, <1>2, <1>3, <2>1, <2>2, <2>3, <2>5, <3>1
    <2>6. CASE c # s /\ c # t
      BY <1>1, <1>2, <1>3, <2>1, <2>2, <2>6
    <2>7. QED
      BY <2>4, <2>5, <2>6
  <1>6. QED
    BY <1>1, <1>2, <1>3, <1>4, <1>5, WishMove DEF WishMoves

LEMMA KeptKept == KeptInv /\ [Next]_vars => KeptInv'
  <1> SUFFICES ASSUME KeptInv, [Next]_vars PROVE KeptInv'
    OBVIOUS
  <1>1. MergesInv'
    BY MergesKept DEF KeptInv
  <1>2. FreeIsEmpty'
    BY FreeIsEmptyKept DEF KeptInv, MergesInv
  <1>3. ASSUME NEW c \in Customers \ late' PROVE KeptLines(c)' /\ wish'[c] = hearts'[c]
    BY LinesKept, HeartsKept
  <1>4. QED
    BY <1>1, <1>2, <1>3 DEF KeptInv

LEMMA KeptStarts == Init => KeptInv
  <1> SUFFICES ASSUME Init PROVE KeptInv
    OBVIOUS
  <1>1. FreeIsEmpty /\ \A c \in Customers : KeptLines(c) /\ wish[c] = hearts[c]
    BY NoNone DEF Init, FreeIsEmpty, KeptLines
  <1>2. QED
    BY <1>1, MergesStart DEF KeptInv

\* A merge hands over what it is a merge of: the lines of both carts are added up, every heart
\* arrives, and nothing stays behind with the merged account, except what is written for it
\* while its merge is under way or after it, and merges that overlap (mergeCarts,
\* moveWithDedupe).
THEOREM MergeLosesNothing == Spec => []NothingLost
  <1>1. KeptInv => NothingLost
    <2> SUFFICES ASSUME KeptInv, NEW c \in Customers \ late PROVE LinesOf(c) = owed[c] /\ wish[c] = hearts[c]
      BY DEF NothingLost
    <2>1. KeptLines(c) /\ wish[c] = hearts[c]
      BY DEF KeptInv
    <2>2. owed[c] \in [Variants -> Nat]
      BY DEF KeptInv, MergesInv, Sound, OtherTypes
    <2> DEFINE k == IF CartsOf(c) = {} THEN None ELSE CHOOSE j \in CartsOf(c) : TRUE
    <2>3. /\ k = None => CartsOf(c) = {}
          /\ k # None => k \in Carts /\ cartOf[k] = c
          /\ LinesOf(c) = IF k = None THEN NoLines ELSE [v \in Variants |-> line[k][v]]
      BY OwnCart
    <2> HIDE DEF k
    <2>4. CASE k = None
      BY <2>1, <2>3, <2>4 DEF KeptLines, CartsOf
    <2>5. CASE k # None
      <3>1. line[k] = owed[c]
        BY <2>1, <2>3, <2>5 DEF KeptLines
      <3>2. QED
        BY <2>1, <2>2, <2>3, <2>5, <3>1
    <2>6. QED
      BY <2>4, <2>5
  <1>2. QED
    BY <1>1, KeptStarts, KeptKept, PTL DEF Spec

(***************************************************************************)
(* What was viewed last                                                    *)
(***************************************************************************)

\* Among rows one was viewed last, and only one.
LEMMA SomeIsLast ==
  ASSUME Sound, NEW rows \in SUBSET Views, rows # {}
  PROVE  \E w \in rows : Newer(w, rows) = {}
  <1> DEFINE stamps == {viewedAt[w] : w \in rows}
  <1>1. viewedAt \in [Views -> 0 .. begun] /\ begun \in Nat
    BY DEF Sound, ViewTypes, OtherTypes
  <1>2. stamps \in SUBSET Nat /\ stamps # {} /\ \A y \in stamps : y <= begun
    BY <1>1
  <1>3. PICK x \in stamps : \A y \in stamps : y <= x
    <2> HIDE DEF stamps
    <2>1. QED
      BY <1>1, <1>2, Greatest
  <1>4. PICK w \in rows : x = viewedAt[w]
    BY <1>3
  <1>5. ASSUME NEW u \in rows, viewedAt[u] > viewedAt[w] PROVE FALSE
    <2>1. viewedAt[u] <= x /\ viewedAt[u] \in Nat /\ x \in Nat
      BY <1>1, <1>3, <1>4
    <2> HIDE DEF stamps
    <2>2. QED
      BY <1>4, <1>5, <2>1
  <1>6. QED
    BY <1>5 DEF Newer

LEMMA OneIsLast ==
  ASSUME Sound, NEW rows \in SUBSET Views, \A w \in rows : viewer[w] # None,
         NEW u \in rows, NEW w \in rows, Newer(u, rows) = {}, Newer(w, rows) = {}
  PROVE  u = w
  <1>1. viewedAt[u] \in Nat /\ viewedAt[w] \in Nat
    BY BasketAssumption DEF Sound, ViewTypes, OtherTypes
  <1>2. ~ viewedAt[u] > viewedAt[w] /\ ~ viewedAt[w] > viewedAt[u]
    BY DEF Newer
  <1>3. viewedAt[u] = viewedAt[w]
    BY <1>1, <1>2
  <1>4. QED
    BY <1>3 DEF Sound, ViewTypes

\* What a trim leaves of a list is within the limit: of what it leaves the oldest has less than
\* Limit newer rows.
LEMMA TrimLeavesLimit ==
  ASSUME Sound, NEW c \in Customers
  PROVE  Cardinality(ViewsOf(c) \ Extras(c)) <= Limit
  <1> DEFINE mine == ViewsOf(c)
             kept == mine \ Extras(c)
             stamps == {viewedAt[w] : w \in kept}
  <1>1. /\ viewedAt \in [Views -> 0 .. begun] /\ begun \in Nat /\ Limit \in Nat \ {0}
        /\ IsFiniteSet(Views) /\ mine \in SUBSET Views
    BY BasketAssumption DEF Sound, ViewTypes, OtherTypes, ViewsOf
  <1>2. \A w \in mine : Newer(w, mine) \in SUBSET Views /\ IsFiniteSet(Newer(w, mine))
                        /\ Cardinality(Newer(w, mine)) \in Nat
    <2>1. ASSUME NEW w \in mine PROVE Newer(w, mine) \in SUBSET Views
      BY <1>1 DEF Newer
    <2>2. QED
      BY <1>1, <2>1, FS_Subset, FS_CardinalityType
  <1>3. CASE kept = {}
    BY <1>1, <1>3, FS_EmptySet
  <1>4. CASE kept # {}
    <2>1. stamps \in SUBSET Nat /\ stamps # {}
      BY <1>1, <1>4
    <2>2. PICK x \in stamps : \A y \in stamps : x <= y
      <3> HIDE DEF stamps
      <3>1. QED
        BY <2>1, Least
    <2>3. PICK w \in kept : x = viewedAt[w]
      BY <2>2
    <2>4. w \in mine /\ Cardinality(Newer(w, mine)) < Limit
      <3>1. w \in mine /\ ~ Cardinality(Newer(w, mine)) >= Limit
        BY <2>3 DEF Extras
      <3>2. QED
        BY <1>1, <1>2, <3>1
    <2>5. kept \subseteq Newer(w, mine) \cup {w}
      <3>1. ASSUME NEW u \in kept, u # w PROVE viewedAt[u] > viewedAt[w]
        <4>1. u \in Views /\ w \in Views /\ viewer[u] = c /\ c # None
          BY <2>3, <3>1, NoNone DEF ViewsOf
        <4>2. viewedAt[u] # viewedAt[w]
          BY <3>1, <4>1 DEF Sound, ViewTypes
        <4>3. viewedAt[u] \in Nat /\ viewedAt[w] \in Nat /\ viewedAt[w] <= viewedAt[u]
          BY <1>1, <2>2, <2>3, <4>1
        <4>4. QED
          BY <4>2, <4>3
      <3>2. QED
        BY <3>1 DEF Newer
    <2> HIDE DEF mine, kept
    <2>6. /\ IsFiniteSet(Newer(w, mine) \cup {w})
          /\ Cardinality(Newer(w, mine) \cup {w}) <= Cardinality(Newer(w, mine)) + 1
          /\ Cardinality(Newer(w, mine) \cup {w}) \in Nat
      <3>1. IsFiniteSet(Newer(w, mine)) /\ Cardinality(Newer(w, mine)) \in Nat
        BY <1>2, <2>4
      <3>2. /\ IsFiniteSet(Newer(w, mine) \cup {w})
            /\ Cardinality(Newer(w, mine) \cup {w}) =
                 IF w \in Newer(w, mine) THEN Cardinality(Newer(w, mine)) ELSE Cardinality(Newer(w, mine)) + 1
        BY <3>1, FS_AddElement
      <3>3. QED
        BY <3>1, <3>2
    <2>7. /\ IsFiniteSet(kept) /\ Cardinality(kept) <= Cardinality(Newer(w, mine) \cup {w})
          /\ Cardinality(kept) \in Nat
      BY <2>5, <2>6, FS_Subset, FS_CardinalityType
    <2>8. Cardinality(Newer(w, mine)) \in Nat
      BY <1>2, <2>4
    <2>9. Cardinality(kept) <= Limit
      BY <1>1, <2>4, <2>6, <2>7, <2>8
    <2>10. QED
      BY <2>9 DEF kept, mine
  <1>5. QED
    BY <1>3, <1>4

(***************************************************************************)
(* The list of a customer                                                  *)
(***************************************************************************)

Trimming(c) == \E r \in Requests : At(r, "trim") /\ req[r].cust = c

\* What the trims of c's list are about to delete.
Going(c) == {w \in Views : \E r \in Requests : At(r, "drop") /\ req[r].cust = c /\ w \in req[r].extras}

\* A list is within its limit, or a trim under way makes it so.
ShortList(c) == Trimming(c) \/ Cardinality(ViewsOf(c) \ Going(c)) <= Limit

\* The row viewed last is of the product the customer viewed last, and no trim deletes it.
LastIsNewest(c) ==
  /\ newest[c] # None => ViewsOf(c) # {}
  /\ \A w \in ViewsOf(c) : Newer(w, ViewsOf(c)) = {} => product[w] = newest[c] /\ ~ Picked(w)

ListInv ==
  /\ MergesInv
  /\ \A c \in Customers \ (late \cup untrimmed \cup merged) : ShortList(c)
  /\ \A c \in Customers \ (late \cup raced \cup merged) : LastIsNewest(c)

\* No trim begins or goes on.
TrimsRest ==
  \A m \in Requests : req[m].pc \in {"trim", "drop"} \/ req'[m].pc \in {"trim", "drop"} => req'[m] = req[m]

ListMoves ==
  \/ UNCHANGED <<viewVars, newest, raced, untrimmed, merged>> /\ TrimsRest
  \/ \E r \in Requests, c \in Customers, p \in Products, w \in Views : RecordView(r, c, p, w)
  \/ \E r \in Requests : TrimRead(r) \/ TrimDelete(r) \/ MergeCommit(r) \/ Stop(r)

LEMMA OtherTrimsRest ==
  ASSUME Sound, NEW r \in Requests, NEW q, Become(r, q),
         req[r].pc \notin {"trim", "drop"}, q.pc \notin {"trim", "drop"}
  PROVE  TrimsRest
  <1>1. req'[r] = q /\ \A m \in Requests \ {r} : req'[m] = req[m]
    BY DEF Become, Sound, RequestTypes
  <1>2. QED
    BY <1>1 DEF TrimsRest

LEMMA ListMove == Sound /\ [Next]_vars => ListMoves
  <1> SUFFICES ASSUME Sound, [Next]_vars PROVE ListMoves
    OBVIOUS
  <1> DEFINE Apart == UNCHANGED <<viewVars, newest, raced, untrimmed, merged>>
  <1>0. Idle.pc = "idle"
    BY DEF Idle
  <1>1. CASE CartRequest
    <2>1. ASSUME NEW r \in Requests, NEW c \in Customers, NEW v \in Variants \cup {None},
                 NEW k \in Carts, AddItem(r, c, v, k)
          PROVE  Apart /\ TrimsRest
      <3> DEFINE q == [Idle EXCEPT !.pc = IF v = None THEN "code" ELSE "upsert", !.cust = c,
                                   !.thing = v, !.cart = k]
      <3>1. Become(r, q) /\ At(r, "idle") /\ Apart
        BY <2>1 DEF AddItem, Take, viewHistory
      <3>2. q.pc \notin {"trim", "drop"}
        BY DEF Idle
      <3> HIDE DEF q
      <3>3. QED
        BY <3>1, <3>2, OtherTrimsRest DEF At
    <2>2. ASSUME NEW c \in Customers, NEW k \in Carts, NEW v \in Variants, NEW n \in 0 .. MaxQuantity,
                 UpdateItem(c, k, v, n)
          PROVE  Apart /\ TrimsRest
      BY <2>2 DEF UpdateItem, TrimsRest, viewHistory
    <2>3. ASSUME NEW c \in Customers, NEW k \in Carts, Clear(c, k) \/ RemoveDiscount(c, k)
          PROVE  Apart /\ TrimsRest
      BY <2>3 DEF Clear, RemoveDiscount, TrimsRest, viewHistory
    <2>4. QED
      BY <1>1, <2>1, <2>2, <2>3 DEF CartRequest, ListMoves
  <1>2. CASE WishlistRequest
    <2>1. ASSUME NEW r \in Requests, NEW c \in Customers, NEW p \in Products, AddHeart(r, c, p)
          PROVE  Apart /\ TrimsRest
      <3> DEFINE q == [Idle EXCEPT !.pc = "heart", !.cust = c, !.thing = p]
      <3>1. Become(r, q) /\ At(r, "idle") /\ Apart
        BY <2>1 DEF AddHeart, Begin, Take, viewHistory
      <3>2. q.pc \notin {"trim", "drop"}
        BY DEF Idle
      <3> HIDE DEF q
      <3>3. QED
        BY <3>1, <3>2, OtherTrimsRest DEF At
    <2>2. ASSUME NEW c \in Customers, NEW p \in Products, RemoveHeart(c, p) PROVE Apart /\ TrimsRest
      <3>1. Apart
        BY <2>2 DEF RemoveHeart, viewHistory
      <3>2. ASSUME NEW m \in Requests, ~ At(m, "commit") PROVE req'[m] = req[m]
        BY <2>2, <3>2 DEF RemoveHeart
      <3>3. ASSUME NEW m \in Requests, At(m, "commit") PROVE req'[m].pc = "commit"
        <4>1. PICK seen \in SUBSET Products : req'[m] = [req[m] EXCEPT !.saw = seen]
          BY <2>2, HeartLeaves
        <4>2. req[m] \in Reqs
          BY DEF Sound, RequestTypes
        <4>3. QED
          BY <3>3, <4>1, <4>2 DEF At, Reqs
      <3>4. QED
        BY <3>1, <3>2, <3>3 DEF TrimsRest, At
    <2>3. QED
      BY <1>2, <2>1, <2>2 DEF WishlistRequest, ListMoves
  <1>3. CASE ViewRequest
    BY <1>3 DEF ViewRequest, ListMoves
  <1>4. ASSUME NEW r \in Requests, Step(r) PROVE ListMoves
    <2>1. ASSUME UpsertItem(r) \/ ApplyDiscount(r) \/ CreateHeart(r) \/ MergeRefused(r) PROVE Apart /\ TrimsRest
      <3>1. Become(r, Idle) /\ req[r].pc \notin {"trim", "drop"} /\ Apart
        BY <2>1 DEF UpsertItem, ApplyDiscount, CreateHeart, MergeRefused, Return, At, viewHistory
      <3>2. QED
        BY <1>0, <3>1, OtherTrimsRest
    <2>2. ASSUME NEW s \in Customers, NEW t \in Customers, MergeRead(r, s, t) PROVE Apart /\ TrimsRest
      <3>1. /\ Apart /\ At(r, "idle") /\ req'[r].pc = "commit"
            /\ \A m \in Requests \ {r} : req'[m] = req[m]
        BY <2>2, MergeReadTakes DEF MergeRead, Begin, Take, Become, viewHistory, Sound, RequestTypes
      <3>2. QED
        BY <3>1 DEF TrimsRest, At
    <2>3. QED
      BY <1>4, <2>1, <2>2 DEF Step, ListMoves
  <1>5. CASE UNCHANGED vars
    BY <1>5 DEF vars, ListMoves, TrimsRest, viewHistory
  <1>6. QED
    BY <1>1, <1>2, <1>3, <1>4, <1>5 DEF Next

LEMMA FewerRows ==
  ASSUME NEW S \in SUBSET Views, NEW T \in SUBSET S, Cardinality(S) <= Limit
  PROVE  Cardinality(T) <= Limit
  <1>1. IsFiniteSet(S) /\ Cardinality(S) \in Nat /\ Limit \in Nat
    BY BasketAssumption, FS_Subset, FS_CardinalityType
  <1>2. Cardinality(T) <= Cardinality(S) /\ IsFiniteSet(T)
    BY <1>1, FS_Subset
  <1>3. Cardinality(T) \in Nat
    BY <1>2, FS_CardinalityType
  <1>4. QED
    BY <1>1, <1>2, <1>3

\* A customer's list is as it was, and so are the trims that are about it.
LEMMA ListStays ==
  ASSUME NEW c \in Customers,
         \A w \in Views : viewer'[w] = c <=> viewer[w] = c,
         \A w \in ViewsOf(c) : product'[w] = product[w] /\ viewedAt'[w] = viewedAt[w],
         newest'[c] = newest[c]
  PROVE  /\ ViewsOf(c)' = ViewsOf(c)
         /\ Trimming(c)' = Trimming(c) /\ Going(c)' = Going(c) /\ ShortList(c) => ShortList(c)'
         /\ (\A w \in ViewsOf(c) : Picked(w)' => Picked(w)) /\ LastIsNewest(c) => LastIsNewest(c)'
  <1>1. ViewsOf(c)' = ViewsOf(c)
    BY DEF ViewsOf
  <1>2. ASSUME Trimming(c)' = Trimming(c), Going(c)' = Going(c), ShortList(c) PROVE ShortList(c)'
    BY <1>1, <1>2 DEF ShortList
  <1>3. ASSUME \A w \in ViewsOf(c) : Picked(w)' => Picked(w), LastIsNewest(c) PROVE LastIsNewest(c)'
    <2>1. ASSUME NEW w \in ViewsOf(c)', Newer(w, ViewsOf(c))' = {}
          PROVE  product'[w] = newest'[c] /\ ~ Picked(w)'
      <3>1. Newer(w, ViewsOf(c)) = {}
        BY <1>1, <2>1 DEF Newer
      <3>2. QED
        BY <1>1, <1>3, <2>1, <3>1 DEF LastIsNewest
    <2>2. newest'[c] # None => ViewsOf(c)' # {}
      BY <1>1, <1>3 DEF LastIsNewest
    <2>3. QED
      BY <2>1, <2>2 DEF LastIsNewest
  <1>4. QED
    BY <1>1, <1>2, <1>3

\* A merge leaves the lists of others alone, and makes one list of two.
LEMMA MergeOnLists ==
  ASSUME MergesInv, NEW r \in Requests, MergeCommit(r), NEW c \in Customers \ late', c # req[r].cust
  PROVE  /\ \A w \in Views : viewer'[w] = c <=> viewer[w] = c \/ (c = req[r].into /\ w \in ToMove(r))
         /\ \A w \in Views : viewer'[w] = c => product'[w] = product[w] /\ viewedAt'[w] = viewedAt[w]
  <1> DEFINE s == req[r].cust
             t == req[r].into
             move == ToMove(r)
             drop == req[r].extras \ move
  <1>1. /\ Sound /\ At(r, "commit") /\ late' = IF s \in late THEN late \cup {t} ELSE late
    BY DEF MergesInv, MergeCommit
  <1>2. HeldRows(req[r])
    BY <1>1 DEF MergesInv, HeldInv, Held
  <1>3. /\ s \in Customers /\ t \in Customers /\ s # t /\ move \subseteq req[r].extras
        /\ \A w \in move : viewer[w] # None
        /\ viewer' = [w \in Views |-> IF w \in move THEN t ELSE IF w \in drop THEN None ELSE viewer[w]]
        /\ product' = [w \in Views |-> IF w \in drop THEN None ELSE product[w]]
        /\ viewedAt' = [w \in Views |-> IF w \in drop THEN 0 ELSE viewedAt[w]]
    BY <1>1, RowsMerged
  <1>4. c # None /\ c \notin late
    BY <1>1, NoNone
  <1>5. \A w \in req[r].extras : viewer[w] # c
    <2>1. ASSUME NEW w \in req[r].extras PROVE viewer[w] \in {None, s} \/ viewer[w] \in late
      BY <1>2 DEF HeldRows, Follows
    <2>2. QED
      BY <1>4, <2>1
  <1> HIDE DEF move, t, s
  <1>6. \A w \in Views : viewer'[w] = c <=> viewer[w] = c \/ (c = t /\ w \in move)
    BY <1>3, <1>4, <1>5
  <1>7. \A w \in Views : viewer'[w] = c => product'[w] = product[w] /\ viewedAt'[w] = viewedAt[w]
    BY <1>3, <1>4
  <1>8. QED
    BY <1>6, <1>7 DEF t, move

\* Requests that are not one of c's trims come and go.
LEMMA TrimsStay ==
  ASSUME Sound, NEW r \in Requests, NEW q, Become(r, q), NEW c \in Customers,
         req[r].pc \in {"trim", "drop"} => req[r].cust # c,
         q.pc \in {"trim", "drop"} => q.cust # c
  PROVE  Trimming(c)' = Trimming(c) /\ Going(c)' = Going(c)
  <1>1. req'[r] = q /\ \A m \in Requests \ {r} : req'[m] = req[m]
    BY DEF Become, Sound, RequestTypes
  <1>2. \A m \in Requests : At(m, "trim")' /\ req'[m].cust = c <=> At(m, "trim") /\ req[m].cust = c
    BY <1>1 DEF At
  <1>3. \A m \in Requests, w \in Views :
          At(m, "drop")' /\ req'[m].cust = c /\ w \in req'[m].extras
            <=> At(m, "drop") /\ req[m].cust = c /\ w \in req[m].extras
    BY <1>1 DEF At
  <1>4. Trimming(c)' = Trimming(c)
    BY <1>2 DEF Trimming
  <1>5. Going(c)' = Going(c)
    BY <1>3 DEF Going
  <1>6. QED
    BY <1>4, <1>5

\* A request picks no more rows than it had, and those it takes.
LEMMA PickedBy ==
  ASSUME Sound, NEW r \in Requests, NEW q, Become(r, q), NEW w, Picked(w)'
  PROVE  Picked(w) \/ (q.pc = "drop" /\ w \in q.extras)
  <1>1. req'[r] = q /\ \A m \in Requests \ {r} : req'[m] = req[m]
    BY DEF Become, Sound, RequestTypes
  <1>2. QED
    BY <1>1 DEF Picked, At

LEMMA ShortListKept ==
  ASSUME ListInv, [Next]_vars, NEW c \in Customers \ (late' \cup untrimmed' \cup merged')
  PROVE  ShortList(c)'
  <1>1. Sound /\ ViewTypes /\ Idle.pc = "idle" /\ c \in Customers /\ c \notin late
    BY LateGrows DEF ListInv, MergesInv, Sound, Idle
  <1>2. c \notin untrimmed \cup merged => ShortList(c)
    BY <1>1 DEF ListInv
  <1>3. ASSUME UNCHANGED <<viewVars, newest, raced, untrimmed, merged>>, TrimsRest PROVE ShortList(c)'
    <2>1. Trimming(c)' = Trimming(c) /\ Going(c)' = Going(c)
      <3>1. \A m \in Requests : At(m, "trim")' /\ req'[m].cust = c <=> At(m, "trim") /\ req[m].cust = c
        BY <1>3 DEF TrimsRest, At
      <3>2. \A m \in Requests, w \in Views :
              At(m, "drop")' /\ req'[m].cust = c /\ w \in req'[m].extras
                <=> At(m, "drop") /\ req[m].cust = c /\ w \in req[m].extras
        BY <1>3 DEF TrimsRest, At
      <3>3. QED
        BY <3>1, <3>2 DEF Trimming, Going
    <2>2. QED
      BY <1>2, <1>3, <2>1 DEF ShortList, ViewsOf, viewVars
  <1>4. ASSUME NEW r \in Requests, NEW d \in Customers, NEW p \in Products, NEW w \in Views,
               RecordView(r, d, p, w)
        PROVE  ShortList(c)'
    <2> DEFINE q == [Idle EXCEPT !.pc = "trim", !.cust = d]
    <2>1. Become(r, q) /\ At(r, "idle") /\ UNCHANGED <<untrimmed, merged>>
      BY <1>4 DEF RecordView, Begin, Take
    <2>2. q.pc = "trim" /\ q.cust = d
      BY DEF Idle
    <2> HIDE DEF q
    <2>3. CASE c = d
      <3>1. req'[r] = q
        BY <1>1, <2>1 DEF Become, Sound, RequestTypes
      <3>2. QED
        BY <2>2, <2>3, <3>1 DEF ShortList, Trimming, At
    <2>4. CASE c # d
      <3>1. Trimming(c)' = Trimming(c) /\ Going(c)' = Going(c)
        BY <1>1, <2>1, <2>2, <2>4, TrimsStay DEF At
      <3>2. viewer' = [viewer EXCEPT ![w] = d] /\ viewer[w] \in {d, None}
        BY <1>1, <1>4, RowRecorded
      <3>3. ViewsOf(c)' = ViewsOf(c)
        BY <1>1, <2>4, <3>2, NoNone DEF ViewsOf, ViewTypes
      <3>4. QED
        BY <1>2, <2>1, <3>1, <3>3 DEF ShortList
    <2>5. QED
      BY <2>3, <2>4
  <1>5. ASSUME NEW r \in Requests, TrimRead(r) PROVE ShortList(c)'
    <2> DEFINE d == req[r].cust
               q == [req[r] EXCEPT !.pc = "drop", !.extras = Extras(d)]
    <2>1. /\ At(r, "trim") /\ UNCHANGED <<viewVars, merged>> /\ untrimmed' = untrimmed \ {d}
          /\ \/ Extras(d) = {} /\ Become(r, Idle)
             \/ Become(r, q)
      BY <1>5 DEF TrimRead, Return
    <2>2. q.pc = "drop" /\ q.cust = d /\ q.extras = Extras(d) /\ d \in Customers
      BY <1>1, <2>1 DEF Sound, RequestTypes, Reqs, InHand, At
    <2>3. ViewsOf(c)' = ViewsOf(c)
      BY <2>1 DEF ViewsOf, viewVars
    <2> HIDE DEF q
    <2>4. CASE c = d
      <3>1. Extras(d) \subseteq Going(c)'
        <4>1. CASE Extras(d) = {}
          BY <4>1
        <4>2. CASE Become(r, q)
          <5>1. req'[r] = q
            BY <1>1, <4>2 DEF Become, Sound, RequestTypes
          <5>2. Extras(d) \subseteq Views
            BY DEF Extras, ViewsOf
          <5>3. QED
            BY <2>2, <2>4, <5>1, <5>2 DEF Going, At
        <4>3. QED
          BY <2>1, <4>1, <4>2
      <3>2. Cardinality(ViewsOf(c) \ Extras(c)) <= Limit
        BY <1>1, TrimLeavesLimit
      <3>3. /\ ViewsOf(c) \ Extras(c) \in SUBSET Views
            /\ (ViewsOf(c) \ Going(c))' \in SUBSET (ViewsOf(c) \ Extras(c))
        BY <2>3, <2>4, <3>1 DEF ViewsOf
      <3>4. Cardinality((ViewsOf(c) \ Going(c))') <= Limit
        BY <3>2, <3>3, FewerRows
      <3>5. QED
        BY <3>4 DEF ShortList
    <2>5. CASE c # d
      <3>1. Trimming(c)' = Trimming(c) /\ Going(c)' = Going(c)
        BY <1>1, <2>1, <2>2, <2>5, TrimsStay
      <3>2. QED
        BY <1>2, <2>1, <2>3, <2>5, <3>1 DEF ShortList
    <2>6. QED
      BY <2>4, <2>5
  <1>6. ASSUME NEW r \in Requests, TrimDelete(r) PROVE ShortList(c)'
    <2> DEFINE gone == req[r].extras
    <2>1. /\ At(r, "drop") /\ Become(r, Idle) /\ UNCHANGED <<untrimmed, merged>>
          /\ viewer' = [w \in Views |-> IF w \in gone THEN None ELSE viewer[w]]
      BY <1>6 DEF TrimDelete, Return, viewHistory
    <2>2. req'[r] = Idle /\ \A m \in Requests \ {r} : req'[m] = req[m]
      BY <1>1, <2>1 DEF Become, Sound, RequestTypes
    <2>3. ShortList(c)
      BY <1>2, <2>1
    <2>4. CASE Trimming(c)
      BY <2>1, <2>2, <2>4 DEF ShortList, Trimming, At
    <2>5. CASE Cardinality(ViewsOf(c) \ Going(c)) <= Limit
      <3>1. (ViewsOf(c) \ Going(c))' \subseteq ViewsOf(c) \ Going(c)
        <4>1. ASSUME NEW w \in ViewsOf(c)', w \in Going(c) PROVE w \in Going(c)'
          <5>1. w \in Views /\ w \notin gone
            BY <1>1, <2>1, <4>1, NoNone DEF ViewsOf
          <5>2. PICK m \in Requests : At(m, "drop") /\ req[m].cust = c /\ w \in req[m].extras
            BY <4>1 DEF Going
          <5>3. req'[m] = req[m]
            BY <2>2, <5>1, <5>2
          <5>4. QED
            BY <5>1, <5>2, <5>3 DEF Going, At
        <4>2. ViewsOf(c)' \subseteq ViewsOf(c)
          BY <1>1, <2>1, NoNone DEF ViewsOf
        <4>3. QED
          BY <4>1, <4>2
      <3>2. ViewsOf(c) \ Going(c) \in SUBSET Views
        BY DEF ViewsOf
      <3>3. Cardinality((ViewsOf(c) \ Going(c))') <= Limit
        BY <2>5, <3>1, <3>2, FewerRows
      <3>4. QED
        BY <3>3 DEF ShortList
    <2>6. QED
      BY <2>3, <2>4, <2>5 DEF ShortList
  <1>7. ASSUME NEW r \in Requests, MergeCommit(r) PROVE ShortList(c)'
    <2>1. /\ At(r, "commit") /\ Become(r, Idle) /\ merged' = merged \cup {req[r].cust}
          /\ untrimmed' = untrimmed \cup {req[r].into}
      BY <1>7 DEF MergeCommit, Return
    <2>2. Trimming(c)' = Trimming(c) /\ Going(c)' = Going(c)
      BY <1>1, <2>1, TrimsStay DEF At
    <2>3. ViewsOf(c)' = ViewsOf(c)
      BY <1>7, <2>1, MergeOnLists DEF ViewsOf, ListInv
    <2>4. QED
      BY <1>2, <2>1, <2>2, <2>3 DEF ShortList
  <1>8. ASSUME NEW r \in Requests, Stop(r) PROVE ShortList(c)'
    <2>1. /\ Become(r, Idle) /\ UNCHANGED <<viewVars, merged>>
          /\ untrimmed' = IF req[r].pc \in {"trim", "drop"} THEN untrimmed \cup {req[r].cust} ELSE untrimmed
      BY <1>8 DEF Stop, Return
    <2>2. Trimming(c)' = Trimming(c) /\ Going(c)' = Going(c)
      BY <1>1, <2>1, TrimsStay
    <2>3. QED
      BY <1>2, <2>1, <2>2 DEF ShortList, ViewsOf, viewVars
  <1>9. QED
    BY <1>1, <1>3, <1>4, <1>5, <1>6, <1>7, <1>8, ListMove DEF ListMoves

LEMMA LastIsNewestKept ==
  ASSUME ListInv, [Next]_vars, NEW c \in Customers \ (late' \cup raced' \cup merged')
  PROVE  LastIsNewest(c)'
  <1>1. Sound /\ Idle.pc = "idle" /\ c \in Customers /\ c \notin late /\ c # None
    BY LateGrows, NoNone DEF ListInv, MergesInv, Idle
  <1>2. c \notin raced \cup merged => LastIsNewest(c)
    BY <1>1 DEF ListInv
  <1>3. ASSUME UNCHANGED <<viewVars, newest, raced, untrimmed, merged>>, TrimsRest
        PROVE  LastIsNewest(c)'
    <2>1. \A w \in ViewsOf(c) : Picked(w)' => Picked(w)
      BY <1>3 DEF TrimsRest, Picked, At
    <2>2. QED
      BY <1>2, <1>3, <2>1, ListStays DEF viewVars
  <1>4. ASSUME NEW r \in Requests, NEW d \in Customers, NEW p \in Products, NEW w \in Views,
               RecordView(r, d, p, w)
        PROVE  LastIsNewest(c)'
    <2> DEFINE q == [Idle EXCEPT !.pc = "trim", !.cust = d]
    <2>1. /\ Become(r, q) /\ UNCHANGED merged /\ newest' = [newest EXCEPT ![d] = p]
          /\ raced' = IF Picked(w) THEN raced \cup {d} ELSE raced
      BY <1>4 DEF RecordView, Begin, Take
    <2>2. q.pc = "trim"
      BY DEF Idle
    <2> HIDE DEF q
    <2>3. \A u \in Views : Picked(u)' => Picked(u)
      BY <1>1, <2>1, <2>2, PickedBy
    <2>4. /\ viewer' = [viewer EXCEPT ![w] = d] /\ product' = [product EXCEPT ![w] = p]
          /\ viewer[w] \in {d, None}
      BY <1>1, <1>4, RowRecorded
    <2>5. PICK now \in 1 .. begun + 1 :
            /\ viewedAt' = [viewedAt EXCEPT ![w] = now]
            /\ \A u \in Views \ {w} : viewedAt[u] < now
      BY <1>1, <1>4, RowRecorded
    <2>6. /\ viewer \in [Views -> Customers \cup {None}] /\ product \in [Views -> Products \cup {None}]
          /\ viewedAt \in [Views -> 0 .. begun] /\ begun \in Nat
          /\ newest \in [Customers -> Products \cup {None}]
      BY <1>1, BasketAssumption DEF Sound, ViewTypes, OtherTypes
    <2>7. CASE c = d
      <3>1. viewer'[w] = c /\ product'[w] = p /\ viewedAt'[w] = now /\ newest'[c] = p
        BY <2>1, <2>4, <2>5, <2>6, <2>7
      <3>2. w \in ViewsOf(c)' /\ ~ Picked(w)'
        BY <2>1, <2>3, <2>7, <3>1 DEF ViewsOf
      <3>3. ASSUME NEW u \in ViewsOf(c)', u # w PROVE w \in Newer(u, ViewsOf(c))'
        <4>1. u \in Views /\ viewedAt'[u] = viewedAt[u] /\ viewedAt[u] < now
          BY <2>5, <2>6, <3>3 DEF ViewsOf
        <4>2. viewedAt[u] \in Nat /\ now \in Nat
          BY <2>6, <4>1
        <4>3. viewedAt'[w] > viewedAt'[u]
          BY <3>1, <4>1, <4>2
        <4>4. QED
          BY <3>2, <4>3 DEF Newer
      <3>4. QED
        BY <3>1, <3>2, <3>3 DEF LastIsNewest
    <2>8. CASE c # d
      <3>1. c \notin raced \cup merged
        BY <2>1
      <3>2. /\ \A u \in Views : viewer'[u] = c <=> viewer[u] = c
            /\ \A u \in ViewsOf(c) : product'[u] = product[u] /\ viewedAt'[u] = viewedAt[u]
            /\ newest'[c] = newest[c]
        <4>1. viewer[w] # c
          BY <1>1, <2>4, <2>8
        <4>2. QED
          BY <1>1, <2>1, <2>4, <2>5, <2>6, <2>8, <4>1 DEF ViewsOf
      <3>3. QED
        BY <1>1, <1>2, <2>3, <3>1, <3>2, ListStays DEF ViewsOf
    <2>9. QED
      BY <2>7, <2>8
  <1>5. ASSUME NEW r \in Requests, TrimRead(r) PROVE LastIsNewest(c)'
    <2> DEFINE d == req[r].cust
               q == [req[r] EXCEPT !.pc = "drop", !.extras = Extras(d)]
    <2>1. /\ UNCHANGED <<viewVars, merged, newest, raced>>
          /\ Become(r, Idle) \/ Become(r, q)
      BY <1>5 DEF TrimRead, Return
    <2>2. q.extras = Extras(d)
      BY <1>1 DEF Sound, RequestTypes, Reqs
    <2> HIDE DEF q
    <2>3. LastIsNewest(c)
      BY <1>2, <2>1
    <2>4. ASSUME NEW w \in ViewsOf(c), Newer(w, ViewsOf(c)) = {} PROVE ~ Picked(w)'
      <3>1. ~ Picked(w)
        BY <2>3, <2>4 DEF LastIsNewest
      <3>2. w \notin Extras(d)
        <4>1. SUFFICES ASSUME w \in Extras(d) PROVE FALSE
          OBVIOUS
        <4>2. d = c
          BY <4>1 DEF Extras, ViewsOf
        <4>3. Cardinality(Newer(w, ViewsOf(c))) = 0
          BY <2>4, FS_EmptySet
        <4>4. Cardinality(Newer(w, ViewsOf(c))) >= Limit
          BY <4>1, <4>2 DEF Extras
        <4>5. QED
          BY <4>3, <4>4, BasketAssumption
      <3>3. QED
        BY <1>1, <2>1, <2>2, <3>1, <3>2, PickedBy
    <2>5. ViewsOf(c)' = ViewsOf(c) /\ UNCHANGED <<product, viewedAt, newest>>
      BY <2>1 DEF ViewsOf, viewVars
    <2>6. ASSUME NEW w \in ViewsOf(c)', Newer(w, ViewsOf(c))' = {}
          PROVE  product'[w] = newest'[c] /\ ~ Picked(w)'
      <3>1. w \in ViewsOf(c) /\ Newer(w, ViewsOf(c)) = {}
        BY <2>5, <2>6 DEF Newer
      <3>2. QED
        BY <2>3, <2>4, <2>5, <3>1 DEF LastIsNewest
    <2>7. QED
      BY <2>3, <2>5, <2>6 DEF LastIsNewest
  <1>6. ASSUME NEW r \in Requests, TrimDelete(r) PROVE LastIsNewest(c)'
    <2> DEFINE gone == req[r].extras
    <2>1. /\ At(r, "drop") /\ Become(r, Idle) /\ UNCHANGED <<merged, newest, raced>>
          /\ viewer' = [w \in Views |-> IF w \in gone THEN None ELSE viewer[w]]
          /\ product' = [w \in Views |-> IF w \in gone THEN None ELSE product[w]]
          /\ viewedAt' = [w \in Views |-> IF w \in gone THEN 0 ELSE viewedAt[w]]
      BY <1>6 DEF TrimDelete, Return, viewHistory
    <2>2. LastIsNewest(c)
      BY <1>2, <2>1
    <2>3. \A w \in ViewsOf(c)' : /\ w \in ViewsOf(c) /\ w \notin gone
                                 /\ product'[w] = product[w] /\ viewedAt'[w] = viewedAt[w]
      BY <1>1, <2>1 DEF ViewsOf
    <2>4. ASSUME NEW w \in ViewsOf(c), Newer(w, ViewsOf(c)) = {}
          PROVE  /\ w \in ViewsOf(c)' /\ product'[w] = newest'[c] /\ ~ Picked(w)'
                 /\ \A u \in ViewsOf(c)' : u # w => w \in Newer(u, ViewsOf(c))'
      <3>1. ~ Picked(w) /\ product[w] = newest[c]
        BY <2>2, <2>4 DEF LastIsNewest
      <3>2. w \in ViewsOf(c)'
        BY <2>1, <2>4, <3>1 DEF Picked, ViewsOf
      <3>3. ASSUME NEW u \in ViewsOf(c)', u # w PROVE w \in Newer(u, ViewsOf(c))'
        <4>1. u \in ViewsOf(c) /\ u \in Views /\ w \in Views /\ viewer[u] = c
          BY <2>3, <3>2, <3>3 DEF ViewsOf
        <4>2. viewedAt[u] # viewedAt[w] /\ ~ viewedAt[u] > viewedAt[w]
          BY <1>1, <2>4, <3>3, <4>1 DEF Newer, Sound, ViewTypes
        <4>3. viewedAt[u] \in Nat /\ viewedAt[w] \in Nat
          BY <1>1, <4>1, BasketAssumption DEF Sound, ViewTypes, OtherTypes
        <4>4. viewedAt'[w] > viewedAt'[u]
          BY <2>3, <3>2, <3>3, <4>2, <4>3
        <4>5. QED
          BY <3>2, <4>4 DEF Newer
      <3>4. ~ Picked(w)'
        BY <1>1, <2>1, <3>1, PickedBy
      <3>5. QED
        BY <2>1, <2>3, <3>1, <3>2, <3>3, <3>4
    <2>5. CASE ViewsOf(c) = {}
      <3>1. ViewsOf(c)' = {}
        BY <2>3, <2>5
      <3>2. newest'[c] = None
        BY <2>1, <2>2, <2>5 DEF LastIsNewest
      <3>3. QED
        BY <3>1, <3>2 DEF LastIsNewest
    <2>6. CASE ViewsOf(c) # {}
      <3>1. PICK w \in ViewsOf(c) : Newer(w, ViewsOf(c)) = {}
        <4>1. ViewsOf(c) \in SUBSET Views
          BY DEF ViewsOf
        <4>2. QED
          BY <1>1, <2>6, <4>1, SomeIsLast
      <3>2. QED
        BY <2>4, <3>1 DEF LastIsNewest
    <2>7. QED
      BY <2>5, <2>6
  <1>7. ASSUME NEW r \in Requests, MergeCommit(r) PROVE LastIsNewest(c)'
    <2> DEFINE t == req[r].into
               move == ToMove(r)
               rows == move \cup ViewsOf(t)
               last == {w \in rows : Newer(w, rows) = {}}
    <2>1. /\ Become(r, Idle) /\ merged' = merged \cup {req[r].cust}
          /\ newest' = [newest EXCEPT ![t] = IF last = {} THEN None ELSE product[CHOOSE w \in last : TRUE]]
          /\ raced' = IF \E w \in move : Picked(w) THEN raced \cup {t} ELSE raced
      BY <1>7 DEF MergeCommit, Return
    <2>2. c # req[r].cust /\ LastIsNewest(c)
      BY <1>2, <2>1
    <2>3. /\ \A w \in Views : viewer'[w] = c <=> viewer[w] = c \/ (c = t /\ w \in move)
          /\ \A w \in Views : viewer'[w] = c => product'[w] = product[w] /\ viewedAt'[w] = viewedAt[w]
      BY <1>7, <2>2, MergeOnLists DEF ListInv
    <2>4. \A w \in Views : Picked(w)' => Picked(w)
      BY <1>1, <2>1, PickedBy
    <2>5. /\ t \in Customers /\ move \subseteq Views /\ \A w \in move : viewer[w] # None
          /\ newest \in [Customers -> Products \cup {None}]
      BY <1>1, <1>7, RowsMerged DEF Sound, OtherTypes
    <2> HIDE DEF move, t
    <2>6. CASE c = t
      <3>1. rows \in SUBSET Views /\ \A w \in rows : viewer[w] # None
        BY <1>1, <2>5, <2>6 DEF ViewsOf
      <3>2. ViewsOf(c)' = rows
        BY <2>3, <2>5, <2>6 DEF ViewsOf
      <3>3. newest'[c] = IF last = {} THEN None ELSE product[CHOOSE w \in last : TRUE]
        BY <2>1, <2>5, <2>6
      <3>4. ViewsOf(c) \subseteq rows
        BY <2>6
      <3> HIDE DEF rows
      <3>5. ASSUME NEW w \in ViewsOf(c)', Newer(w, ViewsOf(c))' = {}
            PROVE  product'[w] = newest'[c] /\ ~ Picked(w)'
        <4>1. w \in rows /\ w \in Views /\ Newer(w, rows) = {}
          <5>1. \A u \in rows : viewedAt'[u] = viewedAt[u] /\ u \in Views
            BY <2>3, <3>1, <3>2 DEF ViewsOf
          <5>2. QED
            BY <3>2, <3>5, <5>1 DEF Newer
        <4>2. PICK u \in last : u = CHOOSE v \in last : TRUE
          BY <4>1
        <4>3. u = w
          BY <1>1, <3>1, <4>1, <4>2, OneIsLast
        <4>4. newest'[c] = product[w] /\ product'[w] = product[w]
          BY <2>3, <3>3, <3>5, <4>1, <4>2, <4>3 DEF ViewsOf
        <4>5. ~ Picked(w)
          <5>1. CASE w \in move
            BY <2>1, <2>6, <5>1
          <5>2. CASE w \in ViewsOf(c)
            <6>1. Newer(w, ViewsOf(c)) = {}
              BY <3>4, <4>1 DEF Newer
            <6>2. QED
              BY <2>2, <5>2, <6>1 DEF LastIsNewest
          <5>3. QED
            BY <2>6, <4>1, <5>1, <5>2 DEF rows
        <4>6. QED
          BY <2>4, <4>1, <4>4, <4>5
      <3>6. newest'[c] # None => ViewsOf(c)' # {}
        BY <3>2, <3>3
      <3>7. QED
        BY <3>5, <3>6 DEF LastIsNewest
    <2>7. CASE c # t
      <3>1. newest'[c] = newest[c]
        BY <2>1, <2>5, <2>7
      <3>2. QED
        BY <1>1, <2>2, <2>3, <2>4, <2>7, <3>1, ListStays DEF ViewsOf
    <2>8. QED
      BY <2>6, <2>7
  <1>8. ASSUME NEW r \in Requests, Stop(r) PROVE LastIsNewest(c)'
    <2>1. Become(r, Idle) /\ UNCHANGED <<viewVars, merged, newest, raced>>
      BY <1>8 DEF Stop, Return
    <2>2. \A w \in Views : Picked(w)' => Picked(w)
      BY <1>1, <2>1, PickedBy
    <2>3. QED
      BY <1>1, <1>2, <2>1, <2>2, ListStays DEF ViewsOf, viewVars
  <1>9. QED
    BY <1>1, <1>3, <1>4, <1>5, <1>6, <1>7, <1>8, ListMove DEF ListMoves

LEMMA ListKept == ListInv /\ [Next]_vars => ListInv'
  <1> SUFFICES ASSUME ListInv, [Next]_vars PROVE ListInv'
    OBVIOUS
  <1>1. MergesInv'
    BY MergesKept DEF ListInv
  <1>2. QED
    BY <1>1, ShortListKept, LastIsNewestKept DEF ListInv

LEMMA ListStarts == Init => ListInv
  <1> SUFFICES ASSUME Init PROVE ListInv
    OBVIOUS
  <1>1. ASSUME NEW c \in Customers PROVE ViewsOf(c) = {} /\ newest[c] = None
    BY NoNone DEF Init, ViewsOf
  <1>2. ASSUME NEW c \in Customers PROVE ShortList(c)
    <2>1. Cardinality(ViewsOf(c) \ Going(c)) = 0
      BY <1>1, FS_EmptySet
    <2>2. QED
      BY <2>1, BasketAssumption DEF ShortList
  <1>3. ASSUME NEW c \in Customers PROVE LastIsNewest(c)
    BY <1>1 DEF LastIsNewest
  <1>4. QED
    BY <1>2, <1>3, MergesStart DEF ListInv

\* The list of products viewed last is within its limit when nobody is viewing, however the
\* trims overlapped (trimRecentlyViewed), unless the server stopped or a merge made it longer;
\* and the product viewed last is on it, unless a trim had picked its row (recordView).
THEOREM ListIsRecent == Spec => []RecentIsRecent
  <1>1. ListInv => RecentIsRecent
    <2> SUFFICES ASSUME ListInv, NEW c \in Customers \ (late \cup untrimmed \cup merged),
                        \A r \in Requests : req[r].cust # c /\ req[r].into # c
                 PROVE  /\ Cardinality(ViewsOf(c)) <= Limit
                        /\ newest[c] # None /\ c \notin raced => newest[c] \in Watched(c)
      BY DEF RecentIsRecent
    <2>1. Cardinality(ViewsOf(c)) <= Limit
      <3>1. ~ Trimming(c) /\ ViewsOf(c) \ Going(c) = ViewsOf(c)
        BY DEF Trimming, Going
      <3>2. QED
        BY <3>1 DEF ListInv, ShortList
    <2>2. ASSUME newest[c] # None, c \notin raced PROVE newest[c] \in Watched(c)
      <3>1. LastIsNewest(c) /\ ViewsOf(c) # {} /\ ViewsOf(c) \in SUBSET Views
        BY <2>2 DEF ListInv, LastIsNewest, ViewsOf
      <3>2. PICK w \in ViewsOf(c) : Newer(w, ViewsOf(c)) = {}
        BY <3>1, SomeIsLast DEF ListInv, MergesInv
      <3>3. QED
        BY <3>1, <3>2 DEF LastIsNewest, Watched
    <2>3. QED
      BY <2>1, <2>2
  <1>2. QED
    BY <1>1, ListStarts, ListKept, PTL DEF Spec
=============================================================================
