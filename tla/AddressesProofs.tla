-------------------------- MODULE AddressesProofs --------------------------
(***************************************************************************)
(* Proofs about module Addresses, for any customers, addresses, copies and *)
(* requests: the types and the two unique indexes, that a customer with    *)
(* addresses has a default and never two, and that the store has one copy  *)
(* of an address, which says what the address says.                        *)
(***************************************************************************)
EXTENDS Addresses, FiniteSetTheorems, TLAPS

(***************************************************************************)
(* What a request has in hand                                              *)
(***************************************************************************)

Hands == [pc : Steps, op : Operations \cup Customers \cup {None},
          cust : Customers \cup {None}, row : Rows \cup {None},
          key : Keys \cup {None}, rem : Copies \cup {None}, flag : BOOLEAN,
          saw : SUBSET Rows, drop : SUBSET Rows, book : SUBSET (Copies \X Keys)]

\* A request that does nothing has nothing in hand.
LEMMA IdleShape ==
  /\ Idle \in Hands
  /\ Idle.pc = "idle" /\ Idle.op = None /\ Idle.cust = None /\ Idle.row = None /\ Idle.key = None
  /\ Idle.rem = None /\ Idle.saw = {} /\ Idle.drop = {} /\ Idle.book = {} /\ Idle.flag = FALSE
  BY DEF Idle, Hands, Steps

\* What a request keeps of q when it goes on.
Kept(n, q) ==
  /\ n \in Hands
  /\ n.pc = q.pc /\ n.op = q.op /\ n.cust = q.cust /\ n.row = q.row /\ n.rem = q.rem
  /\ n.saw = q.saw /\ n.drop = q.drop /\ n.book = q.book
  /\ q.pc \in {"count", "edit", "delete", "merge"} => n.flag = q.flag
  /\ q.pc \notin {"synced", "book"} => n.key = q.key

LEMMA TrimmedShape ==
  ASSUME NEW q \in Hands
  PROVE  Kept(Trimmed(q), q)
  <1> DEFINE f == q.flag /\ q.pc \notin {"clear", "set", "push", "synced", "next", "erase", "orders"}
             k == IF q.pc \in {"synced", "book"} THEN None ELSE q.key
             n == [q EXCEPT !.flag = f, !.key = k]
  <1>1. f \in BOOLEAN /\ k \in Keys \cup {None}
    BY DEF Hands
  <1>2. /\ n \in Hands
        /\ n.pc = q.pc /\ n.op = q.op /\ n.cust = q.cust /\ n.row = q.row /\ n.rem = q.rem
        /\ n.saw = q.saw /\ n.drop = q.drop /\ n.book = q.book /\ n.key = k
    <2> HIDE DEF f, k
    <2> QED
      BY <1>1 DEF Hands
  <1>3. q.pc \in {"count", "edit", "delete", "merge"} => n.flag = q.flag
    BY DEF Hands
  <1>4. Trimmed(q) = n
    BY DEF Trimmed
  <1>5. QED
    BY <1>2, <1>3, <1>4 DEF Kept

\* A step changes what its own request has in hand, and nobody else's.
Turn(r) ==
  /\ req' \in [Requests -> Hands]
  /\ \A p \in Requests \ {r} : req'[p] = req[p]

LEMMA BecomeShape ==
  ASSUME req \in [Requests -> Hands], NEW r \in Requests, NEW q \in Hands, Become(r, q)
  PROVE  /\ Turn(r)
         /\ q.pc = "idle" => req'[r] = Idle
         /\ q.pc # "idle" => Kept(req'[r], q)
  <1>1. CASE q.pc = "idle"
    BY <1>1, IdleShape DEF Become, Turn
  <1>2. CASE q.pc # "idle"
    <2>1. Trimmed(q) \in Hands
      BY TrimmedShape DEF Kept
    <2>2. req' = [req EXCEPT ![r] = Trimmed(q)]
      BY <1>2 DEF Become
    <2>3. req'[r] = Trimmed(q) /\ Turn(r)
      BY <2>1, <2>2 DEF Turn
    <2>4. QED
      BY <1>2, <2>3, TrimmedShape
  <1>3. QED
    BY <1>1, <1>2

\* Going to another step keeps what is in hand.
LEMMA GotoShape ==
  ASSUME req \in [Requests -> Hands], NEW r \in Requests, NEW step \in Steps, Goto(r, step)
  PROVE  /\ Turn(r)
         /\ step = "idle" => req'[r] = Idle
         /\ step # "idle" =>
              /\ req'[r] \in Hands /\ req'[r].pc = step
              /\ req'[r].op = req[r].op /\ req'[r].cust = req[r].cust /\ req'[r].row = req[r].row
              /\ req'[r].rem = req[r].rem /\ req'[r].saw = req[r].saw /\ req'[r].drop = req[r].drop
              /\ req'[r].book = req[r].book
              /\ step \notin {"synced", "book"} => req'[r].key = req[r].key
  <1> DEFINE q == [req[r] EXCEPT !.pc = step]
  <1>1. req[r] \in Hands
    OBVIOUS
  <1>2. /\ q \in Hands /\ q.pc = step /\ q.op = req[r].op /\ q.cust = req[r].cust
        /\ q.row = req[r].row /\ q.key = req[r].key /\ q.rem = req[r].rem /\ q.saw = req[r].saw
        /\ q.drop = req[r].drop /\ q.book = req[r].book
    BY <1>1 DEF Hands
  <1>3. Become(r, q)
    BY DEF Goto
  <1> HIDE DEF q
  <1>4. QED
    BY <1>2, <1>3, BecomeShape DEF Kept

\* A request that returns.
LEMMA ReturnShape ==
  ASSUME req \in [Requests -> Hands], NEW r \in Requests, Return(r)
  PROVE  Turn(r) /\ req'[r] = Idle
  BY GotoShape DEF Return, Steps

Saving == {"create", "update"}

\* What a request with q in hand relies on at its step.
Sane(q) ==
  /\ q.pc = "idle" => q = Idle
  /\ q.pc # "idle" => q.cust \in Customers
  /\ q.pc = "count" => q.op = "create"
  /\ q.pc = "edit" => q.op = "update"
  /\ q.pc \in {"push", "synced"} => q.op \in Saving
  /\ q.pc \in {"delete", "next", "erase"} => q.op = "remove"
  /\ q.pc \in {"book", "entry", "orders", "ensure"} => q.op = "sync"
  /\ q.pc = "merge" => q.op \in Customers /\ q.op # q.cust
  /\ q.pc # "merge" => q.op \in Operations \cup {None} /\ q.drop = {}
  /\ q.pc \in {"count", "edit", "clear", "set", "push", "synced", "delete"} => q.row \in Rows
  /\ q.pc \in {"next", "book", "orders", "ensure", "merge"} => q.row = None
  /\ q.pc \in {"count", "edit", "push", "entry"} => q.key \in Keys
  /\ q.pc \in {"clear", "set"} /\ q.op \in Saving => q.key \in Keys
  /\ q.pc \in {"entry", "synced"} => q.rem \in Copies
  /\ q.rem # None => q.op \in Saving \cup {"remove"} \/ q.pc = "entry"
  /\ q.saw # {} => q.pc \in {"set", "merge"}
  /\ q.book # {} => q.pc \in {"book", "entry"}

\* A row that is not there says nothing, and one that is has a fingerprint.
Sound ==
  /\ \A r \in Requests : Sane(req[r])
  /\ \A a \in Rows : IF owner[a] = None THEN remote[a] = None /\ key[a] = None ELSE key[a] \in Keys

LEMMA IdleSane == Sane(Idle)
  BY IdleShape, AddressesAssumption DEF Sane, AddressesAssumption

(***************************************************************************)
(* What each step leaves in hand                                           *)
(***************************************************************************)

\* n goes on for the same customer, with this in hand.
Goes(n, q, row, rem, saw, book) ==
  /\ n \in Hands /\ n.op = q.op /\ n.cust = q.cust /\ n.drop = q.drop
  /\ n.row = row /\ n.rem = rem /\ n.saw = saw /\ n.book = book

LEMMA HandTypes ==
  ASSUME TypeOK, Sound, NEW r \in Requests
  PROVE  /\ req \in [Requests -> Hands] /\ req[r] \in Hands /\ Sane(req[r])
         /\ req[r].pc \in Steps /\ req[r].op \in Operations \cup Customers \cup {None}
         /\ req[r].cust \in Customers \cup {None} /\ req[r].row \in Rows \cup {None}
         /\ req[r].key \in Keys \cup {None} /\ req[r].rem \in Copies \cup {None}
         /\ req[r].saw \subseteq Rows /\ req[r].drop \subseteq Rows /\ req[r].book \subseteq Copies \X Keys
  BY DEF TypeOK, Hands, Sound

\* A request that goes to another step.
LEMMA StepTo ==
  ASSUME TypeOK, Sound, NEW r \in Requests, NEW step \in Steps \ {"idle"}, Goto(r, step)
  PROVE  /\ Turn(r) /\ req'[r].pc = step
         /\ Goes(req'[r], req[r], req[r].row, req[r].rem, req[r].saw, req[r].book)
         /\ step \notin {"synced", "book"} => req'[r].key = req[r].key
  BY HandTypes, GotoShape DEF Goes

LEMMA CountHand ==
  ASSUME TypeOK, Sound, NEW r \in Requests, Count(r)
  PROVE  /\ Turn(r) /\ Sane(req'[r]) /\ req'[r].key = req[r].key
         /\ req'[r].pc = IF ShouldBeDefault(r) THEN "clear" ELSE "push"
         /\ Goes(req'[r], req[r], req[r].row, req[r].rem, req[r].saw, req[r].book)
  <1>1. PICK step \in {"clear", "push"} :
          Goto(r, step) /\ step = IF ShouldBeDefault(r) THEN "clear" ELSE "push"
    BY DEF Count, store
  <1>2. step \in Steps \ {"idle"} /\ step \notin {"synced", "book"}
    BY DEF Steps
  <1>3. /\ Turn(r) /\ req'[r].key = req[r].key /\ req'[r].pc = step
        /\ Goes(req'[r], req[r], req[r].row, req[r].rem, req[r].saw, req[r].book)
    BY <1>1, <1>2, StepTo
  <1>4. req[r].pc = "count" /\ Sane(req[r])
    BY HandTypes DEF Count, At, store
  <1>5. Sane(req'[r])
    BY <1>1, <1>3, <1>4 DEF Sane, Goes, Saving
  <1>6. QED
    BY <1>1, <1>3, <1>5

LEMMA EditHand ==
  ASSUME TypeOK, Sound, NEW r \in Requests, Edit(r)
  PROVE  /\ Turn(r) /\ Sane(req'[r])
         /\ \/ req'[r] = Idle /\ UNCHANGED key
            \/ /\ req'[r].pc \in {"clear", "push"} /\ req'[r].key = req[r].key
               /\ Goes(req'[r], req[r], req[r].row, remote[req[r].row], req[r].saw, req[r].book)
               /\ owner[req[r].row] # None
               /\ Found(owner[req[r].row], req[r].key) \subseteq {req[r].row}
               /\ key' = [key EXCEPT ![req[r].row] = req[r].key]
  <1>1. req[r].pc = "edit" /\ Sane(req[r]) /\ req[r].row \in Rows /\ req[r].key \in Keys
    BY HandTypes DEF Edit, At, Sane, store
  <1>2. CASE Return(r) /\ UNCHANGED key
    BY <1>2, HandTypes, ReturnShape, IdleSane
  <1>3. CASE ~(Return(r) /\ UNCHANGED key)
    <2> DEFINE h == [req[r] EXCEPT !.pc = IF req[r].flag THEN "clear" ELSE "push",
                                   !.rem = remote[req[r].row]]
    <2>1. remote[req[r].row] \in Copies \cup {None} /\ "clear" \in Steps /\ "push" \in Steps
      BY <1>1 DEF TypeOK, Steps
    <2>2. /\ h \in Hands /\ h.pc \in {"clear", "push"} /\ h.op = req[r].op /\ h.cust = req[r].cust
          /\ h.row = req[r].row /\ h.key = req[r].key /\ h.rem = remote[req[r].row]
          /\ h.saw = req[r].saw /\ h.drop = req[r].drop /\ h.book = req[r].book
      BY <2>1, HandTypes DEF Hands
    <2>3. Become(r, h)
      BY <1>3 DEF Edit, store
    <2> HIDE DEF h
    <2>4. Turn(r) /\ Kept(req'[r], h)
      BY <2>2, <2>3, HandTypes, BecomeShape
    <2>5. /\ req'[r].pc \in {"clear", "push"} /\ req'[r].key = req[r].key
          /\ Goes(req'[r], req[r], req[r].row, remote[req[r].row], req[r].saw, req[r].book)
      BY <2>2, <2>4 DEF Kept, Goes
    <2>6. Sane(req'[r])
      BY <1>1, <2>1, <2>5 DEF Sane, Goes, Saving
    <2>7. QED
      BY <1>3, <2>4, <2>5, <2>6 DEF Edit, store
  <1>4. QED
    BY <1>2, <1>3

LEMMA ClearHand ==
  ASSUME TypeOK, Sound, NEW r \in Requests, Clear(r)
  PROVE  /\ Turn(r) /\ Sane(req'[r]) /\ req'[r].pc = "set" /\ req'[r].key = req[r].key
         /\ Goes(req'[r], req[r], req[r].row, req[r].rem, default \cap Of(req[r].cust), req[r].book)
  <1> DEFINE S == default \cap Of(req[r].cust)
             h == [req[r] EXCEPT !.pc = "set", !.saw = S]
  <1>1. req[r].pc = "clear" /\ Sane(req[r]) /\ S \subseteq Rows /\ "set" \in Steps
    BY HandTypes DEF Clear, At, Of, Steps, store
  <1>2. /\ h \in Hands /\ h.pc = "set" /\ h.op = req[r].op /\ h.cust = req[r].cust
        /\ h.row = req[r].row /\ h.key = req[r].key /\ h.rem = req[r].rem
        /\ h.saw = S /\ h.drop = req[r].drop /\ h.book = req[r].book
    BY <1>1, HandTypes DEF Hands
  <1>3. Become(r, h)
    BY DEF Clear, store
  <1> HIDE DEF h
  <1>4. Turn(r) /\ Kept(req'[r], h)
    BY <1>2, <1>3, HandTypes, BecomeShape
  <1>5. /\ req'[r].pc = "set" /\ req'[r].key = req[r].key
        /\ Goes(req'[r], req[r], req[r].row, req[r].rem, S, req[r].book)
    BY <1>2, <1>4 DEF Kept, Goes
  <1>6. Sane(req'[r])
    BY <1>1, <1>5 DEF Sane, Goes
  <1>7. QED
    BY <1>4, <1>5, <1>6

\* A request that goes on with h in hand.
LEMMA HandTo ==
  ASSUME TypeOK, Sound, NEW r \in Requests, NEW h \in Hands, Become(r, h), h.pc # "idle",
         h.op = req[r].op, h.cust = req[r].cust, h.drop = req[r].drop
  PROVE  /\ Turn(r) /\ req'[r].pc = h.pc
         /\ Goes(req'[r], req[r], h.row, h.rem, h.saw, h.book)
         /\ h.pc \notin {"synced", "book"} => req'[r].key = h.key
  BY HandTypes, BecomeShape DEF Kept, Goes

LEMMA SetHand ==
  ASSUME TypeOK, Sound, NEW r \in Requests, Set(r)
  PROVE  /\ Turn(r) /\ Sane(req'[r])
         /\ req'[r] = Idle
            \/ /\ req'[r].pc = AfterDefault(r) /\ req'[r].key = req[r].key
               /\ Goes(req'[r], req[r], req[r].row, req[r].rem, {}, req[r].book)
  <1>1. req[r].pc = "set" /\ Sane(req[r]) /\ AfterDefault(r) \in {"push", "erase", "idle"}
    BY HandTypes DEF Set, At, AfterDefault, store
  <1>2. CASE Return(r)
    BY <1>2, HandTypes, ReturnShape, IdleSane
  <1>3. CASE ~Return(r)
    <2> DEFINE h == [req[r] EXCEPT !.pc = AfterDefault(r), !.saw = {}]
    <2>1. /\ h \in Hands /\ h.pc = AfterDefault(r) /\ h.op = req[r].op /\ h.cust = req[r].cust
          /\ h.row = req[r].row /\ h.key = req[r].key /\ h.rem = req[r].rem
          /\ h.saw = {} /\ h.drop = req[r].drop /\ h.book = req[r].book
      BY <1>1, HandTypes DEF Hands, Steps
    <2>2. Become(r, h)
      BY <1>3 DEF Set, store
    <2> HIDE DEF h
    <2>3. CASE h.pc = "idle"
      BY <2>1, <2>2, <2>3, HandTypes, BecomeShape, IdleSane
    <2>4. CASE h.pc # "idle"
      <3>1. /\ Turn(r) /\ req'[r].pc = AfterDefault(r) /\ req'[r].key = req[r].key
            /\ Goes(req'[r], req[r], req[r].row, req[r].rem, {}, req[r].book)
        BY <1>1, <2>1, <2>2, <2>4, HandTo
      <3>2. Sane(req'[r])
        BY <1>1, <2>1, <2>4, <3>1 DEF Sane, Goes, AfterDefault, Saving
      <3>3. QED
        BY <3>1, <3>2
    <2>5. QED
      BY <2>3, <2>4
  <1>4. QED
    BY <1>2, <1>3

\* pushToShopify: a copy is updated, or one is created and its id comes back, or not.
LEMMA PushUpdateHand ==
  ASSUME TypeOK, Sound, NEW r \in Requests, PushUpdate(r)
  PROVE  /\ Turn(r) /\ Sane(req'[r]) /\ req'[r].pc = "synced"
         /\ Goes(req'[r], req[r], req[r].row, req[r].rem, req[r].saw, req[r].book)
  <1>1. "synced" \in Steps \ {"idle"}
    BY DEF Steps
  <1>2. /\ Turn(r) /\ req'[r].pc = "synced"
        /\ Goes(req'[r], req[r], req[r].row, req[r].rem, req[r].saw, req[r].book)
    BY <1>1, StepTo DEF PushUpdate, store
  <1>3. req[r].pc = "push" /\ Sane(req[r]) /\ req[r].rem \in Copies
    BY HandTypes DEF PushUpdate, At, store
  <1>4. QED
    BY <1>2, <1>3 DEF Sane, Goes

LEMMA PushCreateHand ==
  ASSUME TypeOK, Sound, NEW r \in Requests, NEW X \in SUBSET Copies, NEW x \in Copies \cup {None},
         PushCreate(r, X, x)
  PROVE  /\ Turn(r) /\ Sane(req'[r])
         /\ IF x = None THEN req'[r] = Idle
            ELSE /\ req'[r].pc = "synced"
                 /\ Goes(req'[r], req[r], req[r].row, x, req[r].saw, req[r].book)
  <1>1. req[r].pc = "push" /\ Sane(req[r]) /\ "synced" \in Steps
    BY HandTypes DEF PushCreate, At, Steps, store
  <1>2. CASE x = None
    BY <1>2, HandTypes, ReturnShape, IdleSane DEF PushCreate, store
  <1>3. CASE x # None
    <2> DEFINE h == [req[r] EXCEPT !.pc = "synced", !.rem = x]
    <2>1. /\ h \in Hands /\ h.pc = "synced" /\ h.op = req[r].op /\ h.cust = req[r].cust
          /\ h.row = req[r].row /\ h.rem = x
          /\ h.saw = req[r].saw /\ h.drop = req[r].drop /\ h.book = req[r].book
      BY <1>1, HandTypes DEF Hands
    <2>2. Become(r, h)
      BY <1>3 DEF PushCreate, store
    <2> HIDE DEF h
    <2>3. /\ Turn(r) /\ req'[r].pc = "synced"
          /\ Goes(req'[r], req[r], req[r].row, x, req[r].saw, req[r].book)
      BY <2>1, <2>2, HandTo
    <2>4. QED
      BY <1>1, <1>3, <2>3 DEF Sane, Goes
  <1>4. QED
    BY <1>2, <1>3

LEMMA DeleteHand ==
  ASSUME TypeOK, Sound, NEW r \in Requests, Delete(r)
  PROVE  /\ Turn(r) /\ Sane(req'[r])
         /\ IF owner[req[r].row] = None THEN req'[r] = Idle
            ELSE /\ req'[r].pc = IF req[r].flag THEN "next" ELSE "erase"
                 /\ Goes(req'[r], req[r], None, req[r].rem, req[r].saw, req[r].book)
  <1>1. req[r].pc = "delete" /\ Sane(req[r]) /\ "next" \in Steps /\ "erase" \in Steps
    BY HandTypes DEF Delete, At, Steps, store
  <1>2. CASE owner[req[r].row] = None
    BY <1>2, HandTypes, ReturnShape, IdleSane DEF Delete, store
  <1>3. CASE owner[req[r].row] # None
    <2> DEFINE h == [req[r] EXCEPT !.pc = IF req[r].flag THEN "next" ELSE "erase", !.row = None]
    <2>1. /\ h \in Hands /\ h.pc = (IF req[r].flag THEN "next" ELSE "erase")
          /\ h.op = req[r].op /\ h.cust = req[r].cust /\ h.row = None /\ h.rem = req[r].rem
          /\ h.saw = req[r].saw /\ h.drop = req[r].drop /\ h.book = req[r].book
      BY <1>1, HandTypes DEF Hands
    <2>2. Become(r, h)
      BY <1>3 DEF Delete, store
    <2> HIDE DEF h
    <2>3. /\ Turn(r) /\ req'[r].pc = (IF req[r].flag THEN "next" ELSE "erase")
          /\ Goes(req'[r], req[r], None, req[r].rem, req[r].saw, req[r].book)
      BY <2>1, <2>2, HandTo
    <2>4. Sane(req'[r])
      BY <1>1, <2>3 DEF Sane, Goes
    <2>5. QED
      BY <1>3, <2>3, <2>4
  <1>4. QED
    BY <1>2, <1>3

\* A request that turns to a row of its customer's, to make it the default.
LEMMA RowHand ==
  ASSUME TypeOK, Sound, NEW r \in Requests, NEW a \in Rows, req[r].pc \in {"next", "ensure"},
         Become(r, [req[r] EXCEPT !.pc = "clear", !.row = a])
  PROVE  /\ Turn(r) /\ Sane(req'[r]) /\ req'[r].pc = "clear"
         /\ Goes(req'[r], req[r], a, req[r].rem, req[r].saw, req[r].book)
  <1>1. Sane(req[r]) /\ "clear" \in Steps
    BY HandTypes DEF Steps
  <1> DEFINE h == [req[r] EXCEPT !.pc = "clear", !.row = a]
  <1>2. /\ h \in Hands /\ h.pc = "clear" /\ h.op = req[r].op /\ h.cust = req[r].cust
        /\ h.row = a /\ h.rem = req[r].rem
        /\ h.saw = req[r].saw /\ h.drop = req[r].drop /\ h.book = req[r].book
    BY <1>1, HandTypes DEF Hands
  <1>3. Become(r, h)
    OBVIOUS
  <1> HIDE DEF h
  <1>4. /\ Turn(r) /\ req'[r].pc = "clear"
        /\ Goes(req'[r], req[r], a, req[r].rem, req[r].saw, req[r].book)
    BY <1>2, <1>3, HandTo
  <1>5. Sane(req'[r])
    BY <1>1, <1>4, AddressesAssumption DEF Sane, Goes, Saving, AddressesAssumption
  <1>6. QED
    BY <1>4, <1>5

LEMMA NextHand ==
  ASSUME TypeOK, Sound, NEW r \in Requests, NextDefault(r)
  PROVE  /\ Turn(r) /\ Sane(req'[r])
         /\ \/ /\ req'[r].pc = "erase" /\ Of(req[r].cust) = {}
               /\ Goes(req'[r], req[r], None, req[r].rem, req[r].saw, req[r].book)
            \/ /\ req'[r].pc = "clear"
               /\ \E a \in Of(req[r].cust) :
                    Goes(req'[r], req[r], a, req[r].rem, req[r].saw, req[r].book)
  <1>1. req[r].pc = "next" /\ Sane(req[r]) /\ req[r].row = None /\ "erase" \in Steps \ {"idle"}
    BY HandTypes DEF NextDefault, At, Sane, Steps, store
  <1>2. CASE Of(req[r].cust) = {}
    <2>1. /\ Turn(r) /\ req'[r].pc = "erase"
          /\ Goes(req'[r], req[r], None, req[r].rem, req[r].saw, req[r].book)
      BY <1>1, <1>2, StepTo DEF NextDefault, store
    <2>2. Sane(req'[r])
      BY <1>1, <2>1 DEF Sane, Goes
    <2>3. QED
      BY <1>2, <2>1, <2>2
  <1>3. CASE Of(req[r].cust) # {}
    <2>1. PICK a \in Of(req[r].cust) : Become(r, [req[r] EXCEPT !.pc = "clear", !.row = a])
      BY <1>3 DEF NextDefault, store
    <2>2. a \in Rows
      BY DEF Of
    <2>3. QED
      BY <1>1, <2>1, <2>2, RowHand
  <1>4. QED
    BY <1>2, <1>3

LEMMA EnsureHand ==
  ASSUME TypeOK, Sound, NEW r \in Requests, EnsureSomeDefault(r)
  PROVE  /\ Turn(r) /\ Sane(req'[r])
         /\ \/ /\ req'[r] = Idle
               /\ Of(req[r].cust) \cap default # {} \/ Of(req[r].cust) = {}
            \/ /\ req'[r].pc = "clear"
               /\ \E a \in Of(req[r].cust) :
                    Goes(req'[r], req[r], a, req[r].rem, req[r].saw, req[r].book)
  <1>1. req[r].pc = "ensure"
    BY DEF EnsureSomeDefault, At, store
  <1>2. CASE Of(req[r].cust) \cap default # {} \/ Of(req[r].cust) = {}
    BY <1>2, HandTypes, ReturnShape, IdleSane DEF EnsureSomeDefault, store
  <1>3. CASE ~(Of(req[r].cust) \cap default # {} \/ Of(req[r].cust) = {})
    <2>1. PICK a \in Of(req[r].cust) : Become(r, [req[r] EXCEPT !.pc = "clear", !.row = a])
      BY <1>3 DEF EnsureSomeDefault, store
    <2>2. a \in Rows
      BY DEF Of
    <2>3. QED
      BY <1>1, <2>1, <2>2, RowHand
  <1>4. QED
    BY <1>2, <1>3

\* importFromAddressBook.
LEMMA ReadEntryHand ==
  ASSUME TypeOK, Sound, NEW r \in Requests, NEW x \in Copies, NEW k \in Keys,
         ReadEntry(r, x, k)
  PROVE  /\ Turn(r) /\ Sane(req'[r]) /\ <<x, k>> \in req[r].book
         /\ \/ /\ req'[r].pc = "book"
               /\ Goes(req'[r], req[r], None, req[r].rem, req[r].saw, req[r].book \ {<<x, k>>})
            \/ /\ req'[r].pc = "entry"
               /\ \A a \in Found(req[r].cust, k) : remote[a] = None
               /\ \E a \in Found(req[r].cust, k) \cup {None} :
                    Goes(req'[r], req[r], a, x, req[r].saw, req[r].book \ {<<x, k>>})
  <1>1. /\ req[r].pc = "book" /\ Sane(req[r]) /\ req[r].row = None /\ <<x, k>> \in req[r].book
        /\ "book" \in Steps /\ "entry" \in Steps
    BY HandTypes DEF ReadEntry, At, Sane, Steps, store
  <1> DEFINE known == Found(req[r].cust, k)
             B == req[r].book \ {<<x, k>>}
             a == IF known = {} THEN None ELSE CHOOSE b \in known : TRUE
  <1>2. B \subseteq Copies \X Keys
    BY HandTypes
  <1>3. CASE \E b \in known : remote[b] # None
    <2> DEFINE h == [req[r] EXCEPT !.book = B]
    <2>1. /\ h \in Hands /\ h.pc = "book" /\ h.op = req[r].op /\ h.cust = req[r].cust
          /\ h.row = None /\ h.rem = req[r].rem
          /\ h.saw = req[r].saw /\ h.drop = req[r].drop /\ h.book = B
      BY <1>1, <1>2, HandTypes DEF Hands
    <2>2. Become(r, h)
      BY <1>3 DEF ReadEntry, store
    <2> HIDE DEF h
    <2>3. /\ Turn(r) /\ req'[r].pc = "book"
          /\ Goes(req'[r], req[r], None, req[r].rem, req[r].saw, B)
      BY <2>1, <2>2, HandTo
    <2>4. Sane(req'[r])
      BY <1>1, <2>3 DEF Sane, Goes
    <2>5. QED
      BY <1>1, <2>3, <2>4
  <1>4. CASE ~(\E b \in known : remote[b] # None)
    <2> DEFINE h == [req[r] EXCEPT !.pc = "entry", !.book = B, !.rem = x, !.key = k, !.row = a]
    <2>1. a \in known \cup {None} /\ a \in Rows \cup {None} /\ k \in Keys
      BY <1>4 DEF Found, Of, TypeOK
    <2>2. Become(r, h)
      BY <1>4 DEF ReadEntry, store
    <2>3. \A b \in known : remote[b] = None
      BY <1>4
    <2> HIDE DEF a, B, known
    <2>4. B \in SUBSET (Copies \X Keys) /\ x \in Copies \cup {None}
      BY <1>2
    <2>5. req[r] \in Hands
      BY HandTypes
    <2>6. /\ h.pc = "entry" /\ h.op = req[r].op /\ h.cust = req[r].cust
          /\ h.row = a /\ h.rem = x /\ h.key = k
          /\ h.saw = req[r].saw /\ h.drop = req[r].drop /\ h.book = B
      BY <2>5 DEF Hands
    <2>7. h \in Hands
      BY <1>1, <2>1, <2>4, <2>5 DEF Hands
    <2> HIDE DEF h
    <2>8. /\ Turn(r) /\ req'[r].pc = "entry" /\ req'[r].key = k
          /\ Goes(req'[r], req[r], a, x, req[r].saw, B)
      BY <2>2, <2>6, <2>7, HandTo
    <2>9. Sane(req'[r])
      BY <1>1, <2>1, <2>8 DEF Sane, Goes
    <2>10. QED
      BY <1>1, <2>1, <2>3, <2>8, <2>9 DEF B, known
  <1>5. QED
    BY <1>3, <1>4

LEMMA FetchedPairs ==
  ASSUME TypeOK, NEW c, NEW X \in SUBSET Copies, X \subseteq BookOf(c)
  PROVE  Fetched(X) \subseteq Copies \X Keys
  <1>1. \A x \in X : copy[x] \in Keys
    BY DEF BookOf, TypeOK
  <1>2. QED
    BY <1>1 DEF Fetched

LEMMA FetchNextHand ==
  ASSUME TypeOK, Sound, NEW r \in Requests, NEW X \in SUBSET Copies, FetchNext(r, X)
  PROVE  /\ Turn(r) /\ Sane(req'[r]) /\ req[r].pc = "book" /\ req'[r].pc = "book"
         /\ Goes(req'[r], req[r], None, req[r].rem, req[r].saw, Fetched(X))
  <1> DEFINE B == Fetched(X)
             h == [req[r] EXCEPT !.book = B, !.flag = TRUE]
  <1>1. /\ req[r].pc = "book" /\ Sane(req[r]) /\ req[r].row = None /\ X \subseteq BookOf(req[r].cust)
        /\ Become(r, h)
    BY HandTypes DEF FetchNext, At, Sane, store
  <1>2. B \subseteq Copies \X Keys
    BY <1>1, FetchedPairs
  <1> HIDE DEF B
  <1>3. /\ h \in Hands /\ h.pc = "book" /\ h.op = req[r].op /\ h.cust = req[r].cust
        /\ h.row = None /\ h.rem = req[r].rem
        /\ h.saw = req[r].saw /\ h.drop = req[r].drop /\ h.book = B
    BY <1>1, <1>2, HandTypes DEF Hands
  <1> HIDE DEF h
  <1>4. /\ Turn(r) /\ req'[r].pc = "book"
        /\ Goes(req'[r], req[r], None, req[r].rem, req[r].saw, B)
    BY <1>1, <1>3, HandTo
  <1>5. Sane(req'[r])
    BY <1>1, <1>4 DEF Sane, Goes
  <1>6. QED
    BY <1>1, <1>4, <1>5 DEF B

LEMMA EntryHand ==
  ASSUME TypeOK, Sound, NEW r \in Requests, req[r].pc = "entry", NEW flag \in BOOLEAN, NextEntry(r, flag)
  PROVE  /\ Turn(r) /\ Sane(req'[r]) /\ req'[r].pc = "book"
         /\ Goes(req'[r], req[r], None, None, req[r].saw, req[r].book)
  <1>1. Sane(req[r]) /\ "book" \in Steps
    BY HandTypes DEF Steps
  <1> DEFINE h == [req[r] EXCEPT !.pc = "book", !.row = None, !.rem = None, !.key = None, !.flag = flag]
  <1>2. /\ h \in Hands /\ h.pc = "book" /\ h.op = req[r].op /\ h.cust = req[r].cust
        /\ h.row = None /\ h.rem = None
        /\ h.saw = req[r].saw /\ h.drop = req[r].drop /\ h.book = req[r].book
    BY <1>1, HandTypes DEF Hands
  <1>3. Become(r, h)
    BY DEF NextEntry, store
  <1> HIDE DEF h
  <1>4. /\ Turn(r) /\ req'[r].pc = "book"
        /\ Goes(req'[r], req[r], None, None, req[r].saw, req[r].book)
    BY <1>2, <1>3, HandTo
  <1>5. Sane(req'[r])
    BY <1>1, <1>4 DEF Sane, Goes
  <1>6. QED
    BY <1>4, <1>5

LEMMA BookDoneHand ==
  ASSUME TypeOK, Sound, NEW r \in Requests, BookDone(r)
  PROVE  /\ Turn(r) /\ Sane(req'[r]) /\ req'[r].pc = "orders"
         /\ Goes(req'[r], req[r], None, req[r].rem, req[r].saw, {})
  <1>1. req[r].pc = "book" /\ req[r].book = {} /\ "orders" \in Steps \ {"idle"} /\ Sane(req[r])
    BY HandTypes DEF BookDone, At, Steps, store
  <1>2. /\ Turn(r) /\ req'[r].pc = "orders"
        /\ Goes(req'[r], req[r], req[r].row, req[r].rem, req[r].saw, req[r].book)
    BY <1>1, StepTo DEF BookDone, store
  <1>3. QED
    BY <1>1, <1>2 DEF Sane, Goes

LEMMA OrdersHand ==
  ASSUME TypeOK, Sound, NEW r \in Requests, NEW k, NEW a, ImportOrders(r, k, a)
  PROVE  /\ Turn(r) /\ Sane(req'[r]) /\ req'[r].pc = "ensure"
         /\ Goes(req'[r], req[r], None, req[r].rem, req[r].saw, req[r].book)
  <1>1. req[r].pc = "orders" /\ "ensure" \in Steps \ {"idle"} /\ Sane(req[r])
    BY HandTypes DEF ImportOrders, At, Steps, store
  <1>2. /\ Turn(r) /\ req'[r].pc = "ensure"
        /\ Goes(req'[r], req[r], req[r].row, req[r].rem, req[r].saw, req[r].book)
    BY <1>1, StepTo DEF ImportOrders, store
  <1>3. QED
    BY <1>1, <1>2 DEF Sane, Goes

\* The steps that end a request.
LEMMA EndHand ==
  ASSUME TypeOK, Sound, NEW r \in Requests, Return(r)
  PROVE  Turn(r) /\ Sane(req'[r]) /\ req'[r] = Idle
  BY HandTypes, ReturnShape, IdleSane

\* A request begins with h in hand.
Begun(r, h) ==
  /\ Turn(r) /\ Kept(req'[r], h) /\ Sane(req'[r]) /\ req[r] = Idle
  /\ begun' \in 0 .. MaxRequests
  /\ shaken' = shaken \cup {c \in {h.cust, h.op} \cap Customers : \E p \in Requests : Serves(p, c)}

LEMMA BeginHand ==
  ASSUME TypeOK, Sound, NEW r \in Requests, NEW h \in Hands, Begin(r, h), h.pc # "idle", Sane(h)
  PROVE  Begun(r, h)
  <1>1. /\ Turn(r) /\ req[r] = Idle /\ Kept(req'[r], h) /\ begun' \in 0 .. MaxRequests
        /\ shaken' = shaken \cup {c \in {h.cust, h.op} \cap Customers : \E p \in Requests : Serves(p, c)}
    BY HandTypes, BecomeShape, AddressesAssumption
    DEF Begin, At, Sane, TypeOK, AddressesAssumption
  <1>2. Sane(req'[r])
    BY <1>1 DEF Sane, Kept
  <1>3. QED
    BY <1>1, <1>2 DEF Begun

LEMMA CreateHand ==
  ASSUME TypeOK, Sound, NEW r \in Requests, NEW c \in Customers, NEW k \in Keys, NEW a \in Rows,
         NEW asked \in BOOLEAN, Create(r, c, k, a, asked)
  PROVE  \E h \in Hands :
           /\ Begun(r, h) /\ h.pc = "count" /\ h.op = "create" /\ h.cust = c /\ h.row = a
           /\ h.key = k /\ h.rem = remote[a] /\ h.saw = {} /\ h.drop = {} /\ h.book = {}
  <1> DEFINE h == [Idle EXCEPT !.pc = "count", !.op = "create", !.cust = c, !.row = a, !.key = k,
                               !.rem = remote[a], !.flag = asked]
  <1>1. remote[a] \in Copies \cup {None} /\ "count" \in Steps /\ "create" \in Operations
    BY DEF TypeOK, Steps, Operations
  <1>2. /\ h \in Hands /\ h.pc = "count" /\ h.op = "create" /\ h.cust = c /\ h.row = a
        /\ h.key = k /\ h.rem = remote[a] /\ h.saw = {} /\ h.drop = {} /\ h.book = {}
    BY <1>1, IdleShape DEF Hands
  <1>3. Begin(r, h)
    BY DEF Create, store
  <1> HIDE DEF h
  <1>4. Sane(h)
    BY <1>1, <1>2 DEF Sane, Saving
  <1>5. QED
    BY <1>2, <1>3, <1>4, BeginHand

LEMMA UpdateHand ==
  ASSUME TypeOK, Sound, NEW r \in Requests, NEW a \in Rows, NEW k \in Keys, NEW asked \in BOOLEAN,
         UpdateRead(r, a, k, asked)
  PROVE  \E h \in Hands :
           /\ Begun(r, h) /\ h.pc = "edit" /\ h.op = "update" /\ h.cust = owner[a]
           /\ h.row = a /\ h.rem = None /\ h.saw = {} /\ h.drop = {} /\ h.book = {}
  <1> DEFINE h == [Idle EXCEPT !.pc = "edit", !.op = "update", !.cust = owner[a], !.row = a,
                               !.key = k, !.flag = asked]
  <1>1. owner[a] \in Customers /\ "edit" \in Steps /\ "update" \in Operations
    BY DEF TypeOK, Steps, Operations, UpdateRead, MustOwn, store
  <1>2. /\ h \in Hands /\ h.pc = "edit" /\ h.op = "update" /\ h.cust = owner[a] /\ h.row = a
        /\ h.key = k /\ h.rem = None /\ h.saw = {} /\ h.drop = {} /\ h.book = {}
    BY <1>1, IdleShape DEF Hands
  <1>3. Begin(r, h)
    BY DEF UpdateRead, store
  <1> HIDE DEF h
  <1>4. Sane(h)
    BY <1>1, <1>2 DEF Sane, Saving
  <1>5. QED
    BY <1>2, <1>3, <1>4, BeginHand

LEMMA SetDefaultHand ==
  ASSUME TypeOK, Sound, NEW r \in Requests, NEW a \in Rows, SetDefault(r, a)
  PROVE  \E h \in Hands :
           /\ Begun(r, h) /\ h.pc = "clear" /\ h.op = "setDefault" /\ h.cust = owner[a]
           /\ h.row = a /\ h.rem = None /\ h.saw = {} /\ h.drop = {} /\ h.book = {}
  <1> DEFINE h == [Idle EXCEPT !.pc = "clear", !.op = "setDefault", !.cust = owner[a], !.row = a]
  <1>1. owner[a] \in Customers /\ "clear" \in Steps /\ "setDefault" \in Operations
    BY DEF TypeOK, Steps, Operations, SetDefault, MustOwn, store
  <1>2. /\ h \in Hands /\ h.pc = "clear" /\ h.op = "setDefault" /\ h.cust = owner[a] /\ h.row = a
        /\ h.rem = None /\ h.saw = {} /\ h.drop = {} /\ h.book = {}
    BY <1>1, IdleShape DEF Hands
  <1>3. Begin(r, h)
    BY DEF SetDefault, store
  <1> HIDE DEF h
  <1>4. Sane(h)
    BY <1>1, <1>2 DEF Sane, Saving
  <1>5. QED
    BY <1>2, <1>3, <1>4, BeginHand

LEMMA RemoveHand ==
  ASSUME TypeOK, Sound, NEW r \in Requests, NEW a \in Rows, RemoveRead(r, a)
  PROVE  \E h \in Hands :
           /\ Begun(r, h) /\ h.pc = "delete" /\ h.op = "remove" /\ h.cust = owner[a]
           /\ h.row = a /\ h.rem = remote[a] /\ h.saw = {} /\ h.drop = {} /\ h.book = {}
           /\ h.flag = (a \in default)
  <1> DEFINE f == a \in default
             h == [Idle EXCEPT !.pc = "delete", !.op = "remove", !.cust = owner[a], !.row = a,
                               !.rem = remote[a], !.flag = f]
  <1>1. /\ owner[a] \in Customers /\ "delete" \in Steps /\ "remove" \in Operations
        /\ remote[a] \in Copies \cup {None} /\ f \in BOOLEAN
    BY DEF TypeOK, Steps, Operations, RemoveRead, MustOwn, store
  <1>2. /\ h \in Hands /\ h.pc = "delete" /\ h.op = "remove" /\ h.cust = owner[a] /\ h.row = a
        /\ h.rem = remote[a] /\ h.saw = {} /\ h.drop = {} /\ h.book = {} /\ h.flag = f
    <2> HIDE DEF f
    <2> QED
      BY <1>1, IdleShape DEF Hands
  <1>3. Begin(r, h)
    BY DEF RemoveRead, store
  <1> HIDE DEF h
  <1>4. Sane(h)
    BY <1>1, <1>2 DEF Sane, Saving
  <1>5. QED
    BY <1>2, <1>3, <1>4, BeginHand

LEMMA FetchHand ==
  ASSUME TypeOK, Sound, NEW r \in Requests, NEW c \in Customers, NEW X \in SUBSET Copies,
         FetchBook(r, c, X)
  PROVE  \E h \in Hands :
           /\ Begun(r, h) /\ h.pc = "book" /\ h.op = "sync" /\ h.cust = c
           /\ h.row = None /\ h.rem = None /\ h.saw = {} /\ h.drop = {} /\ h.book = Fetched(X)
  <1> DEFINE B == Fetched(X)
             h == [Idle EXCEPT !.pc = "book", !.op = "sync", !.cust = c, !.book = B, !.flag = TRUE]
  <1>1. "book" \in Steps /\ "sync" \in Operations
    BY DEF Steps, Operations
  <1>2. B \subseteq Copies \X Keys /\ Begin(r, h)
    BY FetchedPairs DEF FetchBook, store
  <1> HIDE DEF B
  <1>3. /\ h \in Hands /\ h.pc = "book" /\ h.op = "sync" /\ h.cust = c
        /\ h.row = None /\ h.rem = None /\ h.saw = {} /\ h.drop = {} /\ h.book = B
    BY <1>1, <1>2, IdleShape DEF Hands
  <1> HIDE DEF h
  <1>4. Sane(h)
    BY <1>1, <1>3 DEF Sane, Saving
  <1>5. QED
    BY <1>2, <1>3, <1>4, BeginHand DEF B

LEMMA PastHand ==
  ASSUME TypeOK, Sound, NEW r \in Requests, NEW c \in Customers, PastOrders(r, c)
  PROVE  \E h \in Hands :
           /\ Begun(r, h) /\ h.pc = "orders" /\ h.op = "sync" /\ h.cust = c
           /\ h.row = None /\ h.rem = None /\ h.saw = {} /\ h.drop = {} /\ h.book = {}
  <1> DEFINE h == [Idle EXCEPT !.pc = "orders", !.op = "sync", !.cust = c]
  <1>1. "orders" \in Steps /\ "sync" \in Operations
    BY DEF Steps, Operations
  <1>2. /\ h \in Hands /\ h.pc = "orders" /\ h.op = "sync" /\ h.cust = c
        /\ h.row = None /\ h.rem = None /\ h.saw = {} /\ h.drop = {} /\ h.book = {}
    BY <1>1, IdleShape DEF Hands
  <1>3. Begin(r, h)
    BY DEF PastOrders, store
  <1> HIDE DEF h
  <1>4. Sane(h)
    BY <1>1, <1>2 DEF Sane, Saving
  <1>5. QED
    BY <1>2, <1>3, <1>4, BeginHand

LEMMA MergeHand ==
  ASSUME TypeOK, Sound, NEW r \in Requests, NEW s \in Customers, NEW t \in Customers,
         MergeRead(r, s, t)
  PROVE  \E h \in Hands :
           /\ Begun(r, h) /\ h.pc = "merge" /\ h.op = t /\ h.cust = s
           /\ h.row = None /\ h.rem = None /\ h.saw = Of(s) \ Dropped(s, t)
           /\ h.drop = Dropped(s, t) /\ h.book = {} /\ h.flag = (Of(t) # {})
  <1> DEFINE f == Of(t) # {}
             M == Of(s) \ Dropped(s, t)
             D == Dropped(s, t)
             h == [Idle EXCEPT !.pc = "merge", !.op = t, !.cust = s, !.saw = M, !.drop = D, !.flag = f]
  <1>1. "merge" \in Steps /\ M \subseteq Rows /\ D \subseteq Rows /\ f \in BOOLEAN /\ s # t
    BY DEF Steps, Of, Dropped, MergeRead, store
  <1>2. /\ h \in Hands /\ h.pc = "merge" /\ h.op = t /\ h.cust = s
        /\ h.row = None /\ h.rem = None /\ h.saw = M /\ h.drop = D /\ h.book = {} /\ h.flag = f
    <2> HIDE DEF f, M, D
    <2> QED
      BY <1>1, IdleShape DEF Hands
  <1>3. Begin(r, h)
    BY DEF MergeRead, store
  <1> HIDE DEF h
  <1>4. Sane(h)
    BY <1>1, <1>2 DEF Sane, Saving
  <1>5. QED
    BY <1>2, <1>3, <1>4, BeginHand

(***************************************************************************)
(* The types and the unique indexes                                        *)
(***************************************************************************)

Data ==
  /\ owner \in [Rows -> Customers \cup {None}]
  /\ key \in [Rows -> Keys \cup {None}]
  /\ default \subseteq {a \in Rows : owner[a] # None}
  /\ remote \in [Rows -> Copies \cup {None}]
  /\ \A a \in Rows : IF owner[a] = None THEN remote[a] = None /\ key[a] = None ELSE key[a] \in Keys
  /\ \A a, b \in Rows :
       a # b /\ owner[a] # None =>
         /\ ~(owner[a] = owner[b] /\ key[a] = key[b])
         /\ remote[a] # None => remote[a] # remote[b]

LEMMA NoneApart ==
  None \notin Customers /\ None \notin Rows /\ None \notin Keys /\ None \notin Copies
  BY AddressesAssumption DEF AddressesAssumption

\* A row is written for customer c: a new one, with a fingerprint he has not.
LEMMA DataNew ==
  ASSUME Data, NEW a \in Rows, NEW c \in Customers, NEW k \in Keys, owner[a] = None,
         Found(c, k) = {}, owner' = [owner EXCEPT ![a] = c], key' = [key EXCEPT ![a] = k],
         NEW x \in Copies \cup {None}, x # None => RemoteFree(x),
         remote' = [remote EXCEPT ![a] = x], default' \subseteq default \cup {a}
  PROVE  Data'
  <1>1. /\ owner' \in [Rows -> Customers \cup {None}] /\ owner'[a] = c /\ c # None
        /\ \A b \in Rows \ {a} : owner'[b] = owner[b]
        /\ key' \in [Rows -> Keys \cup {None}] /\ key'[a] = k
        /\ \A b \in Rows \ {a} : key'[b] = key[b]
        /\ remote' \in [Rows -> Copies \cup {None}] /\ remote'[a] = x
        /\ \A b \in Rows \ {a} : remote'[b] = remote[b]
    BY NoneApart DEF Data
  <1>2. \A b \in Rows : ~(owner[b] = c /\ key[b] = k)
    BY DEF Found, Of
  <1>3. \A b \in Rows : x # None => remote[b] # x
    BY DEF RemoteFree, Data
  <1>4. ASSUME NEW b \in Rows, NEW d \in Rows, b # d, owner'[b] # None
        PROVE  /\ ~(owner'[b] = owner'[d] /\ key'[b] = key'[d])
               /\ remote'[b] # None => remote'[b] # remote'[d]
    <2>1. CASE b = a
      BY <1>1, <1>2, <1>3, <1>4, <2>1
    <2>2. CASE d = a
      BY <1>1, <1>2, <1>3, <1>4, <2>2
    <2>3. CASE b # a /\ d # a
      BY <1>1, <1>4, <2>3 DEF Data
    <2>4. QED
      BY <2>1, <2>2, <2>3
  <1>5. default' \subseteq {b \in Rows : owner'[b] # None}
    BY <1>1 DEF Data
  <1>6. \A b \in Rows : IF owner'[b] = None THEN remote'[b] = None /\ key'[b] = None
                        ELSE key'[b] \in Keys
    BY <1>1 DEF Data
  <1>7. QED
    BY <1>1, <1>4, <1>5, <1>6 DEF Data

\* A row that is there is tied to a copy that no row is tied to, or to its own.
LEMMA DataTied ==
  ASSUME Data, NEW a \in Rows, owner[a] # None, NEW x \in Copies,
         \A b \in Rows \ {a} : owner[b] # None => remote[b] # x,
         remote' = [remote EXCEPT ![a] = x], UNCHANGED <<owner, key, default>>
  PROVE  Data'
  <1>1. /\ remote' \in [Rows -> Copies \cup {None}] /\ remote'[a] = x /\ x # None
        /\ \A b \in Rows \ {a} : remote'[b] = remote[b]
    BY NoneApart DEF Data
  <1>2. \A b \in Rows \ {a} : remote[b] # x
    BY NoneApart DEF Data
  <1>3. ASSUME NEW b \in Rows, NEW d \in Rows, b # d, owner'[b] # None
        PROVE  /\ ~(owner'[b] = owner'[d] /\ key'[b] = key'[d])
               /\ remote'[b] # None => remote'[b] # remote'[d]
    BY <1>1, <1>2, <1>3 DEF Data
  <1>4. QED
    BY <1>1, <1>3 DEF Data

\* Rows are deleted.
LEMMA DataGone ==
  ASSUME Data, NEW D \in SUBSET Rows, NEW o \in [Rows -> Customers \cup {None}],
         owner' = [a \in Rows |-> IF a \in D THEN None ELSE o[a]],
         key' = [a \in Rows |-> IF a \in D THEN None ELSE key[a]],
         remote' = [a \in Rows |-> IF a \in D THEN None ELSE remote[a]],
         default' \subseteq default \ D,
         \A a \in Rows : owner[a] = None <=> o[a] = None,
         \A a, b \in Rows : a # b /\ o[a] # None => ~(o[a] = o[b] /\ key[a] = key[b])
  PROVE  Data'
  <1>1. /\ owner' \in [Rows -> Customers \cup {None}] /\ key' \in [Rows -> Keys \cup {None}]
        /\ remote' \in [Rows -> Copies \cup {None}]
    BY DEF Data
  <1>2. \A a \in Rows : IF owner'[a] = None THEN remote'[a] = None /\ key'[a] = None
                        ELSE key'[a] \in Keys
    BY DEF Data
  <1>3. default' \subseteq {a \in Rows : owner'[a] # None}
    BY DEF Data
  <1>4. ASSUME NEW a \in Rows, NEW b \in Rows, a # b, owner'[a] # None
        PROVE  /\ ~(owner'[a] = owner'[b] /\ key'[a] = key'[b])
               /\ remote'[a] # None => remote'[a] # remote'[b]
    <2>1. a \notin D /\ owner'[a] = o[a] /\ key'[a] = key[a] /\ remote'[a] = remote[a] /\ o[a] # None
      BY <1>4
    <2>2. CASE b \in D
      BY <2>1, <2>2
    <2>3. CASE b \notin D
      BY <1>4, <2>1, <2>3 DEF Data
    <2>4. QED
      BY <2>2, <2>3
  <1>5. QED
    BY <1>1, <1>2, <1>3, <1>4 DEF Data

LEMMA DataNow == ASSUME TypeOK, Sound PROVE Data
  BY DEF TypeOK, Sound, Data

LEMMA CreateData ==
  ASSUME TypeOK, Sound, NEW r \in Requests, NEW c \in Customers, NEW k \in Keys, NEW a \in Rows,
         NEW asked \in BOOLEAN, Create(r, c, k, a, asked)
  PROVE  /\ Data'
         /\ \/ a \in Found(c, k) /\ UNCHANGED <<owner, key>>
            \/ /\ Found(c, k) = {} /\ a \in Free
               /\ owner' = [owner EXCEPT ![a] = c] /\ key' = [key EXCEPT ![a] = k]
  <1>1. /\ Data /\ owner' = [owner EXCEPT ![a] = c] /\ key' = [key EXCEPT ![a] = k]
        /\ UNCHANGED <<default, remote>>
    BY DataNow DEF Create, store
  <1>2. CASE Found(c, k) # {}
    <2>1. a \in Found(c, k) /\ owner[a] = c /\ key[a] = k
      BY <1>2 DEF Create, Found, Of, store
    <2>2. owner' = owner /\ key' = key
      BY <1>1, <2>1 DEF Data
    <2>3. QED
      BY <1>1, <2>1, <2>2 DEF Data
  <1>3. CASE Found(c, k) = {}
    <2>1. a \in Free /\ owner[a] = None /\ remote[a] = None
      BY <1>1, <1>3 DEF Create, Free, Data, store
    <2>2. remote' = [remote EXCEPT ![a] = None] /\ default' \subseteq default \cup {a}
      BY <1>1, <2>1 DEF Data
    <2>3. Data'
      BY <1>1, <1>3, <2>1, <2>2, DataNew
    <2>4. QED
      BY <1>1, <1>3, <2>1, <2>3
  <1>4. QED
    BY <1>2, <1>3

LEMMA EditData ==
  ASSUME TypeOK, Sound, NEW r \in Requests, Edit(r)
  PROVE  Data'
  <1> DEFINE a == req[r].row
             k == req[r].key
  <1>1. /\ Data /\ a \in Rows /\ k \in Keys /\ UNCHANGED <<owner, default, remote>>
    BY DataNow, HandTypes DEF Edit, At, Sane, store
  <1>2. CASE UNCHANGED key
    BY <1>1, <1>2 DEF Data
  <1>3. CASE ~UNCHANGED key
    <2>1. /\ owner[a] # None /\ Found(owner[a], k) \subseteq {a} /\ key' = [key EXCEPT ![a] = k]
      BY <1>3, EditHand
    <2>2. /\ key' \in [Rows -> Keys \cup {None}] /\ key'[a] = k
          /\ \A b \in Rows \ {a} : key'[b] = key[b]
      BY <1>1, <2>1 DEF Data
    <2>3. \A b \in Rows \ {a} : ~(owner[b] = owner[a] /\ key[b] = k)
      BY <2>1 DEF Found, Of
    <2>4. ASSUME NEW b \in Rows, NEW d \in Rows, b # d, owner[b] # None
          PROVE  ~(owner[b] = owner[d] /\ key'[b] = key'[d])
      BY <1>1, <2>2, <2>3, <2>4 DEF Data
    <2> HIDE DEF a, k
    <2>5. QED
      BY <1>1, <2>1, <2>2, <2>4 DEF Data
  <1>4. QED
    BY <1>2, <1>3

LEMMA SetData ==
  ASSUME TypeOK, Sound, NEW r \in Requests, Set(r)
  PROVE  Data'
  BY DataNow, HandTypes DEF Set, Data, At, Sane, store

LEMMA TiedData ==
  ASSUME TypeOK, Sound, NEW r \in Requests, MarkSynced(r) \/ TieEntry(r)
  PROVE  Data'
  <1>1. /\ Data /\ req[r].rem \in Copies /\ req[r].row \in Rows \cup {None}
        /\ UNCHANGED <<owner, key, default>>
    BY DataNow, HandTypes DEF MarkSynced, TieEntry, At, Sane, store
  <1>2. CASE UNCHANGED remote
    BY <1>1, <1>2 DEF Data
  <1>3. CASE ~UNCHANGED remote
    <2>1. /\ owner[req[r].row] # None /\ remote' = [remote EXCEPT ![req[r].row] = req[r].rem]
          /\ \A b \in Rows \ {req[r].row} : owner[b] # None => remote[b] # req[r].rem
      BY <1>3 DEF MarkSynced, TieEntry, Synced, RemoteFree, store
    <2>2. req[r].row \in Rows
      BY HandTypes DEF MarkSynced, TieEntry, At, Sane, store
    <2>3. QED
      BY <1>1, <2>1, <2>2, DataTied
  <1>4. QED
    BY <1>2, <1>3

LEMMA DeleteData ==
  ASSUME TypeOK, Sound, NEW r \in Requests, Delete(r)
  PROVE  Data'
  <1> DEFINE a == req[r].row
  <1>1. Data /\ a \in Rows
    BY DataNow, HandTypes DEF Delete, At, Sane, store
  <1>2. CASE owner[a] = None
    BY <1>1, <1>2 DEF Delete, Data, rowVars, store
  <1>3. CASE owner[a] # None
    <2>1. /\ owner' = [owner EXCEPT ![a] = None] /\ key' = [key EXCEPT ![a] = None]
          /\ remote' = [remote EXCEPT ![a] = None] /\ default' = default \ {a}
      BY <1>3 DEF Delete, store
    <2> HIDE DEF a
    <2>2. /\ owner' = [b \in Rows |-> IF b \in {a} THEN None ELSE owner[b]]
          /\ key' = [b \in Rows |-> IF b \in {a} THEN None ELSE key[b]]
          /\ remote' = [b \in Rows |-> IF b \in {a} THEN None ELSE remote[b]]
      BY <1>1, <2>1 DEF Data
    <2>3. /\ {a} \in SUBSET Rows /\ owner \in [Rows -> Customers \cup {None}]
          /\ \A b, d \in Rows : b # d /\ owner[b] # None => ~(owner[b] = owner[d] /\ key[b] = key[d])
      BY <1>1 DEF Data
    <2>4. QED
      BY <1>1, <2>1, <2>2, <2>3, DataGone
  <1>4. QED
    BY <1>2, <1>3

LEMMA ImportData ==
  ASSUME TypeOK, Sound, NEW r \in Requests, NEW a \in Rows, NEW isDefault \in BOOLEAN,
         ImportEntry(r, a, isDefault)
  PROVE  Data'
  <1> DEFINE c == req[r].cust
             k == req[r].key
             x == req[r].rem
  <1>1. Data /\ c \in Customers /\ k \in Keys /\ x \in Copies
    BY DataNow, HandTypes DEF ImportEntry, At, Sane, store
  <1>2. /\ owner[a] = None /\ Found(c, k) = {} /\ RemoteFree(x)
        /\ owner' = [owner EXCEPT ![a] = c] /\ key' = [key EXCEPT ![a] = k]
        /\ remote' = [remote EXCEPT ![a] = x] /\ default' \subseteq default \cup {a}
    BY DEF ImportEntry, Free, store
  <1> HIDE DEF c, k, x
  <1>3. QED
    BY <1>1, <1>2, DataNew

LEMMA OrdersData ==
  ASSUME TypeOK, Sound, NEW r \in Requests, NEW k \in OrderAddresses, NEW a \in Rows,
         ImportOrders(r, k, a)
  PROVE  Data'
  <1> DEFINE c == req[r].cust
  <1>1. Data /\ c \in Customers /\ UNCHANGED <<default, remote>>
    BY DataNow, HandTypes DEF ImportOrders, At, Sane, store
  <1>2. CASE k = None \/ Found(c, k) # {}
    BY <1>1, <1>2 DEF ImportOrders, Data, store
  <1>3. CASE ~(k = None \/ Found(c, k) # {})
    <2>1. /\ owner[a] = None /\ Found(c, k) = {} /\ k \in Keys
          /\ owner' = [owner EXCEPT ![a] = c] /\ key' = [key EXCEPT ![a] = k]
      BY <1>3 DEF ImportOrders, Free, OrderAddresses, store
    <2>2. remote' = [remote EXCEPT ![a] = None] /\ default' \subseteq default \cup {a}
      BY <1>1, <2>1 DEF Data
    <2> HIDE DEF c
    <2>3. QED
      BY <1>1, <2>1, <2>2, DataNew
  <1>4. QED
    BY <1>2, <1>3

LEMMA MergeData ==
  ASSUME TypeOK, Sound, NEW r \in Requests, MergeCommit(r)
  PROVE  Data'
  <1> DEFINE t == req[r].op
             out == req[r].drop
             in == Moved(r)
             o == [a \in Rows |-> IF a \in in THEN t ELSE owner[a]]
  <1>1. Data /\ t \in Customers /\ out \subseteq Rows /\ in \subseteq Rows
    BY DataNow, HandTypes DEF MergeCommit, At, Sane, Moved, store
  <1>2. \A a \in in : owner[a] # None
    BY DEF Moved
  <1>3. /\ owner' = [a \in Rows |-> IF a \in out THEN None ELSE IF a \in in THEN t ELSE owner[a]]
        /\ key' = [a \in Rows |-> IF a \in out THEN None ELSE key[a]]
        /\ remote' = [a \in Rows |-> IF a \in out THEN None ELSE remote[a]]
        /\ default' \subseteq default \ out
        /\ \A a \in in, b \in Rows : a # b /\ key[a] = key[b] => owner[b] # t /\ b \notin in
    BY DEF MergeCommit, Clashes, store
  <1> HIDE DEF t, out, in
  <1>4. /\ o \in [Rows -> Customers \cup {None}]
        /\ owner' = [a \in Rows |-> IF a \in out THEN None ELSE o[a]]
        /\ \A a \in Rows : owner[a] = None <=> o[a] = None
    BY <1>1, <1>2, <1>3, NoneApart DEF Data
  <1>5. \A a, b \in Rows : a # b /\ o[a] # None => ~(o[a] = o[b] /\ key[a] = key[b])
    BY <1>1, <1>3 DEF Data
  <1> HIDE DEF o
  <1>6. QED
    BY <1>1, <1>3, <1>4, <1>5, DataGone

LEMMA TypeFrom ==
  ASSUME TypeOK, Sound, NEW r \in Requests, Data', Turn(r), Sane(req'[r]), begun' \in 0 .. MaxRequests,
         copy' \in [Copies -> Keys \cup {None}], made' \in [Copies -> Rows \cup {None}],
         touched' \subseteq Copies, visits' \in 0 .. MaxVisits,
         shaken' \subseteq Customers, imported' \subseteq Customers, stale' \subseteq Rows
  PROVE  TypeOK' /\ Sound'
  <1>1. TypeOK'
    BY DEF Data, TypeOK, Turn, Hands
  <1>2. \A p \in Requests : Sane(req'[p])
    BY DEF Turn, Sound
  <1>3. Sound'
    BY <1>2 DEF Data, Sound
  <1>4. QED
    BY <1>1, <1>3

\* The steps that change no row.
Reads(r) ==
  \/ Count(r) \/ Clear(r) \/ PushNothing(r) \/ PushUpdate(r)
  \/ \E X \in SUBSET Copies, x \in Copies \cup {None} : PushCreate(r, X, x)
  \/ NextDefault(r) \/ Erase(r) \/ (\E x \in Copies, k \in Keys : ReadEntry(r, x, k))
  \/ (\E X \in SUBSET Copies : FetchNext(r, X))
  \/ SkipEntry(r) \/ BookDone(r) \/ EnsureSomeDefault(r) \/ MergeRefused(r) \/ Stop(r)

LEMMA ReadsHand ==
  ASSUME TypeOK, Sound, NEW r \in Requests, Reads(r)
  PROVE  Turn(r) /\ Sane(req'[r]) /\ UNCHANGED rowVars
  <1>1. CASE Count(r)
    BY <1>1, CountHand DEF Count, store
  <1>2. CASE Clear(r)
    BY <1>2, ClearHand DEF Clear, store
  <1>3. CASE PushNothing(r) \/ Erase(r) \/ MergeRefused(r) \/ Stop(r)
    BY <1>3, EndHand DEF PushNothing, Erase, MergeRefused, Stop, store
  <1>4. CASE PushUpdate(r)
    BY <1>4, PushUpdateHand DEF PushUpdate, store
  <1>5. ASSUME NEW X \in SUBSET Copies, NEW x \in Copies \cup {None}, PushCreate(r, X, x)
        PROVE  Turn(r) /\ Sane(req'[r]) /\ UNCHANGED rowVars
    BY <1>5, PushCreateHand DEF PushCreate, store
  <1>6. CASE NextDefault(r)
    BY <1>6, NextHand DEF NextDefault, store
  <1>7. ASSUME NEW x \in Copies, NEW k \in Keys, ReadEntry(r, x, k)
        PROVE  Turn(r) /\ Sane(req'[r]) /\ UNCHANGED rowVars
    BY <1>7, ReadEntryHand DEF ReadEntry, store
  <1>8. CASE SkipEntry(r)
    <2>1. req[r].flag \in BOOLEAN
      BY HandTypes DEF Hands
    <2>2. QED
      BY <1>8, <2>1, EntryHand DEF SkipEntry, At, store
  <1>9. CASE BookDone(r)
    BY <1>9, BookDoneHand DEF BookDone, store
  <1>10. CASE EnsureSomeDefault(r)
    BY <1>10, EnsureHand DEF EnsureSomeDefault, store
  <1>11. ASSUME NEW X \in SUBSET Copies, FetchNext(r, X)
         PROVE  Turn(r) /\ Sane(req'[r]) /\ UNCHANGED rowVars
    BY <1>11, FetchNextHand DEF FetchNext
  <1>12. QED
    BY <1>1, <1>2, <1>3, <1>4, <1>5, <1>6, <1>7, <1>8, <1>9, <1>10, <1>11 DEF Reads

\* The steps that write rows, but for the merge.
Writes(r) ==
  \/ Edit(r) \/ Set(r) \/ MarkSynced(r) \/ Delete(r)
  \/ (\E a \in Rows, isDefault \in BOOLEAN : ImportEntry(r, a, isDefault))
  \/ TieEntry(r) \/ (\E k \in OrderAddresses, a \in Rows : ImportOrders(r, k, a))

LEMMA WritesHand ==
  ASSUME TypeOK, Sound, NEW r \in Requests, Writes(r)
  PROVE  Turn(r) /\ Sane(req'[r]) /\ Data'
  <1>1. CASE Edit(r)
    BY <1>1, EditHand, EditData
  <1>2. CASE Set(r)
    BY <1>2, SetHand, SetData
  <1>3. CASE MarkSynced(r)
    BY <1>3, EndHand, TiedData DEF MarkSynced, store
  <1>4. CASE Delete(r)
    BY <1>4, DeleteHand, DeleteData
  <1>5. ASSUME NEW a \in Rows, NEW isDefault \in BOOLEAN, ImportEntry(r, a, isDefault)
        PROVE  Turn(r) /\ Sane(req'[r]) /\ Data'
    <2>1. (req[r].flag /\ ~isDefault) \in BOOLEAN /\ req[r].pc = "entry"
      BY <1>5 DEF ImportEntry, At, store
    <2>2. NextEntry(r, req[r].flag /\ ~isDefault)
      BY <1>5 DEF ImportEntry, store
    <2>3. QED
      BY <1>5, <2>1, <2>2, EntryHand, ImportData
  <1>6. CASE TieEntry(r)
    <2>1. req[r].flag \in BOOLEAN
      BY HandTypes DEF Hands
    <2>2. QED
      BY <1>6, <2>1, EntryHand, TiedData DEF TieEntry, At, store
  <1>7. ASSUME NEW k \in OrderAddresses, NEW a \in Rows, ImportOrders(r, k, a)
        PROVE  Turn(r) /\ Sane(req'[r]) /\ Data'
    BY <1>7, OrdersHand, OrdersData
  <1>8. QED
    BY <1>1, <1>2, <1>3, <1>4, <1>5, <1>6, <1>7 DEF Writes

\* The beginning of a request changes no row, but for the upsert.
LEMMA StartHand ==
  ASSUME TypeOK, Sound, NEW r \in Requests, Start(r)
  PROVE  /\ \E h \in Hands : Begun(r, h) /\ h.pc # "idle"
         /\ Data' /\ UNCHANGED <<default, remote, store, made, imported, stale>>
  <1>1. ASSUME UNCHANGED <<rowVars, store, made, imported, stale>>
        PROVE  Data' /\ UNCHANGED <<default, remote, store, made, imported, stale>>
    BY <1>1, DataNow DEF rowVars, Data
  <1>2. ASSUME NEW c \in Customers, NEW k \in Keys, NEW a \in Rows, NEW asked \in BOOLEAN,
               Create(r, c, k, a, asked)
        PROVE  /\ \E h \in Hands : Begun(r, h) /\ h.pc # "idle"
               /\ Data' /\ UNCHANGED <<default, remote, store, made, imported, stale>>
    <2>1. \E h \in Hands : Begun(r, h) /\ h.pc # "idle"
      BY <1>2, CreateHand
    <2>2. Data'
      BY <1>2, CreateData
    <2>3. UNCHANGED <<default, remote, store, made, imported, stale>>
      BY <1>2 DEF Create, store
    <2>4. QED
      BY <2>1, <2>2, <2>3
  <1>3. ASSUME NEW a \in Rows, NEW k \in Keys, NEW asked \in BOOLEAN, UpdateRead(r, a, k, asked)
        PROVE  /\ \E h \in Hands : Begun(r, h) /\ h.pc # "idle"
               /\ Data' /\ UNCHANGED <<default, remote, store, made, imported, stale>>
    BY <1>1, <1>3, UpdateHand DEF UpdateRead, store
  <1>4. ASSUME NEW a \in Rows, SetDefault(r, a) \/ RemoveRead(r, a)
        PROVE  /\ \E h \in Hands : Begun(r, h) /\ h.pc # "idle"
               /\ Data' /\ UNCHANGED <<default, remote, store, made, imported, stale>>
    BY <1>1, <1>4, SetDefaultHand, RemoveHand DEF SetDefault, RemoveRead, store
  <1>5. ASSUME NEW c \in Customers, NEW X \in SUBSET Copies, FetchBook(r, c, X)
        PROVE  /\ \E h \in Hands : Begun(r, h) /\ h.pc # "idle"
               /\ Data' /\ UNCHANGED <<default, remote, store, made, imported, stale>>
    BY <1>1, <1>5, FetchHand DEF FetchBook, store
  <1>6. ASSUME NEW c \in Customers, PastOrders(r, c)
        PROVE  /\ \E h \in Hands : Begun(r, h) /\ h.pc # "idle"
               /\ Data' /\ UNCHANGED <<default, remote, store, made, imported, stale>>
    BY <1>1, <1>6, PastHand DEF PastOrders, store
  <1>7. ASSUME NEW s \in Customers, NEW t \in Customers, MergeRead(r, s, t)
        PROVE  /\ \E h \in Hands : Begun(r, h) /\ h.pc # "idle"
               /\ Data' /\ UNCHANGED <<default, remote, store, made, imported, stale>>
    BY <1>1, <1>7, MergeHand DEF MergeRead, store
  <1>8. QED
    BY <1>2, <1>3, <1>4, <1>5, <1>6, <1>7 DEF Start

\* The steps of a request.
LEMMA StepCases ==
  ASSUME NEW r \in Requests, Step(r) \/ Stop(r)
  PROVE  Reads(r) \/ Writes(r) \/ MergeCommit(r)
  BY DEF Step, Reads, Writes

\* What the steps do besides.
LEMMA StepRest ==
  ASSUME TypeOK, Sound, NEW r \in Requests, Step(r) \/ Stop(r)
  PROVE  /\ copy' \in [Copies -> Keys \cup {None}] /\ made' \in [Copies -> Rows \cup {None}]
         /\ shaken' \subseteq Customers /\ imported' \subseteq Customers /\ stale' \subseteq Rows
         /\ shaken \subseteq shaken' /\ imported \subseteq imported' /\ begun' = begun
         /\ touched' \subseteq touched /\ visits' = visits
  <1>1. /\ copy \in [Copies -> Keys \cup {None}] /\ made \in [Copies -> Rows \cup {None}]
        /\ shaken \subseteq Customers /\ imported \subseteq Customers /\ stale \subseteq Rows
        /\ Sane(req[r]) /\ req[r].row \in Rows \cup {None} /\ req[r].key \in Keys \cup {None}
        /\ req[r].pc \notin {"idle"} => req[r].cust \in Customers
    BY HandTypes DEF TypeOK, Sane
  <1>2. CASE UNCHANGED <<store, history, begun>>
    BY <1>1, <1>2 DEF history, store
  <1>3. CASE PushNothing(r) \/ MarkSynced(r) \/ Stop(r) \/ Set(r) \/ Delete(r) \/ MergeCommit(r)
    <2>1. req[r].pc # "idle" /\ (req[r].pc = "merge" => req[r].op \in Customers)
          /\ (req[r].pc \in {"push", "synced"} => req[r].row \in Rows)
      BY <1>1, <1>3 DEF PushNothing, MarkSynced, Stop, Set, Delete, MergeCommit, At, Sane, store
    <2>2. QED
      BY <1>1, <1>3, <2>1 DEF PushNothing, MarkSynced, Stop, Set, Delete, MergeCommit, At, store
  <1>4. CASE PushUpdate(r) \/ \E X \in SUBSET Copies, x \in Copies \cup {None} : PushCreate(r, X, x)
    <2>1. req[r].row \in Rows
      BY <1>1, <1>4 DEF PushUpdate, PushCreate, At, Sane, store
    <2>2. QED
      BY <1>1, <1>4, <2>1 DEF PushUpdate, PushCreate, history, store
  <1>5. CASE Erase(r)
    BY <1>1, <1>5 DEF Erase, Erased, history, store
  <1>6. CASE \E a \in Rows, isDefault \in BOOLEAN : ImportEntry(r, a, isDefault)
    BY <1>1, <1>6 DEF ImportEntry, At, store
  <1>7. QED
    BY <1>2, <1>3, <1>4, <1>5, <1>6
    DEF Step, Count, Edit, Clear, NextDefault, ReadEntry, FetchNext, TieEntry, SkipEntry, BookDone,
        ImportOrders, EnsureSomeDefault, MergeRefused, history, store

\* An import that finds no record changes nothing.
Still == UNCHANGED <<rowVars, store, req, history>>

LEMMA NextCases ==
  ASSUME TypeOK, Sound, [Next]_vars
  PROVE  \/ Still /\ begun' \in 0 .. MaxRequests
         \/ \E r \in Requests : Start(r) \/ Step(r) \/ Stop(r)
         \/ Website
  <1>1. ASSUME NEW r \in Requests, NoRecords(r)
        PROVE  Still /\ begun' \in 0 .. MaxRequests
    <2>1. req' = req /\ shaken' = shaken
      <3>1. req[r] = Idle /\ req \in [Requests -> Hands]
        BY <1>1, HandTypes DEF NoRecords, Begin, At, Sane
      <3>2. req' = [req EXCEPT ![r] = Idle]
        BY <1>1, IdleShape DEF NoRecords, Begin, Become
      <3>3. {c \in {Idle.cust, Idle.op} \cap Customers : \E p \in Requests : Serves(p, c)} = {}
        BY IdleShape, NoneApart
      <3>4. shaken' = shaken
        BY <1>1, <3>3 DEF NoRecords, Begin
      <3>5. QED
        BY <3>1, <3>2, <3>4
    <2>2. QED
      BY <1>1, <2>1, AddressesAssumption
      DEF NoRecords, Begin, Still, history, TypeOK, AddressesAssumption
  <1>2. CASE UNCHANGED vars
    BY <1>2 DEF vars, Still, TypeOK
  <1>3. QED
    BY <1>1, <1>2 DEF Next

LEMMA SoundKept ==
  ASSUME TypeOK, Sound, [Next]_vars
  PROVE  TypeOK' /\ Sound'
  <1>1. CASE Still /\ begun' \in 0 .. MaxRequests
    <2>1. TypeOK'
      BY <1>1 DEF Still, rowVars, history, TypeOK, store
    <2>2. Sound'
      BY <1>1 DEF Still, rowVars, Sound, store
    <2>3. QED
      BY <2>1, <2>2
  <1>2. ASSUME NEW r \in Requests, Start(r) PROVE TypeOK' /\ Sound'
    <2>1. /\ Turn(r) /\ Sane(req'[r]) /\ begun' \in 0 .. MaxRequests /\ Data'
          /\ shaken' \subseteq Customers /\ UNCHANGED <<store, made, imported, stale>>
      BY <1>2, StartHand DEF Begun, TypeOK
    <2>2. QED
      BY <2>1, TypeFrom DEF TypeOK, store
  <1>3. ASSUME NEW r \in Requests, Step(r) \/ Stop(r) PROVE TypeOK' /\ Sound'
    <2>1. /\ copy' \in [Copies -> Keys \cup {None}] /\ made' \in [Copies -> Rows \cup {None}]
          /\ shaken' \subseteq Customers /\ imported' \subseteq Customers /\ stale' \subseteq Rows
          /\ begun' \in 0 .. MaxRequests /\ touched' \subseteq Copies /\ visits' \in 0 .. MaxVisits
      BY <1>3, StepRest DEF TypeOK
    <2>2. Turn(r) /\ Sane(req'[r]) /\ Data'
      <3>1. CASE Reads(r)
        BY <3>1, ReadsHand, DataNow DEF rowVars, Data
      <3>2. CASE Writes(r)
        BY <3>2, WritesHand
      <3>3. CASE MergeCommit(r)
        BY <3>3, EndHand, MergeData DEF MergeCommit, store
      <3>4. QED
        BY <1>3, <3>1, <3>2, <3>3, StepCases
    <2>3. QED
      BY <2>1, <2>2, TypeFrom
  <1>4. ASSUME Website PROVE TypeOK' /\ Sound'
    <2>1. copy' \in [Copies -> Keys \cup {None}] /\ touched' \subseteq Copies
      BY <1>4 DEF Website, WebsiteSave, WebsiteEdit, WebsiteRemove, Erased, TypeOK
    <2>2. visits' \in 0 .. MaxVisits
      BY <1>4, AddressesAssumption DEF Website, TypeOK, AddressesAssumption
    <2>3. TypeOK'
      BY <1>4, <2>1, <2>2 DEF Website, TypeOK, rowVars, history
    <2>4. Sound'
      BY <1>4 DEF Website, Sound, rowVars, store
    <2>5. QED
      BY <2>3, <2>4
  <1>5. QED
    BY <1>1, <1>2, <1>3, <1>4, NextCases

LEMMA SoundAtFirst ==
  ASSUME Init
  PROVE  TypeOK /\ Sound
  <1>1. req \in [Requests -> Hands] /\ \A r \in Requests : Sane(req[r])
    BY IdleShape, IdleSane DEF Init
  <1>2. begun \in 0 .. MaxRequests /\ visits \in 0 .. MaxVisits
    BY AddressesAssumption DEF Init, AddressesAssumption
  <1>3. QED
    BY <1>1, <1>2, NoneApart DEF Init, TypeOK, Sound, Hands

\* Theorem: the variables stay within their types, a customer never has an address twice,
\* and no two addresses are tied to one copy, for any number of overlapping requests.
THEOREM TypeCorrect == Spec => []TypeOK
  <1>1. Init => TypeOK /\ Sound
    BY SoundAtFirst
  <1>2. TypeOK /\ Sound /\ [Next]_vars => (TypeOK /\ Sound)'
    BY SoundKept
  <1>3. QED
    BY <1>1, <1>2, PTL DEF Spec

(***************************************************************************)
(* Whose addresses a request has in hand                                   *)
(***************************************************************************)

\* A request with q in hand is about the addresses of c.
About(q, c) == q.cust = c \/ (q.pc = "merge" /\ q.op = c)

\* The rows it has in hand.
InHand(q) == {a \in Rows : a = q.row \/ a \in q.saw \cup q.drop}

\* Nobody but one request is about the addresses of a customer who is not shaken.
AloneInv ==
  \A c \in Customers \ shaken : \A p, q \in Requests :
    About(req[p], c) /\ About(req[q], c) => p = q

\* What a request has in hand is its customer's still, or both customers are shaken.
Held(a, c) == owner[a] = c \/ (c \in shaken /\ owner[a] \in shaken \cup {None})
HeldInv == \A p \in Requests : \A a \in InHand(req[p]) : Held(a, req[p].cust)

\* A step goes on for the same customer, with rows it had in hand or that are his.
Onward(n, q) ==
  \/ n = Idle
  \/ /\ n.cust = q.cust /\ n.op = q.op /\ q.pc # "merge"
     /\ n.pc \notin {"idle", "count", "edit", "delete", "merge"}
     /\ InHand(n) \subseteq InHand(q) \cup Of(q.cust)

LEMMA GoesOnward ==
  ASSUME NEW n \in Hands, NEW q \in Hands, NEW row, NEW rem, NEW saw, NEW book,
         Goes(n, q, row, rem, saw, book), q.pc # "merge",
         n.pc \notin {"idle", "count", "edit", "delete", "merge"},
         row = q.row \/ row \in Of(q.cust) \/ row = None,
         saw \subseteq q.saw \cup Of(q.cust)
  PROVE  Onward(n, q)
  BY NoneApart DEF Onward, Goes, InHand

LEMMA StepHand ==
  ASSUME TypeOK, Sound, NEW r \in Requests, Step(r) \/ Stop(r)
  PROVE  Turn(r) /\ Sane(req'[r]) /\ req[r].pc # "idle" /\ Onward(req'[r], req[r])
  <1> DEFINE q == req[r]
  <1>1. q \in Hands
    BY HandTypes
  <1>2. Turn(r) /\ Sane(req'[r])
    <2>1. CASE MergeCommit(r)
      BY <2>1, EndHand DEF MergeCommit, store
    <2>2. QED
      BY <2>1, StepCases, ReadsHand, WritesHand
  <1>3. req'[r] \in Hands
    BY <1>2 DEF Turn
  <1>4. q.pc # "idle"
    BY DEF Step, Stop, Count, Edit, Clear, Set, PushNothing, PushUpdate, PushCreate, MarkSynced,
           Delete, NextDefault, Erase, ReadEntry, FetchNext, ImportEntry, TieEntry, SkipEntry, BookDone,
           ImportOrders, EnsureSomeDefault, MergeRefused, MergeCommit, At, store
  <1>5. SUFFICES Onward(req'[r], q)
    BY <1>2, <1>4
  <1>6. CASE Return(r)
    BY <1>6, EndHand DEF Onward
  <1>7. CASE Count(r)
    <2>1. q.pc = "count" /\ req'[r].pc \in {"clear", "push"}
      BY <1>7, CountHand DEF Count, At, store
    <2>2. QED
      BY <1>1, <1>3, <1>7, <2>1, CountHand, GoesOnward
  <1>8. CASE Edit(r)
    <2>1. q.pc = "edit"
      BY <1>8 DEF Edit, At, store
    <2>2. CASE req'[r] = Idle
      BY <2>2 DEF Onward
    <2>3. CASE req'[r] # Idle
      BY <1>1, <1>3, <1>8, <2>1, <2>3, EditHand, GoesOnward
    <2>4. QED
      BY <2>2, <2>3
  <1>9. CASE Clear(r)
    <2>1. q.pc = "clear" /\ default \cap Of(q.cust) \subseteq q.saw \cup Of(q.cust)
      BY <1>9 DEF Clear, At, store
    <2>2. QED
      BY <1>1, <1>3, <1>9, <2>1, ClearHand, GoesOnward
  <1>10. CASE Set(r)
    <2>1. q.pc = "set" /\ AfterDefault(r) \in {"push", "erase", "idle"}
      BY <1>10 DEF Set, At, AfterDefault, store
    <2>2. CASE req'[r] = Idle
      BY <2>2 DEF Onward
    <2>3. CASE req'[r] # Idle
      BY <1>1, <1>2, <1>3, <1>10, <2>1, <2>3, SetHand, GoesOnward DEF Sane
    <2>4. QED
      BY <2>2, <2>3
  <1>11. CASE PushUpdate(r)
    <2>1. q.pc = "push"
      BY <1>11 DEF PushUpdate, At, store
    <2>2. QED
      BY <1>1, <1>3, <1>11, <2>1, PushUpdateHand, GoesOnward
  <1>12. ASSUME NEW X \in SUBSET Copies, NEW x \in Copies \cup {None}, PushCreate(r, X, x)
         PROVE  Onward(req'[r], q)
    <2>1. q.pc = "push"
      BY <1>12 DEF PushCreate, At, store
    <2>2. CASE x = None
      BY <1>12, <2>2, PushCreateHand DEF Onward
    <2>3. CASE x # None
      BY <1>1, <1>3, <1>12, <2>1, <2>3, PushCreateHand, GoesOnward
    <2>4. QED
      BY <2>2, <2>3
  <1>13. CASE Delete(r)
    <2>1. q.pc = "delete"
      BY <1>13 DEF Delete, At, store
    <2>2. CASE owner[q.row] = None
      BY <1>13, <2>2, DeleteHand DEF Onward
    <2>3. CASE owner[q.row] # None
      <3>1. req'[r].pc \in {"next", "erase"} /\ Goes(req'[r], q, None, q.rem, q.saw, q.book)
        BY <1>13, <2>3, DeleteHand
      <3>2. QED
        BY <1>1, <1>3, <2>1, <3>1, GoesOnward
    <2>4. QED
      BY <2>2, <2>3
  <1>14. CASE NextDefault(r)
    <2>1. q.pc = "next"
      BY <1>14 DEF NextDefault, At, store
    <2>2. QED
      BY <1>1, <1>3, <1>14, <2>1, NextHand, GoesOnward
  <1>15. ASSUME NEW x \in Copies, NEW k \in Keys, ReadEntry(r, x, k) PROVE Onward(req'[r], q)
    <2>1. q.pc = "book"
      BY <1>15 DEF ReadEntry, At, store
    <2>2. PICK a \in Of(q.cust) \cup {None}, rem \in Copies \cup {None},
              book \in SUBSET (Copies \X Keys) :
            Goes(req'[r], q, a, rem, q.saw, book) /\ req'[r].pc \in {"book", "entry"}
      <3>1. q.rem \in Copies \cup {None} /\ q.book \ {<<x, k>>} \in SUBSET (Copies \X Keys)
        BY HandTypes
      <3>2. QED
        BY <1>15, <3>1, ReadEntryHand DEF Found
    <2>3. QED
      BY <1>1, <1>3, <2>1, <2>2, GoesOnward
  <1>16. ASSUME NEW flag \in BOOLEAN, NextEntry(r, flag), q.pc = "entry" PROVE Onward(req'[r], q)
    <2>1. Goes(req'[r], q, None, None, q.saw, q.book) /\ req'[r].pc = "book"
      BY <1>16, EntryHand
    <2>2. QED
      BY <1>1, <1>3, <1>16, <2>1, GoesOnward
  <1>17. CASE SkipEntry(r) \/ TieEntry(r) \/ \E a \in Rows, isDefault \in BOOLEAN : ImportEntry(r, a, isDefault)
    <2>1. q.flag \in BOOLEAN
      BY <1>1 DEF Hands
    <2>2. \A isDefault \in BOOLEAN : (q.flag /\ ~isDefault) \in BOOLEAN
      OBVIOUS
    <2>3. q.pc = "entry" /\ \E flag \in BOOLEAN : NextEntry(r, flag)
      BY <1>17, <2>1, <2>2 DEF SkipEntry, TieEntry, ImportEntry, At, store
    <2>4. QED
      BY <1>16, <2>3
  <1>18. CASE BookDone(r)
    <2>1. q.pc = "book"
      BY <1>18 DEF BookDone, At, store
    <2>2. QED
      BY <1>1, <1>3, <1>18, <2>1, BookDoneHand, GoesOnward
  <1>19. CASE \E k \in OrderAddresses, a \in Rows : ImportOrders(r, k, a)
    <2>1. q.pc = "orders" /\ Goes(req'[r], q, None, q.rem, q.saw, q.book) /\ req'[r].pc = "ensure"
      BY <1>19, OrdersHand DEF ImportOrders, At, store
    <2>2. QED
      BY <1>1, <1>3, <2>1, GoesOnward
  <1>20. CASE EnsureSomeDefault(r)
    <2>1. q.pc = "ensure"
      BY <1>20 DEF EnsureSomeDefault, At, store
    <2>2. CASE req'[r] = Idle
      BY <2>2 DEF Onward
    <2>3. CASE req'[r] # Idle
      BY <1>1, <1>3, <1>20, <2>1, <2>3, EnsureHand, GoesOnward
    <2>4. QED
      BY <2>2, <2>3
  <1>21. ASSUME NEW X \in SUBSET Copies, FetchNext(r, X) PROVE Onward(req'[r], q)
    <2>1. q.pc = "book" /\ req'[r].pc = "book" /\ Goes(req'[r], q, None, q.rem, q.saw, Fetched(X))
      BY <1>21, FetchNextHand
    <2>2. QED
      BY <1>1, <1>3, <2>1, GoesOnward
  <1>22. QED
    BY <1>6, <1>7, <1>8, <1>9, <1>10, <1>11, <1>12, <1>13, <1>14, <1>15, <1>17, <1>18, <1>19, <1>20,
       <1>21
    DEF Step, Stop, PushNothing, MarkSynced, Erase, MergeRefused, MergeCommit, store

LEMMA OnwardAbout ==
  ASSUME NEW n, NEW q, Onward(n, q), NEW c \in Customers, About(n, c)
  PROVE  About(q, c)
  BY IdleShape, NoneApart DEF Onward, About

LEMMA BegunAbout ==
  ASSUME NEW r \in Requests, NEW h \in Hands, Begun(r, h)
  PROVE  /\ \A c : About(req'[r], c) <=> About(h, c)
         /\ InHand(req'[r]) = InHand(h)
         /\ \A c \in Customers \ shaken', p \in Requests : About(h, c) => ~About(req[p], c)
         /\ shaken \subseteq shaken'
         /\ \A p \in Requests \ {r} : req'[p] = req[p]
  BY DEF Begun, Kept, Turn, About, InHand, Serves

LEMMA AloneKept ==
  ASSUME TypeOK, Sound, AloneInv, [Next]_vars
  PROVE  AloneInv'
  <1>1. CASE Still
    BY <1>1 DEF Still, history, AloneInv, store
  <1>2. ASSUME NEW r \in Requests, Start(r) PROVE AloneInv'
    <2>1. PICK h \in Hands : Begun(r, h)
      BY <1>2, StartHand
    <2>2. SUFFICES ASSUME NEW c \in Customers \ shaken', NEW p \in Requests, NEW q \in Requests,
                          About(req'[p], c), About(req'[q], c)
                   PROVE  p = q
      BY DEF AloneInv
    <2>3. QED
      BY <2>1, <2>2, BegunAbout DEF AloneInv
  <1>3. ASSUME NEW r \in Requests, Step(r) \/ Stop(r) PROVE AloneInv'
    <2>1. Turn(r) /\ Onward(req'[r], req[r]) /\ shaken \subseteq shaken'
      BY <1>3, StepHand, StepRest
    <2>2. SUFFICES ASSUME NEW c \in Customers \ shaken', NEW p \in Requests, NEW q \in Requests,
                          About(req'[p], c), About(req'[q], c)
                   PROVE  p = q
      BY DEF AloneInv
    <2>3. About(req[p], c) /\ About(req[q], c)
      BY <2>1, <2>2, OnwardAbout DEF Turn
    <2>4. QED
      BY <2>1, <2>3 DEF AloneInv
  <1>4. ASSUME Website PROVE AloneInv'
    BY <1>4 DEF Website, history, AloneInv, store
  <1>5. QED
    BY <1>1, <1>2, <1>3, <1>4, NextCases

\* The steps that change whose a row is.
LEMMA OwnerCases ==
  ASSUME TypeOK, Sound, NEW r \in Requests, Step(r) \/ Stop(r)
  PROVE  \/ UNCHANGED owner
         \/ /\ req'[r].pc # "idle" /\ InHand(req'[r]) = {}
            /\ \E a \in Free : owner' = [owner EXCEPT ![a] = req[r].cust]
         \/ Delete(r) /\ owner[req[r].row] # None /\ owner' = [owner EXCEPT ![req[r].row] = None]
         \/ MergeCommit(r)
  <1>1. Sane(req'[r])
    BY StepHand
  <1>2. CASE Reads(r)
    BY <1>2, ReadsHand DEF rowVars
  <1>3. CASE MergeCommit(r)
    BY <1>3
  <1>4. CASE Writes(r)
    <2>1. CASE Edit(r) \/ Set(r) \/ MarkSynced(r) \/ TieEntry(r)
      BY <2>1 DEF Edit, Set, MarkSynced, TieEntry, store
    <2>2. CASE Delete(r)
      BY <2>2 DEF Delete, rowVars, store
    <2>3. ASSUME NEW a \in Rows, NEW isDefault \in BOOLEAN, ImportEntry(r, a, isDefault)
          PROVE  /\ req'[r].pc = "book"
                 /\ a \in Free /\ owner' = [owner EXCEPT ![a] = req[r].cust]
      <3>1. (req[r].flag /\ ~isDefault) \in BOOLEAN /\ req[r].pc = "entry"
        BY <2>3 DEF ImportEntry, At, store
      <3>2. NextEntry(r, req[r].flag /\ ~isDefault)
        BY <2>3 DEF ImportEntry, store
      <3>3. req'[r].pc = "book"
        BY <3>1, <3>2, EntryHand
      <3>4. QED
        BY <2>3, <3>3 DEF ImportEntry, store
    <2>4. ASSUME NEW k \in OrderAddresses, NEW a \in Rows, ImportOrders(r, k, a)
          PROVE  /\ req'[r].pc = "ensure"
                 /\ UNCHANGED owner \/ (a \in Free /\ owner' = [owner EXCEPT ![a] = req[r].cust])
      BY <2>4, OrdersHand DEF ImportOrders, store
    <2>5. req'[r].pc \in {"book", "ensure"} => InHand(req'[r]) = {}
      BY <1>1, NoneApart, StepHand DEF Sane, InHand
    <2>6. QED
      BY <1>4, <2>1, <2>2, <2>3, <2>4, <2>5 DEF Writes
  <1>5. QED
    BY <1>2, <1>3, <1>4, StepCases

\* A row that is free is in nobody's hand.
LEMMA FreeRow ==
  ASSUME NEW a \in Free, NEW p \in Requests
  PROVE  a \in Rows /\ owner[a] = None /\ a \notin InHand(req[p])
  BY DEF Free, InHand

\* A row in the hands of two requests: they are the same, or the customers are shaken.
LEMMA HeldTwice ==
  ASSUME TypeOK, Sound, AloneInv, HeldInv, NEW p \in Requests, NEW r \in Requests, p # r,
         NEW a \in InHand(req[p]) \cap InHand(req[r])
  PROVE  req[p].cust \in shaken /\ owner[a] \in shaken \cup {None}
  <1>1. req[p].cust \in Customers /\ req[r].cust \in Customers
    BY HandTypes, IdleShape, NoneApart DEF Sane, InHand
  <1>2. Held(a, req[p].cust) /\ Held(a, req[r].cust)
    BY DEF HeldInv
  <1>3. req[p].cust = req[r].cust => req[p].cust \in shaken
    BY <1>1 DEF AloneInv, About
  <1>4. QED
    BY <1>1, <1>2, <1>3, NoneApart DEF Held

LEMMA HeldKept ==
  ASSUME TypeOK, Sound, AloneInv, HeldInv, [Next]_vars
  PROVE  HeldInv'
  <1>1. CASE Still
    BY <1>1 DEF Still, rowVars, history, HeldInv, Held, store
  <1>2. ASSUME NEW r \in Requests, Start(r) PROVE HeldInv'
    <2>1. SUFFICES \E h \in Hands :
                     /\ Begun(r, h)
                     /\ \A a \in InHand(h) : owner'[a] = h.cust
                     /\ \A a \in Rows : \/ owner'[a] = owner[a]
                                        \/ \A p \in Requests : a \notin InHand(req[p])
      <3>1. PICK h \in Hands :
              /\ Begun(r, h)
              /\ \A a \in InHand(h) : owner'[a] = h.cust
              /\ \A a \in Rows : \/ owner'[a] = owner[a]
                                 \/ \A p \in Requests : a \notin InHand(req[p])
        BY <2>1
      <3>2. SUFFICES ASSUME NEW p \in Requests, NEW a \in InHand(req'[p])
                     PROVE  \/ owner'[a] = req'[p].cust
                            \/ req'[p].cust \in shaken' /\ owner'[a] \in shaken' \cup {None}
        BY DEF HeldInv, Held
      <3>3. CASE p = r
        BY <3>1, <3>2, <3>3, BegunAbout DEF Begun, Kept
      <3>4. CASE p # r
        <4>1. req'[p] = req[p] /\ shaken \subseteq shaken'
          BY <3>1, <3>4, BegunAbout
        <4>2. a \in InHand(req[p]) /\ a \in Rows
          BY <3>2, <4>1 DEF InHand
        <4>3. owner'[a] = owner[a]
          BY <3>1, <4>2
        <4>4. QED
          BY <4>1, <4>2, <4>3 DEF HeldInv, Held
      <3>5. QED
        BY <3>3, <3>4
    <2>2. ASSUME NEW c \in Customers, NEW k \in Keys, NEW a \in Rows, NEW asked \in BOOLEAN,
                 Create(r, c, k, a, asked)
          PROVE  \E h \in Hands :
                   /\ Begun(r, h)
                   /\ \A b \in InHand(h) : owner'[b] = h.cust
                   /\ \A b \in Rows : \/ owner'[b] = owner[b]
                                      \/ \A p \in Requests : b \notin InHand(req[p])
      <3>1. PICK h \in Hands : Begun(r, h) /\ h.cust = c /\ h.row = a /\ h.saw = {} /\ h.drop = {}
        BY <2>2, CreateHand
      <3>2. owner' = [owner EXCEPT ![a] = c] /\ owner \in [Rows -> Customers \cup {None}]
        BY <2>2 DEF Create, TypeOK, store
      <3>3. owner[a] = c \/ \A p \in Requests : a \notin InHand(req[p])
        BY <2>2, FreeRow DEF Create, Found, Of, store
      <3>4. QED
        BY <3>1, <3>2, <3>3 DEF InHand
    <2>3. ASSUME UNCHANGED rowVars, NEW h \in Hands, Begun(r, h),
                 \A a \in InHand(h) : owner[a] = h.cust
          PROVE  \E g \in Hands :
                   /\ Begun(r, g)
                   /\ \A a \in InHand(g) : owner'[a] = g.cust
                   /\ \A a \in Rows : \/ owner'[a] = owner[a]
                                      \/ \A p \in Requests : a \notin InHand(req[p])
      BY <2>3 DEF rowVars
    <2>4. ASSUME NEW a \in Rows, NEW k \in Keys, NEW asked \in BOOLEAN, UpdateRead(r, a, k, asked)
          PROVE  UNCHANGED rowVars /\ \E h \in Hands : Begun(r, h) /\ \A b \in InHand(h) : owner[b] = h.cust
      <3>1. PICK h \in Hands : Begun(r, h) /\ h.cust = owner[a] /\ h.row = a /\ h.saw = {} /\ h.drop = {}
        BY <2>4, UpdateHand
      <3>2. \A b \in InHand(h) : owner[b] = h.cust
        BY <3>1, NoneApart DEF InHand
      <3>3. UNCHANGED rowVars
        BY <2>4 DEF UpdateRead, store
      <3>4. QED
        BY <3>1, <3>2, <3>3
    <2>5. ASSUME NEW a \in Rows, SetDefault(r, a) \/ RemoveRead(r, a)
          PROVE  UNCHANGED rowVars /\ \E h \in Hands : Begun(r, h) /\ \A b \in InHand(h) : owner[b] = h.cust
      <3>1. PICK h \in Hands : Begun(r, h) /\ h.cust = owner[a] /\ h.row = a /\ h.saw = {} /\ h.drop = {}
        BY <2>5, SetDefaultHand, RemoveHand
      <3>2. \A b \in InHand(h) : owner[b] = h.cust
        BY <3>1, NoneApart DEF InHand
      <3>3. UNCHANGED rowVars
        BY <2>5 DEF SetDefault, RemoveRead, store
      <3>4. QED
        BY <3>1, <3>2, <3>3
    <2>6. ASSUME NEW c \in Customers, NEW X \in SUBSET Copies, FetchBook(r, c, X)
          PROVE  UNCHANGED rowVars /\ \E h \in Hands : Begun(r, h) /\ \A b \in InHand(h) : owner[b] = h.cust
      <3>1. PICK h \in Hands : Begun(r, h) /\ h.row = None /\ h.saw = {} /\ h.drop = {}
        BY <2>6, FetchHand
      <3>2. \A b \in InHand(h) : owner[b] = h.cust
        BY <3>1, NoneApart DEF InHand
      <3>3. UNCHANGED rowVars
        BY <2>6 DEF FetchBook, store
      <3>4. QED
        BY <3>1, <3>2, <3>3
    <2>7. ASSUME NEW c \in Customers, PastOrders(r, c)
          PROVE  UNCHANGED rowVars /\ \E h \in Hands : Begun(r, h) /\ \A b \in InHand(h) : owner[b] = h.cust
      <3>1. PICK h \in Hands : Begun(r, h) /\ h.row = None /\ h.saw = {} /\ h.drop = {}
        BY <2>7, PastHand
      <3>2. \A b \in InHand(h) : owner[b] = h.cust
        BY <3>1, NoneApart DEF InHand
      <3>3. UNCHANGED rowVars
        BY <2>7 DEF PastOrders, store
      <3>4. QED
        BY <3>1, <3>2, <3>3
    <2>8. ASSUME NEW s \in Customers, NEW t \in Customers, MergeRead(r, s, t)
          PROVE  UNCHANGED rowVars /\ \E h \in Hands : Begun(r, h) /\ \A b \in InHand(h) : owner[b] = h.cust
      <3>1. PICK h \in Hands : Begun(r, h) /\ h.cust = s /\ h.row = None /\ h.saw \subseteq Of(s) /\ h.drop = Dropped(s, t)
        BY <2>8, MergeHand
      <3>2. \A b \in InHand(h) : owner[b] = h.cust
        BY <3>1, NoneApart DEF InHand, Of, Dropped
      <3>3. UNCHANGED rowVars
        BY <2>8 DEF MergeRead, store
      <3>4. QED
        BY <3>1, <3>2, <3>3
    <2>9. QED
      BY <1>2, <2>2, <2>3, <2>4, <2>5, <2>6, <2>7, <2>8 DEF Start
  <1>3. ASSUME NEW r \in Requests, Step(r) \/ Stop(r) PROVE HeldInv'
    <2>1. Turn(r) /\ Onward(req'[r], req[r]) /\ shaken \subseteq shaken' /\ req[r].pc # "idle"
      BY <1>3, StepHand, StepRest
    <2>2. ASSUME NEW p \in Requests, NEW a \in InHand(req'[p])
          PROVE  /\ a \in Rows /\ Held(a, req[p].cust) /\ req'[p].cust = req[p].cust
                 /\ req'[p].pc # "idle" /\ (p # r => a \in InHand(req[p]))
      <3>1. a \in Rows /\ req'[p] # Idle
        BY <2>2, IdleShape, NoneApart DEF InHand
      <3>2. CASE p = r
        <4>1. req'[r].cust = req[r].cust /\ a \in InHand(req[r]) \cup Of(req[r].cust)
              /\ req'[r].pc # "idle"
          BY <2>1, <2>2, <3>1, <3>2 DEF Onward
        <4>2. QED
          BY <3>1, <3>2, <4>1 DEF HeldInv, Held, Of
      <3>3. CASE p # r
        <4>1. req'[p] = req[p]
          BY <2>1, <3>3 DEF Turn
        <4>2. Sane(req[p])
          BY DEF Sound
        <4>3. QED
          BY <2>2, <3>1, <4>1, <4>2 DEF HeldInv, Sane, InHand
      <3>4. QED
        BY <3>2, <3>3
    <2>3. SUFFICES ASSUME NEW p \in Requests, NEW a \in InHand(req'[p])
                   PROVE  \/ owner'[a] = req[p].cust
                          \/ req[p].cust \in shaken' /\ owner'[a] \in shaken' \cup {None}
      BY <2>2 DEF HeldInv, Held
    <2>4. a \in Rows /\ Held(a, req[p].cust) /\ owner \in [Rows -> Customers \cup {None}]
      BY <2>2 DEF TypeOK
    <2>5. CASE owner'[a] = owner[a]
      BY <2>1, <2>4, <2>5 DEF Held
    <2>6. CASE owner'[a] # owner[a] /\ p = r
      <3>1. req'[r] # Idle /\ InHand(req'[r]) # {}
        BY <2>3, <2>6, IdleShape, NoneApart DEF InHand
      <3>2. CASE MergeCommit(r)
        BY <3>1, <3>2, EndHand DEF MergeCommit, store
      <3>3. CASE Delete(r) /\ owner[req[r].row] # None /\ owner' = [owner EXCEPT ![req[r].row] = None]
        <4>1. a = req[r].row
          BY <2>4, <2>6, <3>3
        <4>2. /\ Goes(req'[r], req[r], None, req[r].rem, req[r].saw, req[r].book)
              /\ Sane(req[r]) /\ req[r].pc = "delete"
          BY <3>3, DeleteHand, HandTypes DEF Delete, At, store
        <4>3. QED
          BY <2>3, <2>6, <4>2, NoneApart DEF Goes, Sane, InHand
      <3>4. QED
        BY <1>3, <2>6, <3>1, <3>2, <3>3, OwnerCases
    <2>7. CASE owner'[a] # owner[a] /\ p # r
      <3>1. a \in InHand(req[p])
        BY <2>2, <2>7
      <3>2. ASSUME a \in InHand(req[r])
            PROVE  req[p].cust \in shaken /\ owner[a] \in shaken \cup {None}
        BY <2>7, <3>1, <3>2, HeldTwice
      <3>3. CASE MergeCommit(r)
        <4>1. /\ req[r].drop \subseteq Rows /\ req[r].cust \in Customers
              /\ a \in InHand(req[r]) /\ owner'[a] \in {None, req[r].op}
          BY <2>4, <2>7, <3>3, HandTypes DEF MergeCommit, Moved, InHand, At, Sane, store
        <4>2. req[p].cust \in shaken /\ owner[a] \in shaken \cup {None} /\ Held(a, req[r].cust)
          BY <3>2, <4>1 DEF HeldInv
        <4>3. owner[a] = None \/ req[r].cust \in shaken
          BY <4>2 DEF Held
        <4>4. owner[a] = None => owner'[a] = None
          BY <2>4, <3>3 DEF MergeCommit, Moved, store
        <4>5. req[r].cust \in shaken => shaken' = shaken \cup {req[r].op}
          BY <3>3 DEF MergeCommit, store
        <4>6. QED
          BY <2>1, <4>1, <4>2, <4>3, <4>4, <4>5
      <3>4. CASE Delete(r) /\ owner[req[r].row] # None /\ owner' = [owner EXCEPT ![req[r].row] = None]
        <4>1. a = req[r].row /\ owner'[a] = None
          BY <2>4, <2>7, <3>4
        <4>2. QED
          BY <2>1, <2>4, <3>2, <4>1 DEF InHand
      <3>5. ASSUME NEW b \in Free, owner' = [owner EXCEPT ![b] = req[r].cust] PROVE FALSE
        BY <2>4, <2>7, <3>1, <3>5, FreeRow
      <3>6. QED
        BY <1>3, <2>7, <3>3, <3>4, <3>5, OwnerCases
    <2>8. QED
      BY <2>5, <2>6, <2>7
  <1>4. ASSUME Website PROVE HeldInv'
    BY <1>4 DEF Website, rowVars, history, HeldInv, Held, store
  <1>5. QED
    BY <1>1, <1>2, <1>3, <1>4, NextCases

(***************************************************************************)
(* A request leaves alone the addresses of those it is not about           *)
(***************************************************************************)

Untouched(c) ==
  \A a \in Rows :
    /\ owner'[a] = c <=> owner[a] = c
    /\ owner[a] = c =>
         /\ a \in default' <=> a \in default
         /\ key'[a] = key[a] /\ remote'[a] = remote[a]

LEMMA NotHeld ==
  ASSUME HeldInv, NEW r \in Requests, NEW c \in Customers \ shaken, ~About(req[r], c),
         NEW a \in InHand(req[r])
  PROVE  owner[a] # c
  BY NoneApart DEF HeldInv, Held, About

LEMMA Aside ==
  ASSUME TypeOK, Sound, HeldInv, NEW r \in Requests, Step(r) \/ Stop(r),
         NEW c \in Customers \ shaken', ~About(req[r], c)
  PROVE  Untouched(c)
  <1> DEFINE q == req[r]
  <1>1. c \in Customers \ shaken /\ Sane(q) /\ q \in Hands /\ c # None
    BY HandTypes, StepRest, NoneApart
  <1>2. \A a \in InHand(q) : owner[a] # c
    BY <1>1, NotHeld
  <1>3. q.row \in Rows => owner[q.row] # c
    BY <1>2 DEF InHand
  <1>4. CASE UNCHANGED rowVars
    BY <1>4 DEF rowVars, Untouched
  <1>5. /\ owner \in [Rows -> Customers \cup {None}] /\ key \in [Rows -> Keys \cup {None}]
        /\ remote \in [Rows -> Copies \cup {None}]
    BY DEF TypeOK
  <1>6. CASE Edit(r)
    <2>1. UNCHANGED <<owner, default, remote>> /\ \A a \in Rows \ {q.row} : key'[a] = key[a]
      BY <1>5, <1>6 DEF Edit, store
    <2>2. QED
      BY <1>3, <2>1 DEF Untouched
  <1>7. CASE Set(r)
    <2>1. UNCHANGED <<owner, key, remote>>
      BY <1>7 DEF Set, store
    <2>2. \A a \in Rows : a # q.row /\ a \notin q.saw => (a \in default' <=> a \in default)
      BY <1>7 DEF Set, Cleared, store
    <2>3. QED
      BY <1>2, <2>1, <2>2 DEF Untouched, InHand
  <1>8. CASE MarkSynced(r) \/ TieEntry(r)
    <2>1. UNCHANGED <<owner, key, default>> /\ \A a \in Rows \ {q.row} : remote'[a] = remote[a]
      BY <1>5, <1>8 DEF MarkSynced, TieEntry, Synced, store
    <2>2. QED
      BY <1>3, <2>1 DEF Untouched
  <1>9. CASE Delete(r)
    <2>1. q.row \in Rows
      BY <1>1, <1>9 DEF Delete, At, Sane, store
    <2>2. CASE owner[q.row] = None
      BY <1>4, <1>9, <2>2 DEF Delete, store
    <2>3. CASE owner[q.row] # None
      <3>1. /\ owner' = [owner EXCEPT ![q.row] = None] /\ key' = [key EXCEPT ![q.row] = None]
            /\ remote' = [remote EXCEPT ![q.row] = None] /\ default' = default \ {q.row}
        BY <1>9, <2>3 DEF Delete, store
      <3> HIDE DEF q
      <3>2. QED
        BY <1>1, <1>3, <1>5, <2>1, <3>1 DEF Untouched
    <2>4. QED
      BY <2>2, <2>3
  <1>10. ASSUME NEW a \in Free, NEW k, NEW x, NEW D \in SUBSET {a}, q.cust # c,
                owner' = [owner EXCEPT ![a] = q.cust], key' = [key EXCEPT ![a] = k],
                remote' = [remote EXCEPT ![a] = x], default' = default \cup D
         PROVE  Untouched(c)
    <2>1. a \in Rows /\ owner[a] = None
      BY DEF Free
    <2> HIDE DEF q
    <2>2. QED
      BY <1>1, <1>5, <1>10, <2>1 DEF Untouched
  <1>11. q.cust # c
    BY DEF About
  <1>12. ASSUME NEW a \in Rows, NEW isDefault \in BOOLEAN, ImportEntry(r, a, isDefault)
         PROVE  Untouched(c)
    <2>1. /\ a \in Free /\ owner' = [owner EXCEPT ![a] = q.cust] /\ key' = [key EXCEPT ![a] = q.key]
          /\ remote' = [remote EXCEPT ![a] = q.rem]
          /\ default' = default \cup (IF isDefault THEN {a} ELSE {})
      BY <1>12 DEF ImportEntry, store
    <2>2. (IF isDefault THEN {a} ELSE {}) \in SUBSET {a}
      OBVIOUS
    <2>3. QED
      BY <1>10, <1>11, <2>1, <2>2
  <1>13. ASSUME NEW k \in OrderAddresses, NEW a \in Rows, ImportOrders(r, k, a)
         PROVE  Untouched(c)
    <2>1. CASE UNCHANGED <<owner, key>>
      BY <1>4, <1>13, <2>1 DEF ImportOrders, rowVars, store
    <2>2. CASE ~UNCHANGED <<owner, key>>
      <3>1. /\ a \in Free /\ owner' = [owner EXCEPT ![a] = q.cust] /\ key' = [key EXCEPT ![a] = k]
            /\ UNCHANGED <<default, remote>>
        BY <1>13, <2>2 DEF ImportOrders, store
      <3>2. remote' = [remote EXCEPT ![a] = remote[a]] /\ default' = default \cup {}
        BY <1>5, <3>1
      <3>3. QED
        BY <1>10, <1>11, <3>1, <3>2
    <2>3. QED
      BY <2>1, <2>2
  <1>14. CASE MergeCommit(r)
    <2>1. /\ q.pc = "merge" /\ q.op # c /\ q.saw \subseteq Rows /\ q.drop \subseteq Rows
      BY <1>1, <1>14 DEF MergeCommit, At, About, Hands, store
    <2>2. \A a \in Moved(r) \cup q.drop : a \in Rows /\ owner[a] # c
      BY <1>2, <2>1 DEF Moved, InHand
    <2>3. \A a \in Rows :
            /\ owner'[a] = IF a \in q.drop THEN None ELSE IF a \in Moved(r) THEN q.op ELSE owner[a]
            /\ a \notin q.drop => key'[a] = key[a] /\ remote'[a] = remote[a]
            /\ a \notin Moved(r) \cup q.drop => (a \in default' <=> a \in default)
      BY <1>14 DEF MergeCommit, store
    <2> HIDE DEF q
    <2>4. QED
      BY <1>1, <2>1, <2>2, <2>3 DEF Untouched
  <1>15. QED
    BY <1>4, <1>6, <1>7, <1>8, <1>9, <1>12, <1>13, <1>14, StepCases, ReadsHand DEF Writes

LEMMA AsideStart ==
  ASSUME TypeOK, Sound, NEW r \in Requests, Start(r), NEW c \in Customers, ~About(req'[r], c)
  PROVE  Untouched(c)
  <1>1. CASE UNCHANGED rowVars
    BY <1>1 DEF rowVars, Untouched
  <1>2. ASSUME NEW d \in Customers, NEW k \in Keys, NEW a \in Rows, NEW asked \in BOOLEAN,
               Create(r, d, k, a, asked)
        PROVE  Untouched(c)
    <2>1. d # c
      BY <1>2, CreateHand DEF Begun, Kept, About
    <2>2. UNCHANGED <<default, remote>>
      BY <1>2 DEF Create, store
    <2>3. CASE UNCHANGED <<owner, key>>
      BY <1>1, <2>2, <2>3 DEF rowVars
    <2>4. CASE /\ Found(d, k) = {} /\ a \in Free
               /\ owner' = [owner EXCEPT ![a] = d] /\ key' = [key EXCEPT ![a] = k]
      <3>1. owner[a] = None /\ c # None
        BY <2>4, NoneApart DEF Free
      <3>2. QED
        BY <2>1, <2>2, <2>4, <3>1 DEF Untouched, TypeOK
    <2>5. QED
      BY <1>2, <2>3, <2>4, CreateData
  <1>3. QED
    BY <1>1, <1>2 DEF Start, UpdateRead, SetDefault, RemoveRead, FetchBook, PastOrders, MergeRead, store

\* While another request takes a step, what this one is about stays as it is.
LEMMA Bystander ==
  ASSUME TypeOK, Sound, AloneInv, HeldInv, AloneInv', NEW r \in Requests, Start(r) \/ Step(r) \/ Stop(r),
         NEW p \in Requests, p # r, NEW c \in Customers \ shaken', About(req[p], c)
  PROVE  req'[p] = req[p] /\ Untouched(c)
  <1>1. CASE Start(r)
    <2>1. req'[p] = req[p]
      BY <1>1, StartHand, BegunAbout
    <2>2. ~About(req'[r], c)
      BY <2>1 DEF AloneInv
    <2>3. QED
      BY <1>1, <2>1, <2>2, AsideStart
  <1>2. CASE Step(r) \/ Stop(r)
    <2>1. req'[p] = req[p] /\ shaken \subseteq shaken'
      BY <1>2, StepHand, StepRest DEF Turn
    <2>2. ~About(req[r], c)
      BY <2>1 DEF AloneInv
    <2>3. QED
      BY <1>2, <2>1, <2>2, Aside
  <1>3. QED
    BY <1>1, <1>2

LEMMA OfUntouched ==
  ASSUME NEW c, Untouched(c)
  PROVE  /\ {a \in Rows : owner'[a] = c} = Of(c)
         /\ {a \in Rows : owner'[a] = c} \cap default' = Of(c) \cap default
  BY DEF Untouched, Of

(***************************************************************************)
(* What remove and the merge have read still stands when they write        *)
(***************************************************************************)

ReadStill(q) ==
  /\ q.pc = "delete" /\ q.cust \notin shaken => (q.flag <=> q.row \in default)
  /\ q.pc = "merge" /\ q.cust \notin shaken => Of(q.cust) = q.saw \cup q.drop
  /\ q.pc = "merge" /\ q.op \notin shaken =>
       /\ q.flag <=> Of(q.op) # {}
       /\ q.drop # {} => Of(q.op) # {}
ReadInv == \A p \in Requests : ReadStill(req[p])

LEMMA ReadKept ==
  ASSUME TypeOK, Sound, AloneInv, HeldInv, AloneInv', ReadInv, [Next]_vars
  PROVE  ReadInv'
  <1>1. CASE UNCHANGED <<rowVars, req, shaken>>
    BY <1>1 DEF rowVars, ReadInv, ReadStill, Of
  <1>2. ASSUME NEW r \in Requests, Start(r) \/ Step(r) \/ Stop(r), NEW p \in Requests, p # r
        PROVE  ReadStill(req[p])' /\ req'[p] = req[p]
    <2> DEFINE q == req[p]
    <2>1. \A c \in Customers \ shaken' : About(q, c) => Untouched(c)
      BY <1>2, Bystander
    <2>2. req'[p] = q /\ shaken \subseteq shaken'
      BY <1>2, StartHand, BegunAbout, StepHand, StepRest DEF Turn
    <2>3. Sane(q) /\ ReadStill(q) /\ \A a \in InHand(q) : Held(a, q.cust)
      BY DEF Sound, ReadInv, HeldInv
    <2> HIDE DEF q
    <2>4. ASSUME q.pc = "delete", q.cust \notin shaken' PROVE q.flag <=> q.row \in default'
      <3>1. q.row \in Rows /\ q.cust \in Customers /\ q.cust \notin shaken
        BY <2>2, <2>3, <2>4 DEF Sane
      <3>2. owner[q.row] = q.cust
        BY <2>3, <3>1 DEF InHand, Held
      <3>3. q.row \in default' <=> q.row \in default
        BY <2>1, <2>4, <3>1, <3>2 DEF About, Untouched
      <3>4. QED
        BY <2>3, <2>4, <3>1, <3>3 DEF ReadStill
    <2>5. ASSUME q.pc = "merge", q.cust \notin shaken'
          PROVE  {a \in Rows : owner'[a] = q.cust} = q.saw \cup q.drop
      BY <2>1, <2>2, <2>3, <2>5, OfUntouched DEF About, Sane, ReadStill
    <2>6. ASSUME q.pc = "merge", q.op \notin shaken'
          PROVE  /\ q.flag <=> {a \in Rows : owner'[a] = q.op} # {}
                 /\ q.drop # {} => {a \in Rows : owner'[a] = q.op} # {}
      BY <2>1, <2>2, <2>3, <2>6, OfUntouched DEF About, Sane, ReadStill
    <2>7. QED
      BY <2>2, <2>4, <2>5, <2>6 DEF ReadStill, Of, q
  <1>3. ASSUME NEW r \in Requests, Start(r) PROVE ReadStill(req[r])'
    <2>1. PICK n : n = req'[r]
      OBVIOUS
    <2>2. CASE n.pc \notin {"delete", "merge"}
      BY <2>1, <2>2 DEF ReadStill
    <2>3. ASSUME NEW a \in Rows, RemoveRead(r, a) PROVE ReadStill(req[r])'
      <3>1. n.pc = "delete" /\ n.row = a /\ n.flag = (a \in default)
        BY <2>1, <2>3, RemoveHand DEF Begun, Kept
      <3>2. UNCHANGED rowVars
        BY <2>3 DEF RemoveRead, store
      <3>3. n.flag <=> n.row \in default'
        BY <3>1, <3>2 DEF rowVars
      <3>4. QED
        BY <2>1, <3>1, <3>3 DEF ReadStill
    <2>4. ASSUME NEW s \in Customers, NEW t \in Customers, MergeRead(r, s, t)
          PROVE  ReadStill(req[r])'
      <3>1. /\ n.pc = "merge" /\ n.cust = s /\ n.op = t /\ n.saw = Of(s) \ Dropped(s, t)
            /\ n.drop = Dropped(s, t) /\ n.flag = (Of(t) # {})
        BY <2>1, <2>4, MergeHand DEF Begun, Kept
      <3>2. Dropped(s, t) \subseteq Of(s) /\ (Dropped(s, t) # {} => Of(t) # {}) /\ UNCHANGED rowVars
        BY <2>4 DEF Dropped, Found, MergeRead, store
      <3>3. Of(s)' = Of(s) /\ Of(t)' = Of(t)
        BY <3>2 DEF Of, rowVars
      <3>4. QED
        BY <2>1, <3>1, <3>2, <3>3 DEF ReadStill
    <2>5. n.pc \in {"delete", "merge"} =>
            \/ \E a \in Rows : RemoveRead(r, a)
            \/ \E s, t \in Customers : MergeRead(r, s, t)
      <3>1. ASSUME NEW c \in Customers, NEW k \in Keys, NEW a \in Rows, NEW asked \in BOOLEAN,
                   Create(r, c, k, a, asked)
            PROVE  n.pc = "count"
        BY <2>1, <3>1, CreateHand DEF Begun, Kept
      <3>2. ASSUME NEW a \in Rows, NEW k \in Keys, NEW asked \in BOOLEAN, UpdateRead(r, a, k, asked)
            PROVE  n.pc = "edit"
        BY <2>1, <3>2, UpdateHand DEF Begun, Kept
      <3>3. ASSUME NEW a \in Rows, SetDefault(r, a) PROVE n.pc = "clear"
        BY <2>1, <3>3, SetDefaultHand DEF Begun, Kept
      <3>4. ASSUME NEW c \in Customers, NEW X \in SUBSET Copies, FetchBook(r, c, X) PROVE n.pc = "book"
        BY <2>1, <3>4, FetchHand DEF Begun, Kept
      <3>5. ASSUME NEW c \in Customers, PastOrders(r, c) PROVE n.pc = "orders"
        BY <2>1, <3>5, PastHand DEF Begun, Kept
      <3>6. QED
        BY <1>3, <3>1, <3>2, <3>3, <3>4, <3>5 DEF Start
    <2>6. QED
      BY <2>2, <2>3, <2>4, <2>5
  <1>4. ASSUME NEW r \in Requests, Step(r) \/ Stop(r) PROVE ReadStill(req[r])'
    <2>1. PICK n : n = req'[r]
      OBVIOUS
    <2>2. n.pc \notin {"delete", "merge"}
      BY <1>4, <2>1, StepHand, IdleShape DEF Onward
    <2>3. QED
      BY <2>1, <2>2 DEF ReadStill
  <1>5. QED
    <2>1. CASE Still
      BY <1>1, <2>1 DEF Still, history, store
    <2>2. ASSUME Website PROVE ReadInv'
      BY <1>1, <2>2 DEF Website, history, store
    <2>3. ASSUME NEW r \in Requests, Start(r) \/ Step(r) \/ Stop(r) PROVE ReadInv'
      BY <1>2, <1>3, <1>4, <2>3 DEF ReadInv
    <2>4. QED
      BY <2>1, <2>2, <2>3, NextCases

(***************************************************************************)
(* A customer with addresses has a default                                 *)
(***************************************************************************)

\* A request that is still to see to it.
Waits == {"clear", "set", "next", "book", "entry", "orders", "ensure"}
Waiting(q) ==
  \/ q.pc \in Waits
  \/ q.pc = "count" /\ (q.flag \/ Of(q.cust) = {q.row})

Covered(c) ==
  \/ Of(c) = {}
  \/ Of(c) \cap default # {}
  \/ \E p \in Requests : req[p].cust = c /\ Waiting(req[p])
SomeInv == \A c \in Customers \ shaken : Covered(c)

\* The one request about a customer's addresses does not see to it: it is done.
LEMMA NotWaiting ==
  ASSUME AloneInv, NEW c \in Customers \ shaken, Covered(c),
         NEW r \in Requests, About(req[r], c), ~Waiting(req[r])
  PROVE  Of(c) = {} \/ Of(c) \cap default # {}
  BY DEF AloneInv, Covered, About

\* The customers that a step is not about.
LEMMA CoveredAside ==
  ASSUME NEW r \in Requests, NEW c \in Customers, Untouched(c), ~About(req[r], c), Covered(c),
         \A p \in Requests \ {r} : req'[p] = req[p]
  PROVE  Covered(c)'
  <1>1. Of(c)' = Of(c) /\ (Of(c) \cap default)' = Of(c) \cap default
    BY OfUntouched DEF Of
  <1>2. CASE Of(c) = {} \/ Of(c) \cap default # {}
    BY <1>1, <1>2 DEF Covered
  <1>3. CASE \E p \in Requests : req[p].cust = c /\ Waiting(req[p])
    <2>1. PICK p \in Requests : req[p].cust = c /\ Waiting(req[p])
      BY <1>3
    <2>2. p # r
      BY <2>1 DEF About
    <2> DEFINE q == req[p]
    <2>3. req'[p] = q
      BY <2>2
    <2>4. (q.pc = "count" /\ Of(q.cust) = {q.row}) => {a \in Rows : owner'[a] = q.cust} = {q.row}
      BY <1>1, <2>1 DEF Of
    <2> HIDE DEF q
    <2>5. Waiting(req[p])'
      BY <2>1, <2>3, <2>4 DEF Waiting, Of, q
    <2>6. QED
      BY <2>1, <2>3, <2>5 DEF Covered, q
  <1>4. QED
    BY <1>2, <1>3 DEF Covered

LEMMA SomeStart ==
  ASSUME TypeOK, Sound, AloneInv, SomeInv, NEW r \in Requests, Start(r), NEW c \in Customers \ shaken'
  PROVE  Covered(c)'
  <1>1. PICK h \in Hands : Begun(r, h) /\ h.pc # "idle"
    BY StartHand
  <1>2. /\ shaken \subseteq shaken' /\ ~About(req[r], c)
        /\ \A p \in Requests \ {r} : req'[p] = req[p]
    BY <1>1, BegunAbout, IdleShape, NoneApart DEF Begun, About
  <1>3. CASE ~About(req'[r], c)
    BY <1>2, <1>3, AsideStart, CoveredAside DEF SomeInv
  <1>4. CASE About(req'[r], c)
    <2>1. Covered(c) /\ \A p \in Requests : ~About(req[p], c)
      BY <1>1, <1>2, <1>4, BegunAbout DEF SomeInv
    <2>2. Of(c) = {} \/ Of(c) \cap default # {}
      BY <2>1 DEF Covered, About
    <2>3. CASE UNCHANGED rowVars
      BY <2>2, <2>3 DEF Covered, Of, rowVars
    <2>4. ASSUME NEW d \in Customers, NEW k \in Keys, NEW a \in Rows, NEW asked \in BOOLEAN,
                 Create(r, d, k, a, asked)
          PROVE  Covered(c)'
      <3>1. PICK n : n = req'[r]
        OBVIOUS
      <3>2. n.pc = "count" /\ n.cust = d /\ n.row = a /\ UNCHANGED <<default, remote>>
        <4>1. n.pc = "count" /\ n.cust = d /\ n.row = a
          BY <2>4, <3>1, CreateHand DEF Begun, Kept
        <4>2. QED
          BY <2>4, <4>1 DEF Create, store
      <3>3. d = c
        BY <1>4, <3>1, <3>2 DEF About
      <3>4. CASE UNCHANGED <<owner, key>>
        BY <2>3, <3>2, <3>4 DEF rowVars
      <3>5. CASE owner' = [owner EXCEPT ![a] = d]
        <4>1. \A b \in Rows : owner'[b] = IF b = a THEN c ELSE owner[b]
          BY <3>3, <3>5 DEF TypeOK
        <4>2. CASE Of(c) = {}
          <5>1. {b \in Rows : owner'[b] = n.cust} = {n.row}
            BY <3>2, <3>3, <4>1, <4>2 DEF Of
          <5>2. Waiting(req[r])'
            BY <3>1, <3>2, <5>1 DEF Waiting, Of
          <5>3. QED
            BY <3>1, <3>2, <3>3, <5>2 DEF Covered
        <4>3. CASE Of(c) \cap default # {}
          BY <3>2, <4>1, <4>3 DEF Covered, Of
        <4>4. QED
          BY <2>2, <4>2, <4>3
      <3>6. QED
        BY <2>4, <3>4, <3>5, CreateData
    <2>5. QED
      BY <2>3, <2>4
      DEF Start, UpdateRead, SetDefault, RemoveRead, FetchBook, PastOrders, MergeRead, store
  <1>5. QED
    BY <1>3, <1>4

LEMMA SomeStep ==
  ASSUME TypeOK, Sound, AloneInv, HeldInv, ReadInv, SomeInv, NEW r \in Requests, Step(r) \/ Stop(r),
         NEW c \in Customers \ shaken'
  PROVE  Covered(c)'
  <1> DEFINE q == req[r]
  <1>1. /\ Turn(r) /\ Sane(req'[r]) /\ Onward(req'[r], q) /\ q.pc # "idle"
        /\ Sane(q) /\ ReadStill(q) /\ c \in Customers \ shaken /\ Covered(c)
        /\ \A a \in InHand(q) : Held(a, q.cust)
    BY StepHand, StepRest DEF Sound, ReadInv, SomeInv, HeldInv
  <1>2. CASE ~About(q, c)
    BY <1>1, <1>2, Aside, CoveredAside DEF Turn
  <1>3. CASE About(q, c) /\ UNCHANGED <<owner, default>> /\ ~Waiting(q)
    <2>1. Of(c) = {} \/ Of(c) \cap default # {}
      BY <1>1, <1>3, NotWaiting
    <2>2. QED
      BY <1>3, <2>1 DEF Covered, Of
  <1>4. CASE q.cust = c /\ req'[r].pc \in Waits
    <2>1. PICK n : n = req'[r]
      OBVIOUS
    <2>2. n.cust = c
      BY <1>1, <1>4, <2>1, IdleShape DEF Onward, Waits
    <2>3. Waiting(req[r])'
      BY <1>4, <2>1 DEF Waiting
    <2>4. QED
      BY <2>1, <2>2, <2>3 DEF Covered
  <1>5. SUFFICES ASSUME About(q, c), ~(UNCHANGED <<owner, default>> /\ ~Waiting(q)),
                        ~(q.cust = c /\ req'[r].pc \in Waits)
                 PROVE  Covered(c)'
    BY <1>2, <1>3, <1>4
  <1>6. q.pc \notin Waits \cup {"count"} => ~Waiting(q)
    BY DEF Waiting
  <1>7. q.pc # "merge" => q.cust = c
    BY <1>5 DEF About
  <1>8. CASE Reads(r)
    <2>1. UNCHANGED <<owner, default>>
      BY <1>8, ReadsHand DEF rowVars
    <2>2. q.pc \in Waits \cup {"count"} /\ q.cust = c
      BY <1>5, <1>6, <1>7, <2>1 DEF Waits
    <2>3. CASE Stop(r)
      BY <2>2, <2>3 DEF Stop, store
    <2>4. CASE Count(r)
      <3>1. q.pc = "count" /\ ~ShouldBeDefault(r)
        BY <1>5, <2>2, <2>4, CountHand DEF Count, At, Waits, store
      <3>2. ~Waiting(q)
        <4>1. \A a : Of(c) = {a} => Cardinality(Of(c)) = 1
          BY FS_Singleton
        <4>2. QED
          BY <2>2, <3>1, <4>1 DEF Waiting, ShouldBeDefault, Waits
      <3>3. QED
        BY <1>5, <2>1, <3>2
    <2>5. CASE Clear(r)
      BY <1>5, <2>2, <2>5, ClearHand DEF Waits
    <2>6. CASE NextDefault(r)
      <3>1. Of(c) = {}
        BY <1>5, <2>2, <2>6, NextHand DEF Waits
      <3>2. QED
        BY <2>1, <3>1 DEF Covered, Of
    <2>7. ASSUME NEW x \in Copies, NEW k \in Keys, ReadEntry(r, x, k) PROVE Covered(c)'
      BY <1>5, <2>2, <2>7, ReadEntryHand DEF Waits
    <2>8. CASE SkipEntry(r)
      <3>1. q.flag \in BOOLEAN
        BY HandTypes DEF Hands
      <3>2. req'[r].pc = "book"
        BY <2>8, <3>1, EntryHand DEF SkipEntry, At, store
      <3>3. QED
        BY <1>5, <2>2, <3>2 DEF Waits
    <2>9. CASE BookDone(r)
      BY <1>5, <2>2, <2>9, BookDoneHand DEF Waits
    <2>10. CASE EnsureSomeDefault(r)
      <3>1. Of(c) \cap default # {} \/ Of(c) = {}
        BY <1>5, <2>2, <2>10, EnsureHand DEF Waits
      <3>2. QED
        BY <2>1, <3>1 DEF Covered, Of
    <2>11. ASSUME NEW X \in SUBSET Copies, FetchNext(r, X) PROVE Covered(c)'
      BY <1>5, <2>2, <2>11, FetchNextHand DEF Waits
    <2>12. QED
      BY <1>8, <2>2, <2>3, <2>4, <2>5, <2>6, <2>7, <2>8, <2>9, <2>10, <2>11
      DEF Reads, PushNothing, PushUpdate, PushCreate, Erase, MergeRefused, At, Waits, store
  <1>9. CASE Writes(r)
    <2>1. CASE Edit(r) \/ MarkSynced(r)
      BY <1>5, <1>6, <2>1 DEF Edit, MarkSynced, At, Waits, store
    <2>2. CASE Set(r)
      <3>1. q.cust = c /\ q.row \in Rows /\ q.pc = "set"
        BY <1>1, <1>7, <2>2 DEF Set, At, Sane, store
      <3>2. owner[q.row] = c
        BY <1>1, <3>1 DEF InHand, Held
      <3>3. q.row \in default' /\ owner'[q.row] = c
        BY <2>2, <3>2, NoneApart DEF Set, store
      <3>4. QED
        BY <3>1, <3>3 DEF Covered, Of
    <2>3. CASE Delete(r)
      <3>1. q.cust = c /\ q.row \in Rows /\ q.pc = "delete" /\ ~Waiting(q)
        BY <1>1, <1>6, <1>7, <2>3 DEF Delete, At, Sane, Waits, store
      <3>2. owner[q.row] = c
        BY <1>1, <3>1 DEF InHand, Held
      <3>3. /\ owner' = [owner EXCEPT ![q.row] = None] /\ default' = default \ {q.row} /\ ~q.flag
        BY <1>5, <2>3, <3>1, <3>2, NoneApart, DeleteHand DEF Delete, Waits, store
      <3>4. q.row \notin default
        BY <1>1, <3>1, <3>3 DEF ReadStill
      <3>5. Of(c) = {} \/ Of(c) \cap default # {}
        BY <1>1, <1>5, <3>1, NotWaiting
      <3> HIDE DEF q
      <3>6. \A a \in Rows : owner'[a] = IF a = q.row THEN None ELSE owner[a]
        BY <3>3 DEF TypeOK
      <3>7. QED
        BY <3>1, <3>3, <3>4, <3>5, <3>6, NoneApart DEF Covered, Of
    <2>4. ASSUME NEW a \in Rows, NEW isDefault \in BOOLEAN, ImportEntry(r, a, isDefault)
          PROVE  Covered(c)'
      <3>1. (q.flag /\ ~isDefault) \in BOOLEAN /\ q.pc = "entry"
        BY <2>4 DEF ImportEntry, At, store
      <3>2. NextEntry(r, q.flag /\ ~isDefault)
        BY <2>4 DEF ImportEntry, store
      <3>3. req'[r].pc = "book"
        BY <3>1, <3>2, EntryHand
      <3>4. QED
        BY <1>5, <1>7, <3>1, <3>3 DEF Waits
    <2>5. CASE TieEntry(r)
      <3>1. q.flag \in BOOLEAN
        BY HandTypes DEF Hands
      <3>2. req'[r].pc = "book" /\ q.pc = "entry"
        BY <2>5, <3>1, EntryHand DEF TieEntry, At, store
      <3>3. QED
        BY <1>5, <1>7, <3>2 DEF Waits
    <2>6. ASSUME NEW k \in OrderAddresses, NEW a \in Rows, ImportOrders(r, k, a)
          PROVE  Covered(c)'
      <3>1. req'[r].pc = "ensure" /\ q.pc = "orders"
        BY <2>6, OrdersHand DEF ImportOrders, At, store
      <3>2. QED
        BY <1>5, <1>7, <3>1 DEF Waits
    <2>7. QED
      BY <1>9, <2>1, <2>2, <2>3, <2>4, <2>5, <2>6 DEF Writes
  <1>10. CASE MergeCommit(r)
    <2> DEFINE s == q.cust
               t == q.op
    <2>1. /\ q.pc = "merge" /\ s \in Customers /\ t \in Customers /\ s # t /\ ~Waiting(q)
          /\ q.saw \subseteq Rows /\ q.drop \subseteq Rows
      BY <1>1, <1>6, <1>10, HandTypes DEF MergeCommit, At, Sane, Waits, store
    <2>2. \A a \in Rows : owner'[a] = IF a \in q.drop THEN None
                                      ELSE IF a \in Moved(r) THEN t ELSE owner[a]
      BY <1>10 DEF MergeCommit, store
    <2>3. default' = IF q.flag THEN default \ (Moved(r) \cup q.drop) ELSE default \ q.drop
      BY <1>10 DEF MergeCommit, store
    <2>4. shaken' = IF s \in shaken THEN shaken \cup {t} ELSE shaken
      BY <1>10 DEF MergeCommit, store
    <2>5. Moved(r) = {a \in q.saw : owner[a] # None}
      BY DEF Moved
    <2>6. CASE c = s
      <3>1. Of(s) = q.saw \cup q.drop
        BY <1>1, <2>1, <2>6 DEF ReadStill
      <3>2. \A a \in Rows : owner'[a] # s
        BY <2>1, <2>2, <2>5, <3>1, NoneApart DEF Of
      <3>3. QED
        BY <2>6, <3>2 DEF Covered, Of
    <2>7. CASE c = t
      <3>1. /\ s \notin shaken /\ t \notin shaken /\ (q.flag <=> Of(t) # {})
            /\ (q.drop # {} => Of(t) # {})
        BY <1>1, <2>1, <2>4, <2>7 DEF ReadStill
      <3>2. \A a \in q.saw \cup q.drop : a \in Rows /\ owner[a] = s
        BY <1>1, <2>1, <3>1 DEF InHand, Held
      <3>3. /\ Of(s) = q.saw \cup q.drop
            /\ Of(s) = {} \/ Of(s) \cap default # {}
            /\ Of(t) = {} \/ Of(t) \cap default # {}
        BY <1>1, <2>1, <3>1, NotWaiting DEF ReadStill, About, SomeInv
      <3>4. CASE Of(t) # {}
        <4>1. PICK a \in Of(t) \cap default : TRUE
          BY <3>3, <3>4
        <4>2. a \in Rows /\ owner[a] = t /\ a \notin q.saw \cup q.drop
          BY <2>1, <3>2, <4>1 DEF Of
        <4>3. owner'[a] = t /\ a \in default'
          BY <2>2, <2>3, <2>5, <4>1, <4>2
        <4>4. QED
          BY <2>7, <4>2, <4>3 DEF Covered, Of
      <3>5. CASE Of(t) = {} /\ Of(s) \cap default # {}
        <4>1. PICK a \in Of(s) \cap default : TRUE
          BY <3>5
        <4>2. a \in q.saw /\ a \in Rows /\ owner[a] = s /\ q.drop = {} /\ s # None
          BY <2>1, <3>1, <3>3, <3>5, <4>1, NoneApart DEF Of
        <4>3. owner'[a] = t /\ a \in default'
          BY <2>2, <2>3, <2>5, <3>1, <3>5, <4>1, <4>2
        <4>4. QED
          BY <2>7, <4>2, <4>3 DEF Covered, Of
      <3>6. CASE Of(t) = {} /\ Of(s) = {}
        <4>1. \A a \in Rows : owner'[a] # t
          BY <2>1, <2>2, <2>5, <3>3, <3>6 DEF Of
        <4>2. QED
          BY <2>7, <4>1 DEF Covered, Of
      <3>7. QED
        BY <3>3, <3>4, <3>5, <3>6
    <2>8. QED
      BY <1>5, <2>6, <2>7 DEF About
  <1>11. QED
    BY <1>8, <1>9, <1>10, StepCases

LEMMA SomeKept ==
  ASSUME TypeOK, Sound, AloneInv, HeldInv, ReadInv, SomeInv, [Next]_vars
  PROVE  SomeInv'
  <1>1. CASE UNCHANGED <<rowVars, req, shaken>>
    BY <1>1 DEF rowVars, SomeInv, Covered, Waiting, Of
  <1>2. CASE Still
    BY <1>1, <1>2 DEF Still, history, store
  <1>3. ASSUME Website PROVE SomeInv'
    BY <1>1, <1>3 DEF Website, history, store
  <1>4. QED
    BY <1>2, <1>3, SomeStart, SomeStep, NextCases DEF SomeInv

(***************************************************************************)
(* A customer never has two defaults, until a book is imported             *)
(***************************************************************************)

AtMostOne(c) == \A a, b \in Of(c) \cap default : a = b

\* What markDefaultLocally is about to clear is all there is to clear.
AllSeen(q) == q.pc = "set" /\ q.cust \notin shaken \cup imported => Of(q.cust) \cap default \subseteq q.saw

OneInv ==
  /\ \A c \in Customers \ (shaken \cup imported) : AtMostOne(c)
  /\ \A p \in Requests : AllSeen(req[p])

LEMMA SeenKept ==
  ASSUME TypeOK, Sound, AloneInv, HeldInv, AloneInv', OneInv, [Next]_vars
  PROVE  \A p \in Requests : AllSeen(req[p])'
  <1>1. CASE UNCHANGED <<rowVars, req, shaken, imported>>
    BY <1>1 DEF rowVars, OneInv, AllSeen, Of
  <1>2. ASSUME NEW r \in Requests, Start(r) \/ Step(r) \/ Stop(r), NEW p \in Requests, p # r
        PROVE  AllSeen(req[p])'
    <2> DEFINE q == req[p]
    <2>1. \A c \in Customers \ shaken' : About(q, c) => Untouched(c)
      BY <1>2, Bystander
    <2>2. req'[p] = q /\ shaken \subseteq shaken' /\ imported \subseteq imported'
      BY <1>2, StartHand, BegunAbout, StepHand, StepRest DEF Turn
    <2>3. Sane(q) /\ AllSeen(q)
      BY DEF Sound, OneInv
    <2> HIDE DEF q
    <2>4. ASSUME q.pc = "set", q.cust \notin shaken' \cup imported'
          PROVE  {a \in Rows : owner'[a] = q.cust} \cap default' \subseteq q.saw
      <3>1. q.cust \in Customers
        BY <2>3, <2>4 DEF Sane
      <3>2. Untouched(q.cust)
        BY <2>1, <2>4, <3>1 DEF About
      <3>3. QED
        BY <2>2, <2>3, <2>4, <3>2, OfUntouched DEF AllSeen
    <2>5. QED
      BY <2>2, <2>4 DEF AllSeen, Of, q
  <1>3. ASSUME NEW r \in Requests, Start(r) PROVE AllSeen(req[r])'
    <2>1. PICK n : n = req'[r]
      OBVIOUS
    <2>2. n.pc # "set"
      <3>1. ASSUME NEW c \in Customers, NEW k \in Keys, NEW a \in Rows, NEW asked \in BOOLEAN,
                   Create(r, c, k, a, asked)
            PROVE  n.pc = "count"
        BY <2>1, <3>1, CreateHand DEF Begun, Kept
      <3>2. ASSUME NEW a \in Rows, NEW k \in Keys, NEW asked \in BOOLEAN, UpdateRead(r, a, k, asked)
            PROVE  n.pc = "edit"
        BY <2>1, <3>2, UpdateHand DEF Begun, Kept
      <3>3. ASSUME NEW a \in Rows, SetDefault(r, a) PROVE n.pc = "clear"
        BY <2>1, <3>3, SetDefaultHand DEF Begun, Kept
      <3>4. ASSUME NEW a \in Rows, RemoveRead(r, a) PROVE n.pc = "delete"
        BY <2>1, <3>4, RemoveHand DEF Begun, Kept
      <3>5. ASSUME NEW c \in Customers, NEW X \in SUBSET Copies, FetchBook(r, c, X) PROVE n.pc = "book"
        BY <2>1, <3>5, FetchHand DEF Begun, Kept
      <3>6. ASSUME NEW c \in Customers, PastOrders(r, c) PROVE n.pc = "orders"
        BY <2>1, <3>6, PastHand DEF Begun, Kept
      <3>7. ASSUME NEW s \in Customers, NEW t \in Customers, MergeRead(r, s, t) PROVE n.pc = "merge"
        BY <2>1, <3>7, MergeHand DEF Begun, Kept
      <3>8. QED
        BY <1>3, <3>1, <3>2, <3>3, <3>4, <3>5, <3>6, <3>7 DEF Start
    <2>3. QED
      BY <2>1, <2>2 DEF AllSeen
  <1>4. ASSUME NEW r \in Requests, Step(r) \/ Stop(r) PROVE AllSeen(req[r])'
    <2>1. PICK n : n = req'[r]
      OBVIOUS
    <2>2. CASE Clear(r)
      <3>1. n.cust = req[r].cust /\ n.saw = default \cap Of(n.cust)
        BY <2>1, <2>2, ClearHand DEF Goes
      <3>2. UNCHANGED rowVars
        BY <2>2 DEF Clear, store
      <3>3. QED
        BY <2>1, <3>1, <3>2 DEF AllSeen, rowVars, Of
    <2>3. CASE ~Clear(r)
      <3>1. n.pc # "set"
        <4>1. CASE Return(r)
          BY <2>1, <4>1, EndHand, IdleShape
        <4>2. CASE Count(r)
          BY <2>1, <4>2, CountHand
        <4>3. CASE Edit(r)
          BY <2>1, <4>3, EditHand, IdleShape
        <4>4. CASE Set(r)
          BY <2>1, <4>4, SetHand, IdleShape DEF AfterDefault
        <4>5. CASE PushUpdate(r)
          BY <2>1, <4>5, PushUpdateHand
        <4>6. ASSUME NEW X \in SUBSET Copies, NEW x \in Copies \cup {None}, PushCreate(r, X, x)
              PROVE  n.pc # "set"
          BY <2>1, <4>6, PushCreateHand, IdleShape
        <4>7. CASE Delete(r)
          BY <2>1, <4>7, DeleteHand, IdleShape
        <4>8. CASE NextDefault(r)
          BY <2>1, <4>8, NextHand
        <4>9. ASSUME NEW x \in Copies, NEW k \in Keys, ReadEntry(r, x, k) PROVE n.pc # "set"
          BY <2>1, <4>9, ReadEntryHand
        <4>10. ASSUME NEW flag \in BOOLEAN, NextEntry(r, flag), req[r].pc = "entry" PROVE n.pc # "set"
          BY <2>1, <4>10, EntryHand
        <4>11. CASE SkipEntry(r) \/ TieEntry(r)
                    \/ \E a \in Rows, isDefault \in BOOLEAN : ImportEntry(r, a, isDefault)
          <5>1. req[r].flag \in BOOLEAN /\ \A isDefault \in BOOLEAN : (req[r].flag /\ ~isDefault) \in BOOLEAN
            BY HandTypes DEF Hands
          <5>2. req[r].pc = "entry" /\ \E flag \in BOOLEAN : NextEntry(r, flag)
            BY <4>11, <5>1 DEF SkipEntry, TieEntry, ImportEntry, At, store
          <5>3. QED
            BY <4>10, <5>2
        <4>12. CASE BookDone(r)
          BY <2>1, <4>12, BookDoneHand
        <4>13. ASSUME NEW k \in OrderAddresses, NEW a \in Rows, ImportOrders(r, k, a) PROVE n.pc # "set"
          BY <2>1, <4>13, OrdersHand
        <4>14. CASE EnsureSomeDefault(r)
          BY <2>1, <4>14, EnsureHand, IdleShape
        <4>15. ASSUME NEW X \in SUBSET Copies, FetchNext(r, X) PROVE n.pc # "set"
          BY <2>1, <4>15, FetchNextHand
        <4>16. QED
          BY <1>4, <2>3, <4>1, <4>2, <4>3, <4>4, <4>5, <4>6, <4>7, <4>8, <4>9, <4>11, <4>12, <4>13, <4>14,
             <4>15
          DEF Step, Stop, PushNothing, MarkSynced, Erase, MergeRefused, MergeCommit, store
      <3>2. QED
        BY <2>1, <3>1 DEF AllSeen
    <2>4. QED
      BY <2>2, <2>3
  <1>5. CASE Still
    BY <1>1, <1>5 DEF Still, history, store
  <1>6. ASSUME Website PROVE \A p \in Requests : AllSeen(req[p])'
    BY <1>1, <1>6 DEF Website, history, store
  <1>7. QED
    BY <1>2, <1>3, <1>4, <1>5, <1>6, NextCases

\* Nothing becomes a default of c's.
LEMMA NoMore ==
  ASSUME NEW c, AtMostOne(c), {a \in Rows : owner'[a] = c} \cap default' \subseteq Of(c) \cap default
  PROVE  AtMostOne(c)'
  BY DEF AtMostOne, Of

LEMMA OneStep ==
  ASSUME TypeOK, Sound, HeldInv, ReadInv, OneInv, NEW r \in Requests, Step(r) \/ Stop(r),
         NEW c \in Customers \ (shaken' \cup imported')
  PROVE  AtMostOne(c)'
  <1> DEFINE q == req[r]
             now == Of(c) \cap default
             then == {a \in Rows : owner'[a] = c} \cap default'
  <1>1. /\ Sane(q) /\ ReadStill(q) /\ AllSeen(q) /\ \A a \in InHand(q) : Held(a, q.cust)
        /\ c \in Customers \ (shaken \cup imported) /\ AtMostOne(c) /\ c # None
    BY StepRest, NoneApart DEF Sound, ReadInv, HeldInv, OneInv
  <1>2. CASE ~About(q, c)
    <2>1. then = now
      BY <1>2, Aside, OfUntouched
    <2>2. QED
      BY <1>1, <2>1, NoMore
  <1>3. CASE UNCHANGED <<owner, default>>
    BY <1>1, <1>3, NoMore DEF Of
  <1>4. CASE Set(r) /\ q.cust = c
    <2>1. q.pc = "set"
      BY <1>4 DEF Set, At, store
    <2>2. now \subseteq q.saw /\ UNCHANGED owner
      BY <1>1, <1>4, <2>1 DEF AllSeen, Set, store
    <2>3. default' = default \/ default' = (default \ q.saw) \cup {q.row}
      BY <1>4 DEF Set, Cleared, store
    <2>4. CASE default' = default
      BY <1>3, <2>2, <2>4
    <2>5. CASE default' = (default \ q.saw) \cup {q.row}
      BY <2>2, <2>5 DEF AtMostOne, Of
    <2>6. QED
      BY <2>3, <2>4, <2>5
  <1>5. CASE Delete(r)
    <2>1. \A a \in Rows : owner'[a] = c => owner[a] = c
      BY <1>1, <1>5 DEF Delete, TypeOK, rowVars, store
    <2>2. default' \subseteq default
      BY <1>5 DEF Delete, rowVars, store
    <2>3. QED
      BY <1>1, <2>1, <2>2, NoMore DEF Of
  <1>6. ASSUME NEW a \in Rows, NEW isDefault \in BOOLEAN, ImportEntry(r, a, isDefault), q.cust = c
        PROVE  FALSE
    BY <1>6 DEF ImportEntry, store
  <1>7. ASSUME NEW k \in OrderAddresses, NEW a \in Rows, ImportOrders(r, k, a), q.cust = c
        PROVE  AtMostOne(c)'
    <2>1. CASE UNCHANGED <<owner, key>>
      BY <1>3, <1>7, <2>1 DEF ImportOrders, store
    <2>2. CASE ~UNCHANGED <<owner, key>>
      <3>1. owner[a] = None /\ owner' = [owner EXCEPT ![a] = c] /\ UNCHANGED default
        BY <1>7, <2>2 DEF ImportOrders, Free, store
      <3>2. a \notin default /\ \A b \in Rows \ {a} : owner'[b] = owner[b]
        BY <3>1 DEF TypeOK
      <3>3. QED
        BY <1>1, <3>1, <3>2, NoMore DEF Of
    <2>3. QED
      BY <2>1, <2>2
  <1>8. CASE MergeCommit(r) /\ About(q, c)
    <2> DEFINE s == q.cust
               t == q.op
    <2>1. /\ q.pc = "merge" /\ s \in Customers /\ t \in Customers /\ s # t
          /\ q.saw \subseteq Rows /\ q.drop \subseteq Rows
      BY <1>1, <1>8, HandTypes DEF MergeCommit, At, Sane, store
    <2>2. \A a \in Rows : owner'[a] = IF a \in q.drop THEN None
                                      ELSE IF a \in Moved(r) THEN t ELSE owner[a]
      BY <1>8 DEF MergeCommit, store
    <2>3. default' = IF q.flag THEN default \ (Moved(r) \cup q.drop) ELSE default \ q.drop
      BY <1>8 DEF MergeCommit, store
    <2>4. /\ shaken' = IF s \in shaken THEN shaken \cup {t} ELSE shaken
          /\ imported' = IF s \in imported THEN imported \cup {t} ELSE imported
      BY <1>8 DEF MergeCommit, store
    <2>5. Moved(r) = {a \in q.saw : owner[a] # None}
      BY DEF Moved
    <2>6. CASE c = s
      <3>1. then \subseteq now
        BY <1>1, <2>1, <2>2, <2>3, <2>6 DEF Of
      <3>2. QED
        BY <1>1, <3>1, NoMore
    <2>7. CASE c = t
      <3>1. /\ s \notin shaken \cup imported /\ t \notin shaken
            /\ (q.flag <=> Of(t) # {})
        BY <1>1, <2>1, <2>4, <2>7 DEF ReadStill
      <3>2. \A a \in q.saw \cup q.drop : a \in Rows /\ owner[a] = s
        BY <1>1, <2>1, <3>1 DEF InHand, Held
      <3>3. CASE q.flag
        <4>1. then \subseteq now
          BY <1>1, <2>1, <2>2, <2>3, <2>5, <2>7, <3>2, <3>3 DEF Of
        <4>2. QED
          BY <1>1, <4>1, NoMore
      <3>4. CASE ~q.flag
        <4>1. Of(t) = {}
          BY <3>1, <3>4
        <4>2. then \subseteq Of(s) \cap default
          BY <1>1, <2>1, <2>2, <2>3, <2>5, <2>7, <3>2, <3>4, <4>1 DEF Of
        <4>3. AtMostOne(s)
          BY <2>1, <3>1 DEF OneInv
        <4>4. QED
          BY <4>2, <4>3 DEF AtMostOne, Of
      <3>5. QED
        BY <3>3, <3>4
    <2>8. QED
      BY <1>8, <2>6, <2>7 DEF About
  <1>9. About(q, c) /\ q.pc # "merge" => q.cust = c
    BY DEF About
  <1>10. CASE Writes(r) /\ q.cust = c
    BY <1>3, <1>4, <1>5, <1>6, <1>7, <1>10 DEF Writes, Edit, MarkSynced, TieEntry, store
  <1>11. CASE Reads(r)
    BY <1>3, <1>11, ReadsHand DEF rowVars
  <1>12. Writes(r) => q.pc # "merge"
    BY DEF Writes, Edit, Set, MarkSynced, Delete, ImportEntry, TieEntry, ImportOrders, At, store
  <1>13. QED
    BY <1>2, <1>8, <1>9, <1>10, <1>11, <1>12, StepCases

LEMMA OneKept ==
  ASSUME TypeOK, Sound, AloneInv, HeldInv, ReadInv, AloneInv', OneInv, [Next]_vars
  PROVE  OneInv'
  <1>1. \A p \in Requests : AllSeen(req[p])'
    BY SeenKept
  <1>2. CASE UNCHANGED <<rowVars, shaken, imported>>
    BY <1>1, <1>2 DEF rowVars, OneInv, AtMostOne, Of
  <1>3. CASE Still
    BY <1>2, <1>3 DEF Still, history, store
  <1>4. ASSUME Website PROVE OneInv'
    BY <1>2, <1>4 DEF Website, history, store
  <1>5. ASSUME NEW r \in Requests, Step(r) \/ Stop(r) PROVE OneInv'
    BY <1>1, <1>5, OneStep DEF OneInv
  <1>6. ASSUME NEW r \in Requests, Start(r) PROVE OneInv'
    <2>1. shaken \subseteq shaken' /\ UNCHANGED <<default, imported>>
      BY <1>6, StartHand, BegunAbout
    <2>2. \A a \in Rows : owner'[a] # owner[a] => owner[a] = None
      <3>1. ASSUME NEW c \in Customers, NEW k \in Keys, NEW a \in Rows, NEW asked \in BOOLEAN,
                   Create(r, c, k, a, asked)
            PROVE  \A b \in Rows : owner'[b] # owner[b] => owner[b] = None
        BY <3>1, CreateData DEF TypeOK, Free
      <3>2. CASE UNCHANGED rowVars
        BY <3>2 DEF rowVars
      <3>3. QED
        BY <1>6, <3>1, <3>2
        DEF Start, UpdateRead, SetDefault, RemoveRead, FetchBook, PastOrders, MergeRead, store
    <2>3. ASSUME NEW c \in Customers \ (shaken' \cup imported') PROVE AtMostOne(c)'
      <3>1. AtMostOne(c)
        BY <2>1 DEF OneInv
      <3>2. {a \in Rows : owner'[a] = c} \cap default' \subseteq Of(c) \cap default
        BY <2>1, <2>2 DEF TypeOK, Of
      <3>3. QED
        BY <3>1, <3>2, NoMore
    <2>4. QED
      BY <1>1, <2>3 DEF OneInv
  <1>7. QED
    BY <1>3, <1>4, <1>5, <1>6, NextCases

(***************************************************************************)
(* The theorems about defaults                                             *)
(***************************************************************************)

DefaultInv == TypeOK /\ Sound /\ AloneInv /\ HeldInv /\ ReadInv /\ SomeInv /\ OneInv

LEMMA DefaultInvHolds == Spec => []DefaultInv
  <1>1. Init => DefaultInv
    <2>1. ASSUME Init PROVE DefaultInv
      <3>1. TypeOK /\ Sound
        BY <2>1, SoundAtFirst
      <3>2. /\ \A p \in Requests : req[p] = Idle /\ InHand(req[p]) = {}
            /\ \A c \in Customers, p \in Requests : ~About(req[p], c)
        BY <2>1, IdleShape, NoneApart DEF Init, InHand, About
      <3>3. \A c \in Customers : Of(c) = {}
        BY <2>1, NoneApart DEF Init, Of
      <3>4. QED
        BY <3>1, <3>2, <3>3, IdleShape
        DEF DefaultInv, AloneInv, HeldInv, ReadInv, ReadStill, SomeInv, Covered, OneInv, AtMostOne, AllSeen
    <2>2. QED
      BY <2>1
  <1>2. DefaultInv /\ [Next]_vars => DefaultInv'
    BY SoundKept, AloneKept, HeldKept, ReadKept, SomeKept, OneKept DEF DefaultInv
  <1>3. QED
    BY <1>1, <1>2, PTL DEF Spec

\* Theorem: whatever he creates, edits, removes, imports or is merged with, a customer whose
\* requests did not overlap or end half way has a default as soon as he has addresses.
THEOREM SomeAddressIsDefault == Spec => []SomeDefault
  <1>1. ASSUME DefaultInv, NEW c \in Customers \ shaken, Quiet(c), Of(c) # {}
        PROVE  Of(c) \cap default # {}
    BY <1>1 DEF DefaultInv, SomeInv, Covered, Quiet
  <1>2. DefaultInv => SomeDefault
    BY <1>1 DEF SomeDefault
  <1>3. QED
    BY <1>2, DefaultInvHolds, PTL

\* Theorem: and he never has two, not even while a request is at work, until an address
\* book was imported.
THEOREM AtMostOneDefault == Spec => []OneDefault
  <1>1. ASSUME DefaultInv, NEW c \in Customers \ (shaken \cup imported)
        PROVE  Cardinality(Of(c) \cap default) <= 1
    <2>1. \A a, b \in Of(c) \cap default : a = b
      BY <1>1 DEF DefaultInv, OneInv, AtMostOne
    <2>2. CASE Of(c) \cap default = {}
      BY <2>2, FS_EmptySet
    <2>3. CASE Of(c) \cap default # {}
      <3>1. PICK a \in Of(c) \cap default : TRUE
        BY <2>3
      <3>2. Of(c) \cap default = {a}
        BY <2>1, <3>1
      <3>3. QED
        BY <3>2, FS_Singleton
    <2>4. QED
      BY <2>2, <2>3
  <1>2. DefaultInv => OneDefault
    BY <1>1 DEF OneDefault
  <1>3. QED
    BY <1>2, DefaultInvHolds, PTL

(***************************************************************************)
(* The store has one copy of an address, and it says what the address says *)
(***************************************************************************)

\* A row whose pushes all took effect once, of a customer who is not shaken; and a copy
\* that was made for one.
Tame(b) == b \notin stale \cup {None} /\ owner[b] \notin shaken \cup {None}
Ours(x) == made[x] # None /\ copy[x] # None /\ Tame(made[x])

Tied(x) ==
  \/ remote[made[x]] = x
  \/ \E p \in Requests : At(p, "synced") /\ req[p].row = made[x] /\ req[p].rem = x
UnderWay == {"clear", "set", "push"}
Says(x) ==
  \/ x \in touched \/ copy[x] = key[made[x]]
  \/ \E p \in Requests : req[p].row = made[x] /\ req[p].op \in Saving /\ req[p].pc \in UnderWay
NobodyElses(x) == \A a \in Rows \ {made[x]} : remote[a] # x
CopyInv == \A x \in Copies : Ours(x) => Tied(x) /\ Says(x) /\ NobodyElses(x)

MadeInv ==
  \A x \in Copies :
    made[x] # None =>
      \/ owner[made[x]] # None \/ made[x] \in stale
      \/ \E p \in Requests : At(p, "synced") /\ req[p].row = made[x]

Current(q) ==
  q.cust \notin shaken =>
    /\ q.op \in Saving /\ q.pc \in UnderWay \cup {"count"} => q.rem = remote[q.row] /\ q.key = key[q.row]
    /\ q.pc = "synced" => remote[q.row] \in {None, q.rem}
    /\ q.pc = "entry" /\ q.row # None => remote[q.row] = None
CurrentInv == \A p \in Requests : Current(req[p])

Carries(q, x) == (q.op = "sync" /\ q.rem = x) \/ (\E k \in Keys : <<x, k>> \in q.book)
Known(q, x) ==
  /\ q.rem = x /\ q.op \notin {"remove", "sync"} => q.row = made[x] /\ q.op \in Saving
  /\ Carries(q, x) => owner[made[x]] = q.cust
KnownInv == \A p \in Requests, x \in Copies : Ours(x) => Known(req[p], x)

CopiesInv == DefaultInv /\ CopyInv /\ MadeInv /\ CurrentInv /\ KnownInv

\* What is in the hands of a request is its customer's, and nobody else's.
LEMMA TameHeld ==
  ASSUME HeldInv, NEW b, Tame(b), NEW p \in Requests, b \in InHand(req[p])
  PROVE  b \in Rows /\ owner[b] = req[p].cust /\ req[p].cust \notin shaken
  BY DEF HeldInv, Held, Tame, InHand

LEMMA TameAlone ==
  ASSUME TypeOK, Sound, AloneInv, HeldInv, NEW b, Tame(b),
         NEW p \in Requests, b \in InHand(req[p]), NEW q \in Requests,
         About(req[q], owner[b])
  PROVE  p = q
  BY TameHeld DEF TypeOK, AloneInv, About, Tame

\* A copy that can be accounted for after a step, could before.
LEMMA OursBefore ==
  ASSUME TypeOK, Sound, HeldInv, MadeInv, NEW r \in Requests, Start(r) \/ Step(r) \/ Stop(r),
         NEW x \in Copies, made'[x] = made[x], copy[x] # None, Ours(x)'
  PROVE  /\ Ours(x) /\ made[x] \in Rows
         /\ \/ owner'[made[x]] = owner[made[x]]
            \/ /\ MergeCommit(r) /\ made[x] \in Moved(r) /\ owner[made[x]] = req[r].cust
               /\ req[r].cust \in Customers \ shaken'
  <1> DEFINE b == made[x]
  <1>1. /\ b \in Rows /\ b \notin stale' /\ owner'[b] # None /\ owner'[b] \notin shaken'
    BY NoneApart DEF Ours, Tame, TypeOK
  <1>2. b \notin stale /\ shaken \subseteq shaken'
    <2>1. CASE Start(r)
      BY <1>1, <2>1, StartHand, BegunAbout
    <2>2. CASE Step(r) \/ Stop(r)
      <3>1. CASE Delete(r)
        <4>1. stale' = stale \/ (stale' = stale \ {req[r].row} /\ b # req[r].row)
          BY <1>1, <3>1, NoneApart DEF Delete, store
        <4>2. QED
          BY <1>1, <2>2, <4>1, StepRest
      <3>2. CASE ~Delete(r)
        <4>1. stale \subseteq stale'
          BY <2>2, <3>2
          DEF Step, Stop, Count, Edit, Clear, Set, PushNothing, PushUpdate, PushCreate, MarkSynced,
              NextDefault, Erase, ReadEntry, FetchNext, ImportEntry, TieEntry, SkipEntry, BookDone,
              ImportOrders, EnsureSomeDefault, MergeRefused, MergeCommit, history, store
        <4>2. QED
          BY <1>1, <2>2, <4>1, StepRest
      <3>3. QED
        BY <3>1, <3>2
    <2>3. QED
      BY <2>1, <2>2
  <1>3. CASE owner'[b] = owner[b]
    BY <1>1, <1>2, <1>3, NoneApart DEF Ours, Tame
  <1>4. ASSUME b \in Free PROVE FALSE
    <2>1. owner[b] = None /\ \A p \in Requests : req[p].row # b
      BY <1>4 DEF Free
    <2>2. QED
      BY <1>1, <1>2, <2>1, NoneApart DEF MadeInv
  <1>5. ASSUME Start(r), owner'[b] # owner[b] PROVE FALSE
    <2>1. ASSUME NEW c \in Customers, NEW k \in Keys, NEW a \in Rows, NEW asked \in BOOLEAN,
                 Create(r, c, k, a, asked)
          PROVE  FALSE
      <3>1. a \in Free /\ owner' = [owner EXCEPT ![a] = c]
        BY <1>5, <2>1, CreateData
      <3>2. a = b
        BY <1>1, <1>5, <3>1 DEF TypeOK
      <3>3. QED
        BY <1>4, <3>1, <3>2
    <2>2. QED
      BY <1>5, <2>1 DEF Start, UpdateRead, SetDefault, RemoveRead, FetchBook, PastOrders, MergeRead, rowVars, store
  <1>6. ASSUME Step(r) \/ Stop(r), owner'[b] # owner[b]
        PROVE  /\ Ours(x)
               /\ MergeCommit(r) /\ b \in Moved(r) /\ owner[b] = req[r].cust
               /\ req[r].cust \in Customers \ shaken'
    <2>1. CASE Delete(r) /\ owner' = [owner EXCEPT ![req[r].row] = None]
      <3>1. owner'[b] \in {None, owner[b]}
        BY <1>1, <2>1 DEF TypeOK
      <3>2. QED
        BY <1>1, <1>6, <3>1
    <2>2. ASSUME NEW a \in Free, owner' = [owner EXCEPT ![a] = req[r].cust] PROVE FALSE
      <3>1. a = b
        BY <1>1, <1>6, <2>2 DEF TypeOK
      <3>2. QED
        BY <1>4, <3>1
    <2>3. CASE MergeCommit(r)
      <3>1. /\ req[r].pc = "merge" /\ req[r].saw \subseteq Rows /\ Sane(req[r])
            /\ b \in Moved(r) /\ owner'[b] = req[r].op
            /\ shaken' = IF req[r].cust \in shaken THEN shaken \cup {req[r].op} ELSE shaken
        BY <1>1, <1>6, <2>3, HandTypes DEF MergeCommit, At, store
      <3>2. req[r].cust \in Customers \ shaken /\ shaken' = shaken
        BY <1>1, <3>1 DEF Sane
      <3>3. owner[b] = req[r].cust
        BY <3>1, <3>2 DEF HeldInv, Held, InHand, Moved
      <3>4. QED
        BY <1>1, <1>2, <2>3, <3>1, <3>2, <3>3, NoneApart DEF Ours, Tame
    <2>4. QED
      BY <1>6, <2>1, <2>2, <2>3, OwnerCases
  <1>7. QED
    BY <1>1, <1>3, <1>5, <1>6

\* The steps that tie a row to a copy, and those that change what a row or a copy says.
LEMMA RemoteCases ==
  ASSUME TypeOK, Sound, NEW r \in Requests, Step(r) \/ Stop(r), NEW a \in Rows
  PROVE  \/ remote'[a] = remote[a] \/ owner'[a] = None
         \/ /\ MarkSynced(r) \/ TieEntry(r)
            /\ a = req[r].row /\ remote'[a] = req[r].rem
         \/ /\ req[r].pc = "entry" /\ a \in Free /\ remote'[a] = req[r].rem
            /\ RemoteFree(req[r].rem)
  <1>1. remote \in [Rows -> Copies \cup {None}] /\ owner \in [Rows -> Customers \cup {None}]
    BY DEF TypeOK
  <1>2. CASE UNCHANGED remote
    BY <1>2
  <1>3. CASE MarkSynced(r) \/ TieEntry(r)
    BY <1>1, <1>3 DEF MarkSynced, TieEntry, Synced, store
  <1>4. CASE Delete(r)
    BY <1>1, <1>4 DEF Delete, rowVars, store
  <1>5. CASE MergeCommit(r)
    BY <1>1, <1>5 DEF MergeCommit, store
  <1>6. ASSUME NEW d \in Rows, NEW isDefault \in BOOLEAN, ImportEntry(r, d, isDefault)
        PROVE  /\ d \in Free /\ remote' = [remote EXCEPT ![d] = req[r].rem] /\ req[r].pc = "entry"
               /\ RemoteFree(req[r].rem)
    BY <1>6 DEF ImportEntry, At, store
  <1>7. CASE \E d \in Rows, isDefault \in BOOLEAN : ImportEntry(r, d, isDefault)
    BY <1>1, <1>6, <1>7
  <1>8. QED
    BY <1>2, <1>3, <1>4, <1>5, <1>7, StepCases, ReadsHand
    DEF Writes, rowVars, Edit, Set, ImportOrders, store

LEMMA KeyCases ==
  ASSUME TypeOK, Sound, NEW r \in Requests, Step(r) \/ Stop(r), NEW a \in Rows
  PROVE  \/ key'[a] = key[a] \/ owner'[a] = None \/ a \in Free
         \/ /\ Edit(r) /\ a = req[r].row
            /\ req'[r].pc \in UnderWay /\ req'[r].row = a /\ req'[r].op = "update"
  <1>1. key \in [Rows -> Keys \cup {None}] /\ owner \in [Rows -> Customers \cup {None}]
    BY DEF TypeOK
  <1>2. CASE UNCHANGED key
    BY <1>2
  <1>3. CASE Edit(r)
    <2>1. req[r].op = "update"
      BY <1>3, HandTypes DEF Edit, At, Sane, store
    <2>2. QED
      BY <1>1, <1>3, <2>1, EditHand DEF Goes, UnderWay
  <1>4. CASE Delete(r)
    BY <1>1, <1>4 DEF Delete, rowVars, store
  <1>5. CASE MergeCommit(r)
    BY <1>1, <1>5 DEF MergeCommit, store
  <1>6. ASSUME NEW d \in Rows, NEW isDefault \in BOOLEAN, ImportEntry(r, d, isDefault)
        PROVE  d \in Free /\ key' = [key EXCEPT ![d] = req[r].key]
    BY <1>6 DEF ImportEntry, store
  <1>7. CASE \E d \in Rows, isDefault \in BOOLEAN : ImportEntry(r, d, isDefault)
    BY <1>1, <1>6, <1>7
  <1>8. ASSUME NEW k \in OrderAddresses, NEW d \in Rows, ImportOrders(r, k, d)
        PROVE  UNCHANGED key \/ (d \in Free /\ key' = [key EXCEPT ![d] = k])
    BY <1>8 DEF ImportOrders, store
  <1>9. CASE \E k \in OrderAddresses, d \in Rows : ImportOrders(r, k, d)
    BY <1>1, <1>8, <1>9
  <1>10. QED
    BY <1>2, <1>3, <1>4, <1>5, <1>7, <1>9, StepCases, ReadsHand
    DEF Writes, rowVars, Set, MarkSynced, TieEntry, store

LEMMA CopyCases ==
  ASSUME TypeOK, NEW r \in Requests, Step(r) \/ Stop(r), NEW x \in Copies
  PROVE  \/ copy'[x] = copy[x] \/ copy'[x] = None
         \/ /\ PushUpdate(r) /\ req[r].rem = x /\ copy[x] # None /\ copy'[x] = req[r].key
         \/ \E X \in SUBSET Copies, y \in Copies \cup {None} : PushCreate(r, X, y) /\ x \in X
  <1>1. copy \in [Copies -> Keys \cup {None}]
    BY DEF TypeOK
  <1>2. CASE UNCHANGED copy
    BY <1>2
  <1>3. CASE PushUpdate(r)
    BY <1>1, <1>3 DEF PushUpdate, store
  <1>4. ASSUME NEW X \in SUBSET Copies, NEW y \in Copies \cup {None}, PushCreate(r, X, y), x \notin X
        PROVE  copy'[x] = copy[x]
    BY <1>4 DEF PushCreate, store
  <1>5. CASE \E X \in SUBSET Copies, y \in Copies \cup {None} : PushCreate(r, X, y)
    BY <1>4, <1>5
  <1>6. CASE Erase(r)
    BY <1>1, <1>6 DEF Erase, Erased, store
  <1>7. QED
    BY <1>2, <1>3, <1>5, <1>6
    DEF Step, Stop, Count, Edit, Clear, Set, PushNothing, MarkSynced, Delete, NextDefault,
        ReadEntry, FetchNext, ImportEntry, TieEntry, SkipEntry, BookDone, ImportOrders, EnsureSomeDefault,
        MergeRefused, MergeCommit, store

\* Only the app's own writing makes up for a change at the website.
LEMMA TouchedCases ==
  ASSUME TypeOK, NEW r \in Requests, Step(r) \/ Stop(r), NEW x \in touched
  PROVE  x \in touched' \/ copy'[x] = None \/ (PushUpdate(r) /\ req[r].rem = x)
  <1>1. CASE UNCHANGED touched
    BY <1>1
  <1>2. CASE PushUpdate(r)
    BY <1>2 DEF PushUpdate
  <1>3. CASE Erase(r)
    <2>1. CASE UNCHANGED touched
      BY <2>1
    <2>2. CASE ~UNCHANGED touched
      <3>1. req[r].rem # None /\ copy' = Erased(req[r].rem) /\ touched' = touched \ {req[r].rem}
        BY <1>3, <2>2 DEF Erase, store
      <3>2. x \in Copies
        BY DEF TypeOK
      <3>3. CASE x = req[r].rem
        BY <3>1, <3>2, <3>3 DEF Erased, TypeOK
      <3>4. CASE x # req[r].rem
        BY <3>1, <3>4
      <3>5. QED
        BY <3>3, <3>4
    <2>3. QED
      BY <2>1, <2>2
  <1>4. QED
    BY <1>1, <1>2, <1>3
    DEF Step, Stop, Count, Edit, Clear, Set, PushNothing, PushCreate, MarkSynced, Delete, NextDefault,
        ReadEntry, FetchNext, ImportEntry, TieEntry, SkipEntry, BookDone, ImportOrders,
        EnsureSomeDefault, MergeRefused, MergeCommit, store

LEMMA MadeCases ==
  ASSUME TypeOK, NEW r \in Requests, Step(r) \/ Stop(r), NEW x \in Copies
  PROVE  \/ made'[x] = made[x] \/ made'[x] = None
         \/ \E X \in SUBSET Copies, y \in Copies \cup {None} :
              PushCreate(r, X, y) /\ x \in X /\ made'[x] = req[r].row
  <1>1. CASE UNCHANGED made
    BY <1>1
  <1>2. CASE Delete(r) \/ MergeCommit(r)
    BY <1>2 DEF Delete, MergeCommit, store
  <1>3. ASSUME NEW X \in SUBSET Copies, NEW y \in Copies \cup {None}, PushCreate(r, X, y)
        PROVE  made'[x] = made[x] \/ (x \in X /\ made'[x] = req[r].row)
    BY <1>3 DEF PushCreate, store
  <1>4. QED
    BY <1>1, <1>2, <1>3
    DEF Step, Stop, Count, Edit, Clear, Set, PushNothing, PushUpdate, MarkSynced, NextDefault,
        Erase, ReadEntry, FetchNext, ImportEntry, TieEntry, SkipEntry, BookDone, ImportOrders,
        EnsureSomeDefault, MergeRefused, history, store

\* The way of a push.
LEMMA PushPath ==
  ASSUME NEW r \in Requests, Step(r) \/ Stop(r)
  PROVE  /\ At(r, "clear") => Clear(r) \/ Stop(r)
         /\ At(r, "set") => Set(r) \/ Stop(r)
         /\ At(r, "push") =>
              \/ PushNothing(r) \/ PushUpdate(r) \/ Stop(r)
              \/ \E X \in SUBSET Copies, x \in Copies \cup {None} : PushCreate(r, X, x)
         /\ At(r, "synced") => MarkSynced(r) \/ Stop(r)
  BY DEF Step, Count, Edit, Clear, Set, PushNothing, PushUpdate, PushCreate, MarkSynced, Delete,
         NextDefault, Erase, ReadEntry, FetchNext, ImportEntry, TieEntry, SkipEntry, BookDone, ImportOrders,
         EnsureSomeDefault, MergeRefused, MergeCommit, At, store

\* A request that stops, or leaves a push out, leaves the row stale.
LEMMA PushLeftOut ==
  ASSUME NEW r \in Requests, Stop(r) \/ PushNothing(r), req[r].row \in Rows
  PROVE  req[r].row \in stale'
  BY NoneApart DEF Stop, PushNothing, store

\* A copy that is made for a row is the only one.
LEMMA FirstCopy ==
  ASSUME CopiesInv, NEW r \in Requests, NEW X \in SUBSET Copies, NEW y \in Copies \cup {None},
         PushCreate(r, X, y)
  PROVE  \A x \in Copies : Ours(x) => made[x] # req[r].row
  <1>1. /\ req[r].pc = "push" /\ req[r].rem = None /\ Sane(req[r]) /\ req[r].row \in Rows
        /\ req[r].op \in Saving /\ TypeOK /\ Sound /\ AloneInv /\ HeldInv
    BY DEF PushCreate, At, CopiesInv, DefaultInv, Sound, Sane, store
  <1>2. SUFFICES ASSUME NEW x \in Copies, Ours(x), made[x] = req[r].row PROVE FALSE
    OBVIOUS
  <1>3. Tame(req[r].row) /\ req[r].row \in InHand(req[r])
    BY <1>1, <1>2 DEF Ours, InHand
  <1>4. req[r].cust \notin shaken /\ owner[req[r].row] = req[r].cust
    BY <1>1, <1>3, TameHeld
  <1>5. remote[req[r].row] = None
    BY <1>1, <1>4 DEF CopiesInv, CurrentInv, Current, UnderWay
  <1>6. PICK p \in Requests : req[p].pc = "synced" /\ req[p].row = req[r].row
    BY <1>2, <1>5, NoneApart DEF CopiesInv, CopyInv, Tied, At
  <1>7. req[p].cust = req[r].cust
    BY <1>1, <1>3, <1>4, <1>6, TameHeld DEF InHand
  <1>8. p = r
    BY <1>1, <1>3, <1>4, <1>7, TameAlone DEF About
  <1>9. QED
    BY <1>1, <1>6, <1>8

\* What holds of a copy that was made by this step.
LEMMA NewCopy ==
  ASSUME CopiesInv, NEW r \in Requests, NEW X \in SUBSET Copies, NEW y \in Copies \cup {None},
         PushCreate(r, X, y), NEW x \in X, Ours(x)'
  PROVE  /\ made'[x] = req[r].row /\ req[r].row \in Rows /\ y = x
         /\ req'[r].pc = "synced" /\ req'[r].row = req[r].row /\ req'[r].rem = x
         /\ copy'[x] = key[req[r].row] /\ Unused(x) /\ UNCHANGED <<rowVars, shaken>>
         /\ req[r].op \in Saving
  <1>1. /\ req[r].pc = "push" /\ req[r].rem = None /\ Sane(req[r]) /\ req[r].row \in Rows
        /\ req[r].op \in Saving /\ TypeOK /\ Sound /\ AloneInv /\ HeldInv
    BY DEF PushCreate, At, CopiesInv, DefaultInv, Sound, Sane, store
  <1>2. /\ made'[x] = req[r].row /\ copy'[x] = req[r].key /\ Unused(x)
        /\ UNCHANGED <<rowVars, shaken>>
    BY DEF PushCreate, store
  <1>3. /\ req[r].row \notin stale' /\ owner[req[r].row] \notin shaken \cup {None}
    BY <1>2 DEF Ours, Tame, rowVars
  <1>4. X = {y} /\ stale' = stale
    BY <1>3 DEF PushCreate, store
  <1>5. y = x /\ y # None
    BY <1>4, NoneApart
  <1>6. req'[r].pc = "synced" /\ req'[r].row = req[r].row /\ req'[r].rem = x
    BY <1>1, <1>5, PushCreateHand DEF Goes
  <1>7. Tame(req[r].row) /\ req[r].row \in InHand(req[r])
    BY <1>1, <1>3, <1>4, NoneApart DEF Tame, InHand
  <1>8. req[r].key = key[req[r].row]
    BY <1>1, <1>7, TameHeld DEF CopiesInv, CurrentInv, Current, UnderWay
  <1>9. QED
    BY <1>1, <1>2, <1>5, <1>6, <1>8

\* A copy that was there before the step, and can be accounted for after it.
Stays(r, x) ==
  /\ Ours(x)' /\ Ours(x) /\ made'[x] = made[x] /\ made[x] \in Rows
  /\ owner'[made[x]] # None /\ made[x] \notin stale'

\* Or it is a new one.
LEMMA OldOrNew ==
  ASSUME CopiesInv, NEW r \in Requests, Step(r) \/ Stop(r), NEW x \in Copies, Ours(x)'
  PROVE  \/ Stays(r, x)
         \/ \E X \in SUBSET Copies, y \in Copies \cup {None} : PushCreate(r, X, y) /\ x \in X
  <1>1. TypeOK /\ Sound /\ HeldInv /\ MadeInv
    BY DEF CopiesInv, DefaultInv
  <1>2. copy'[x] # None /\ made'[x] # None /\ owner'[made'[x]] # None /\ made'[x] \notin stale'
    BY DEF Ours, Tame
  <1>3. SUFFICES ASSUME ~\E X \in SUBSET Copies, y \in Copies \cup {None} : PushCreate(r, X, y) /\ x \in X
                 PROVE  Stays(r, x)
    OBVIOUS
  <1>4. made'[x] = made[x]
    BY <1>1, <1>2, <1>3, MadeCases
  <1>5. copy[x] # None
    BY <1>1, <1>2, <1>3, CopyCases
  <1>6. QED
    BY <1>1, <1>2, <1>4, <1>5, OursBefore DEF Stays

LEMMA TiedKept ==
  ASSUME CopiesInv, NEW r \in Requests, Step(r) \/ Stop(r), NEW x \in Copies, Stays(r, x)
  PROVE  Tied(x)'
  <1> DEFINE b == made[x]
  <1>1. /\ TypeOK /\ Sound /\ AloneInv /\ HeldInv /\ b \in Rows /\ Tame(b) /\ x # None
        /\ Tied(x) /\ b \notin stale' /\ owner'[b] # None /\ made'[x] = b /\ Turn(r)
    BY StepHand, NoneApart DEF CopiesInv, DefaultInv, CopyInv, Stays, Ours
  <1>2. SUFFICES \/ remote'[b] = x
                 \/ \E p \in Requests : req'[p].pc = "synced" /\ req'[p].row = b /\ req'[p].rem = x
    BY <1>1 DEF Tied, At
  <1>3. ASSUME NEW p \in Requests, req[p].pc = "synced", req[p].row = b, req[p].rem = x, p # r
        PROVE  req'[p].pc = "synced" /\ req'[p].row = b /\ req'[p].rem = x
    BY <1>1, <1>3 DEF Turn
  <1>4. ASSUME req[r].pc = "synced", req[r].row = b, req[r].rem = x
        PROVE  remote'[b] = x
    <2>1. ~Stop(r)
      BY <1>1, <1>4, PushLeftOut
    <2>2. MarkSynced(r)
      BY <1>4, <2>1, PushPath DEF At
    <2>3. remote' = Synced(r)
      BY <1>1, <1>4, <2>2 DEF MarkSynced, store
    <2>4. QED
      BY <1>1, <1>4, <2>3 DEF Synced, TypeOK
  <1>5. ASSUME remote[b] = x, remote'[b] # x PROVE FALSE
    <2>1. b \notin Free
      BY <1>1 DEF Tame, Free
    <2>2. /\ MarkSynced(r) \/ TieEntry(r)
          /\ b = req[r].row /\ remote'[b] = req[r].rem
      BY <1>1, <1>5, <2>1, RemoteCases
    <2>3. b \in InHand(req[r])
      BY <1>1, <2>2 DEF InHand
    <2>4. req[r].cust \notin shaken /\ Current(req[r])
      BY <1>1, <2>3, TameHeld DEF CopiesInv, CurrentInv
    <2>5. CASE MarkSynced(r)
      BY <1>1, <1>5, <2>2, <2>4, <2>5 DEF MarkSynced, At, Current, store
    <2>6. CASE TieEntry(r)
      BY <1>1, <1>5, <2>2, <2>4, <2>6, NoneApart DEF TieEntry, At, Current, store
    <2>7. QED
      BY <2>2, <2>5, <2>6
  <1>6. QED
    BY <1>1, <1>3, <1>4, <1>5 DEF Tied, At

LEMMA SaysKept ==
  ASSUME CopiesInv, NEW r \in Requests, Step(r) \/ Stop(r), NEW x \in Copies, Stays(r, x)
  PROVE  Says(x)'
  <1> DEFINE b == made[x]
  <1>1. /\ TypeOK /\ Sound /\ AloneInv /\ HeldInv /\ b \in Rows /\ Tame(b) /\ x # None
        /\ Says(x) /\ Tied(x) /\ b \notin stale' /\ owner'[b] # None /\ made'[x] = b /\ Turn(r)
        /\ copy'[x] # None /\ copy[x] # None /\ Ours(x)
    BY StepHand, NoneApart DEF CopiesInv, DefaultInv, CopyInv, Stays, Ours
  <1>2. SUFFICES \/ x \in touched' \/ copy'[x] = key'[b]
                 \/ \E p \in Requests : req'[p].row = b /\ req'[p].op \in Saving /\ req'[p].pc \in UnderWay
    BY <1>1 DEF Says
  <1>3. ASSUME PushUpdate(r), req[r].row = b \/ req[r].rem = x
        PROVE  copy'[x] = key'[b]
    <2>1. req[r].pc = "push" /\ req[r].op \in Saving /\ req[r].row \in Rows /\ UNCHANGED key
      BY <1>1, <1>3, HandTypes DEF PushUpdate, At, Sane, rowVars, store
    <2>2. req[r].row = b
      BY <1>1, <1>3, <2>1 DEF CopiesInv, KnownInv, Known, Saving
    <2>3. b \in InHand(req[r])
      BY <1>1, <2>2 DEF InHand
    <2>4. req[r].cust \notin shaken /\ owner[b] = req[r].cust
      BY <1>1, <2>3, TameHeld
    <2>5. req[r].rem = remote[b] /\ req[r].key = key[b]
      BY <2>1, <2>2, <2>4 DEF CopiesInv, CurrentInv, Current, UnderWay
    <2>6. ASSUME NEW p \in Requests, req[p].pc = "synced", req[p].row = b PROVE FALSE
      <3>1. owner[b] = req[p].cust
        BY <1>1, <2>6, TameHeld DEF InHand
      <3>2. p = r
        BY <1>1, <2>3, <3>1, TameAlone DEF About
      <3>3. QED
        BY <2>1, <2>6, <3>2
    <2>7. remote[b] = x
      BY <1>1, <2>6 DEF Tied, At
    <2>8. copy' = [copy EXCEPT ![x] = key[b]]
      BY <1>3, <2>5, <2>7 DEF PushUpdate, store
    <2>9. QED
      BY <1>1, <2>1, <2>8 DEF TypeOK
  <1>4. ASSUME NEW p \in Requests, req[p].row = b, req[p].op \in Saving, req[p].pc \in UnderWay, p # r
        PROVE  req'[p].row = b /\ req'[p].op \in Saving /\ req'[p].pc \in UnderWay
    BY <1>1, <1>4 DEF Turn
  <1>5. ASSUME req[r].row = b, req[r].op \in Saving, req[r].pc \in UnderWay
        PROVE  \/ copy'[x] = key'[b]
               \/ req'[r].row = b /\ req'[r].op \in Saving /\ req'[r].pc \in UnderWay
    <2>1. ~Stop(r) /\ ~PushNothing(r)
      BY <1>1, <1>5, PushLeftOut
    <2>2. CASE Clear(r)
      BY <1>1, <1>5, <2>2, ClearHand DEF Goes, UnderWay
    <2>3. CASE Set(r)
      <3>1. req'[r].pc = AfterDefault(r) /\ Goes(req'[r], req[r], req[r].row, req[r].rem, {}, req[r].book)
        <4>1. owner[b] # None
          BY <1>1 DEF Tame
        <4>2. Become(r, [req[r] EXCEPT !.pc = AfterDefault(r), !.saw = {}])
          BY <1>5, <2>3, <4>1 DEF Set, store
        <4>3. AfterDefault(r) = "push"
          BY <1>5 DEF AfterDefault, Saving
        <4> DEFINE h == [req[r] EXCEPT !.pc = AfterDefault(r), !.saw = {}]
        <4>4. /\ h \in Hands /\ h.pc = "push" /\ h.op = req[r].op /\ h.cust = req[r].cust
              /\ h.row = req[r].row /\ h.rem = req[r].rem
              /\ h.saw = {} /\ h.drop = req[r].drop /\ h.book = req[r].book
          BY <1>1, <4>3, HandTypes DEF Hands, Steps
        <4> HIDE DEF h
        <4>5. QED
          BY <1>1, <4>2, <4>3, <4>4, HandTo DEF h
      <3>2. QED
        BY <1>5, <3>1 DEF AfterDefault, Goes, UnderWay, Saving
    <2>4. CASE PushUpdate(r)
      BY <1>3, <1>5, <2>4
    <2>5. ASSUME NEW X \in SUBSET Copies, NEW y \in Copies \cup {None}, PushCreate(r, X, y) PROVE FALSE
      BY <1>1, <1>5, <2>5, FirstCopy
    <2>6. QED
      BY <1>5, <2>1, <2>2, <2>3, <2>4, <2>5, PushPath DEF At, UnderWay
  <1>6. CASE copy[x] = key[b]
    <2>1. b \notin Free
      BY <1>1 DEF Tame, Free
    <2>2. CASE key'[b] = key[b]
      <3>1. ASSUME NEW X \in SUBSET Copies, NEW y \in Copies \cup {None}, PushCreate(r, X, y), x \in X
            PROVE  FALSE
        BY <1>1, <3>1 DEF PushCreate, Unused, store
      <3>2. CASE PushUpdate(r) /\ req[r].rem = x
        BY <1>3, <3>2
      <3>3. CASE copy'[x] = copy[x]
        BY <1>6, <2>2, <3>3
      <3>4. QED
        BY <1>1, <3>1, <3>2, <3>3, CopyCases
    <2>3. CASE key'[b] # key[b]
      BY <1>1, <2>1, <2>3, KeyCases DEF Saving
    <2>4. QED
      BY <2>2, <2>3
  <1>7. CASE x \in touched
    BY <1>1, <1>3, <1>7, TouchedCases
  <1>8. QED
    BY <1>1, <1>4, <1>5, <1>6, <1>7 DEF Says

LEMMA NobodyKept ==
  ASSUME CopiesInv, NEW r \in Requests, Step(r) \/ Stop(r), NEW x \in Copies, Stays(r, x)
  PROVE  NobodyElses(x)'
  <1> DEFINE b == made[x]
  <1>1. /\ TypeOK /\ Sound /\ Ours(x) /\ made'[x] = b /\ NobodyElses(x) /\ Sound'
    BY SoundKept DEF CopiesInv, DefaultInv, CopyInv, Stays, Next
  <1>2. SUFFICES ASSUME NEW a \in Rows \ {b}, remote'[a] = x PROVE FALSE
    BY <1>1 DEF NobodyElses
  <1>3. remote[a] # x /\ x # None
    BY <1>1, NoneApart DEF NobodyElses
  <1>4. CASE owner'[a] = None
    BY <1>1, <1>2, <1>3, <1>4 DEF Sound
  <1>5. CASE MarkSynced(r) /\ a = req[r].row /\ req[r].rem = x
    <2>1. req[r].op \in Saving
      BY <1>1, <1>5, HandTypes DEF MarkSynced, At, Sane, store
    <2>2. QED
      BY <1>1, <1>2, <1>5, <2>1 DEF CopiesInv, KnownInv, Known, Saving
  <1>6. CASE req[r].pc = "entry" /\ req[r].rem = x /\ RemoteFree(x)
    <2>1. /\ req[r].op = "sync" /\ owner[b] # None /\ b \in Rows /\ Tame(b) /\ Tied(x)
          /\ AloneInv /\ HeldInv
      BY <1>1, <1>6, HandTypes
      DEF Sane, Ours, Tame, CopiesInv, DefaultInv, CopyInv, TypeOK
    <2>2. PICK p \in Requests : req[p].pc = "synced" /\ req[p].row = b
      BY <1>6, <2>1 DEF Tied, At, RemoteFree
    <2>3. owner[b] = req[r].cust
      BY <1>1, <1>6, <2>1 DEF CopiesInv, KnownInv, Known, Carries
    <2>4. b \in InHand(req[p])
      BY <2>1, <2>2 DEF InHand
    <2>5. p = r
      BY <1>1, <2>1, <2>3, <2>4, TameAlone DEF About
    <2>6. QED
      BY <1>6, <2>2, <2>5
  <1>7. QED
    BY <1>1, <1>2, <1>3, <1>4, <1>5, <1>6, RemoteCases DEF TieEntry, At

LEMMA CopyStep ==
  ASSUME CopiesInv, NEW r \in Requests, Step(r) \/ Stop(r), NEW x \in Copies, Ours(x)'
  PROVE  Tied(x)' /\ Says(x)' /\ NobodyElses(x)'
  <1>1. CASE Stays(r, x)
    BY <1>1, TiedKept, SaysKept, NobodyKept
  <1>2. ASSUME NEW X \in SUBSET Copies, NEW y \in Copies \cup {None}, PushCreate(r, X, y), x \in X
        PROVE  Tied(x)' /\ Says(x)' /\ NobodyElses(x)'
    <2>1. /\ made'[x] = req[r].row /\ req[r].row \in Rows
          /\ req'[r].pc = "synced" /\ req'[r].row = req[r].row /\ req'[r].rem = x
          /\ copy'[x] = key[req[r].row] /\ Unused(x) /\ UNCHANGED rowVars
      BY <1>2, NewCopy
    <2>2. Tied(x)'
      BY <2>1 DEF Tied, At
    <2>3. Says(x)'
      BY <2>1 DEF Says, rowVars
    <2>4. \A a \in Rows : remote[a] # x
      BY <2>1, NoneApart DEF Unused, RemoteFree, CopiesInv, DefaultInv, Sound
    <2>5. NobodyElses(x)'
      BY <2>1, <2>4 DEF NobodyElses, rowVars
    <2>6. QED
      BY <2>2, <2>3, <2>5
  <1>3. QED
    BY <1>1, <1>2, OldOrNew

\* A request begins when a row is as its customer's requests left it.
LEMMA StartRows ==
  ASSUME TypeOK, Sound, NEW r \in Requests, Start(r)
  PROVE  /\ UNCHANGED <<remote, store, made, imported, stale, default>> /\ req[r] = Idle
         /\ \A p \in Requests \ {r} : req'[p] = req[p]
         /\ shaken \subseteq shaken'
         /\ \A a \in Rows : a \in Free \/ (owner'[a] = owner[a] /\ key'[a] = key[a])
  <1>1. PICK h \in Hands : Begun(r, h)
    BY StartHand
  <1>2. ASSUME NEW c \in Customers, NEW k \in Keys, NEW d \in Rows, NEW asked \in BOOLEAN,
               Create(r, c, k, d, asked)
        PROVE  \A a \in Rows : a \in Free \/ (owner'[a] = owner[a] /\ key'[a] = key[a])
    BY <1>2, CreateData DEF TypeOK
  <1>3. CASE UNCHANGED rowVars
    BY <1>1, <1>3, StartHand, BegunAbout DEF rowVars, Begun
  <1>4. (\A a \in Rows : a \in Free \/ (owner'[a] = owner[a] /\ key'[a] = key[a])) \/ UNCHANGED rowVars
    BY <1>2 DEF Start, UpdateRead, SetDefault, RemoveRead, FetchBook, PastOrders, MergeRead, store
  <1>5. UNCHANGED <<remote, store, made, imported, stale, default>>
    BY StartHand
  <1>6. req[r] = Idle /\ shaken \subseteq shaken' /\ \A p \in Requests \ {r} : req'[p] = req[p]
    BY <1>1, BegunAbout DEF Begun
  <1>7. \A a \in Rows : a \in Free \/ (owner'[a] = owner[a] /\ key'[a] = key[a])
    BY <1>4 DEF rowVars
  <1>8. QED
    BY <1>5, <1>6, <1>7

LEMMA CopyStart ==
  ASSUME CopiesInv, NEW r \in Requests, Start(r), NEW x \in Copies, Ours(x)'
  PROVE  Ours(x) /\ made[x] \in Rows /\ made'[x] = made[x]
         /\ owner'[made[x]] = owner[made[x]] /\ key'[made[x]] = key[made[x]]
         /\ Tied(x)' /\ Says(x)' /\ NobodyElses(x)'
  <1>1. TypeOK /\ Sound /\ HeldInv /\ MadeInv
    BY DEF CopiesInv, DefaultInv
  <1>2. /\ UNCHANGED <<remote, copy, touched, made, stale>> /\ req[r] = Idle
        /\ \A p \in Requests \ {r} : req'[p] = req[p]
        /\ \A a \in Rows : a \in Free \/ (owner'[a] = owner[a] /\ key'[a] = key[a])
    BY <1>1, StartRows DEF store
  <1>3. made'[x] = made[x] /\ copy[x] # None
    BY <1>2 DEF Ours
  <1>4. Ours(x) /\ made[x] \in Rows
    BY <1>1, <1>3, OursBefore
  <1>5. made[x] \notin Free
    BY <1>4 DEF Ours, Tame, Free
  <1>6. owner'[made[x]] = owner[made[x]] /\ key'[made[x]] = key[made[x]]
    BY <1>2, <1>4, <1>5
  <1>7. Tied(x) /\ Says(x) /\ NobodyElses(x)
    BY <1>4 DEF CopiesInv, CopyInv
  <1>8. \A p \in Requests : req[p].pc # "idle" => req'[p] = req[p]
    BY <1>2, IdleShape
  <1>9. Tied(x)'
    BY <1>2, <1>3, <1>7, <1>8 DEF Tied, At
  <1>10. Says(x)'
    BY <1>2, <1>3, <1>6, <1>7, <1>8 DEF Says, UnderWay
  <1>11. NobodyElses(x)'
    BY <1>2, <1>3, <1>7 DEF NobodyElses
  <1>12. QED
    BY <1>3, <1>4, <1>6, <1>9, <1>10, <1>11

\* A change at the website makes no copy the app's own, and leaves its mark on one that is.
LEMMA WebsiteAside ==
  ASSUME TypeOK, Website, NEW x \in Copies, Ours(x)'
  PROVE  /\ UNCHANGED <<rowVars, req, history>> /\ Ours(x)
         /\ x \in touched' \/ (copy'[x] = copy[x] /\ x \notin touched)
  <1>1. UNCHANGED <<rowVars, req, history>>
    BY DEF Website
  <1>2. made[x] # None /\ copy'[x] # None
    BY <1>1 DEF Ours, history
  <1>3. PICK y \in Copies :
          (\E k \in Keys : WebsiteSave(y, k) \/ WebsiteEdit(y, k)) \/ WebsiteRemove(y)
    BY DEF Website
  <1>4. ASSUME NEW k \in Keys, WebsiteSave(y, k)
        PROVE  copy[x] # None /\ (x \in touched' \/ (copy'[x] = copy[x] /\ x \notin touched))
    BY <1>2, <1>4 DEF WebsiteSave, TypeOK
  <1>5. ASSUME NEW k \in Keys, WebsiteEdit(y, k)
        PROVE  copy[x] # None /\ (x \in touched' \/ (copy'[x] = copy[x] /\ x \notin touched))
    BY <1>2, <1>5 DEF WebsiteEdit, TypeOK
  <1>6. copy[x] # None /\ (x \in touched' \/ (copy'[x] = copy[x] /\ x \notin touched))
    <2>1. CASE WebsiteRemove(y)
      <3>1. x # y
        BY <1>2, <2>1 DEF WebsiteRemove, Erased, TypeOK
      <3>2. QED
        BY <1>2, <2>1, <3>1 DEF WebsiteRemove, Erased, TypeOK
    <2>2. QED
      BY <1>3, <1>4, <1>5, <2>1
  <1>7. QED
    BY <1>1, <1>2, <1>6 DEF Ours, Tame, history, rowVars

LEMMA CopyKept ==
  ASSUME CopiesInv, [Next]_vars
  PROVE  CopyInv'
  <1>1. CASE Still
    BY <1>1 DEF Still, rowVars, history, CopiesInv, CopyInv, Ours, Tame, Tied, Says, NobodyElses, At, store
  <1>2. ASSUME Website PROVE CopyInv'
    <2>1. SUFFICES ASSUME NEW x \in Copies, Ours(x)' PROVE Tied(x)' /\ Says(x)' /\ NobodyElses(x)'
      BY DEF CopyInv
    <2>2. /\ UNCHANGED <<rowVars, req, history>> /\ Ours(x)
          /\ x \in touched' \/ (copy'[x] = copy[x] /\ x \notin touched)
      BY <1>2, <2>1, WebsiteAside DEF CopiesInv, DefaultInv
    <2>3. Tied(x) /\ Says(x) /\ NobodyElses(x)
      BY <2>2 DEF CopiesInv, CopyInv
    <2>4. Tied(x)' /\ NobodyElses(x)'
      BY <2>2, <2>3 DEF Tied, NobodyElses, At, rowVars, history
    <2>5. Says(x)'
      BY <2>2, <2>3 DEF Says, rowVars, history
    <2>6. QED
      BY <2>4, <2>5
  <1>3. ASSUME NEW r \in Requests, Start(r) PROVE CopyInv'
    BY <1>3, CopyStart DEF CopyInv
  <1>4. ASSUME NEW r \in Requests, Step(r) \/ Stop(r) PROVE CopyInv'
    BY <1>4, CopyStep DEF CopyInv
  <1>5. QED
    BY <1>1, <1>2, <1>3, <1>4, NextCases DEF CopiesInv, DefaultInv

\* A copy stays made for a row that is there, or the row is stale, or the request that made
\* it is about to say so.
MadeFor(b) ==
  \/ owner[b] # None \/ b \in stale
  \/ \E p \in Requests : At(p, "synced") /\ req[p].row = b

LEMMA MadeKept ==
  ASSUME TypeOK, Sound, MadeInv, [Next]_vars
  PROVE  MadeInv'
  <1>0. \A x \in Copies : made[x] # None => MadeFor(made[x])
    BY DEF MadeInv, MadeFor
  <1>1. CASE UNCHANGED <<rowVars, req, stale, made>>
    BY <1>1 DEF MadeInv, At, rowVars
  <1>2. CASE Still
    BY <1>1, <1>2 DEF Still, history, store
  <1>3. ASSUME Website PROVE MadeInv'
    BY <1>1, <1>3 DEF Website, history, store
  <1>4. ASSUME NEW r \in Requests, Start(r) PROVE MadeInv'
    <2>1. /\ UNCHANGED <<made, stale>> /\ req[r] = Idle
          /\ \A p \in Requests \ {r} : req'[p] = req[p]
          /\ \A a \in Rows : a \in Free \/ owner'[a] = owner[a]
      BY <1>4, StartRows
    <2>2. ASSUME NEW b \in Rows, MadeFor(b) PROVE MadeFor(b)'
      <3>1. \A p \in Requests : req[p].pc = "synced" => req'[p] = req[p]
        BY <2>1, IdleShape
      <3>2. CASE owner[b] # None
        BY <2>1, <3>2 DEF Free, MadeFor
      <3>3. CASE owner[b] = None
        BY <2>1, <2>2, <3>1, <3>3 DEF MadeFor, At
      <3>4. QED
        BY <3>2, <3>3
    <2>3. QED
      BY <1>0, <2>1, <2>2 DEF MadeInv, MadeFor, TypeOK
  <1>5. ASSUME NEW r \in Requests, Step(r) \/ Stop(r) PROVE MadeInv'
    <2>1. Turn(r) /\ Sane(req[r])
      BY <1>5, StepHand DEF Sound
    <2>2. ASSUME NEW b \in Rows, MadeFor(b), ~(Delete(r) /\ owner[b] # None /\ b = req[r].row),
                 ~(MergeCommit(r) /\ b \in req[r].drop)
          PROVE  MadeFor(b)'
      <3>1. CASE b \in stale
        <4>1. b \in stale'
          BY <1>5, <2>2, <3>1
          DEF Step, Stop, Count, Edit, Clear, Set, PushNothing, PushUpdate, PushCreate, MarkSynced,
              Delete, NextDefault, Erase, ReadEntry, FetchNext, ImportEntry, TieEntry, SkipEntry, BookDone,
              ImportOrders, EnsureSomeDefault, MergeRefused, MergeCommit, history, store
        <4>2. QED
          BY <4>1 DEF MadeFor
      <3>2. CASE owner[b] # None
        <4>1. CASE MergeCommit(r)
          <5>1. req[r].op # None
            BY <2>1, <4>1, NoneApart DEF MergeCommit, At, Sane, store
          <5>2. owner'[b] # None
            BY <2>2, <3>2, <4>1, <5>1 DEF MergeCommit, store
          <5>3. QED
            BY <5>2 DEF MadeFor
        <4>2. CASE Delete(r) /\ owner' = [owner EXCEPT ![req[r].row] = None]
          BY <2>2, <3>2, <4>2 DEF MadeFor, TypeOK
        <4>3. ASSUME NEW a \in Free, owner' = [owner EXCEPT ![a] = req[r].cust] PROVE owner'[b] # None
          BY <3>2, <4>3 DEF TypeOK, Free
        <4>4. CASE UNCHANGED owner
          BY <3>2, <4>4 DEF MadeFor
        <4>5. QED
          BY <1>5, <4>1, <4>2, <4>3, <4>4, OwnerCases DEF MadeFor
      <3>3. ASSUME NEW p \in Requests, req[p].pc = "synced", req[p].row = b, p # r PROVE MadeFor(b)'
        BY <2>1, <3>3 DEF Turn, MadeFor, At
      <3>4. CASE req[r].pc = "synced" /\ req[r].row = b
        <4>1. CASE Stop(r)
          BY <3>4, <4>1, PushLeftOut DEF MadeFor
        <4>2. CASE MarkSynced(r) /\ owner[b] = None
          <5>1. b \in stale'
            BY <3>4, <4>2 DEF MarkSynced, store
          <5>2. QED
            BY <5>1 DEF MadeFor
        <4>3. CASE owner[b] # None
          BY <3>2, <4>3
        <4>4. QED
          BY <1>5, <3>4, <4>1, <4>2, <4>3, PushPath DEF At
      <3>5. QED
        BY <2>2, <3>1, <3>2, <3>3, <3>4 DEF MadeFor, At
    <2>3. SUFFICES ASSUME NEW x \in Copies, made'[x] # None PROVE MadeFor(made[x])'
      BY DEF MadeInv, MadeFor
    <2>4. CASE made'[x] = made[x]
      <3>1. made[x] \in Rows /\ MadeFor(made[x])
        BY <1>0, <2>3, <2>4 DEF TypeOK
      <3>2. ~(Delete(r) /\ owner[made[x]] # None /\ made[x] = req[r].row)
        BY <2>1, <2>3, <2>4, <3>1 DEF Delete, At, Sane, rowVars, store
      <3>3. ~(MergeCommit(r) /\ made[x] \in req[r].drop)
        BY <2>3, <2>4 DEF MergeCommit, store
      <3>4. PICK b \in Rows : b = made[x]
        BY <3>1
      <3>5. MadeFor(b)'
        BY <2>2, <3>1, <3>2, <3>3, <3>4
      <3>6. QED
        BY <2>4, <3>4, <3>5 DEF MadeFor
    <2>5. ASSUME NEW X \in SUBSET Copies, NEW y \in Copies \cup {None}, PushCreate(r, X, y), x \in X,
                 made'[x] = req[r].row
          PROVE  MadeFor(made[x])'
      <3>1. req[r].row \in stale' \/ (req'[r].pc = "synced" /\ req'[r].row = req[r].row)
        <4>1. CASE y = None
          BY <2>5, <4>1, NoneApart DEF PushCreate
        <4>2. CASE y # None
          BY <2>5, <4>2, PushCreateHand DEF Goes
        <4>3. QED
          BY <4>1, <4>2
      <3>2. QED
        BY <2>5, <3>1 DEF MadeFor, At
    <2>6. QED
      BY <1>5, <2>3, <2>4, <2>5, MadeCases
  <1>6. QED
    BY <1>2, <1>3, <1>4, <1>5, NextCases

LEMMA CurrentOthers ==
  ASSUME CopiesInv, AloneInv', NEW r \in Requests, Start(r) \/ Step(r) \/ Stop(r),
         NEW p \in Requests, p # r
  PROVE  Current(req[p])'
  <1> DEFINE q == req[p]
  <1>1. TypeOK /\ Sound /\ AloneInv /\ HeldInv /\ Current(q) /\ Sane(q) /\ q.row \in Rows \cup {None}
    BY HandTypes DEF CopiesInv, DefaultInv, CurrentInv
  <1>2. \A c \in Customers \ shaken' : About(q, c) => Untouched(c)
    BY <1>1, Bystander
  <1>3. req'[p] = q /\ shaken \subseteq shaken'
    BY <1>1, StartRows, StepHand, StepRest DEF Turn
  <1>4. \A a \in InHand(q) : Held(a, q.cust)
    BY <1>1 DEF HeldInv
  <1> HIDE DEF q
  <1>5. ASSUME q.cust \notin shaken', q.row \in Rows, q.pc # "idle"
        PROVE  remote'[q.row] = remote[q.row] /\ key'[q.row] = key[q.row]
    <2>1. q.cust \in Customers /\ Untouched(q.cust)
      BY <1>1, <1>2, <1>5 DEF Sane, About
    <2>2. owner[q.row] = q.cust
      BY <1>3, <1>4, <1>5 DEF InHand, Held
    <2>3. QED
      BY <1>5, <2>1, <2>2 DEF Untouched
  <1>6. ASSUME q.cust \notin shaken'
        PROVE  /\ q.op \in Saving /\ q.pc \in UnderWay \cup {"count"} =>
                    q.rem = remote'[q.row] /\ q.key = key'[q.row]
               /\ q.pc = "synced" => remote'[q.row] \in {None, q.rem}
               /\ q.pc = "entry" /\ q.row # None => remote'[q.row] = None
    <2>1. q.pc \in UnderWay \cup {"count", "synced"} => q.row \in Rows
      BY <1>1 DEF Sane, UnderWay
    <2>2. q.cust \notin shaken
      BY <1>3, <1>6
    <2>3. QED
      BY <1>1, <1>5, <1>6, <2>1, <2>2 DEF Current, UnderWay
  <1>7. QED
    BY <1>3, <1>6 DEF Current, q

LEMMA CurrentStart ==
  ASSUME CopiesInv, NEW r \in Requests, Start(r)
  PROVE  Current(req[r])'
  <1>1. TypeOK /\ Sound
    BY DEF CopiesInv, DefaultInv
  <1>2. PICK n : n = req'[r]
    OBVIOUS
  <1>3. CASE n.pc \notin UnderWay \cup {"count", "synced", "entry"} \/ (n.pc = "clear" /\ n.op = "setDefault")
    BY <1>2, <1>3 DEF Current, UnderWay, Saving
  <1>4. ASSUME NEW c \in Customers, NEW k \in Keys, NEW a \in Rows, NEW asked \in BOOLEAN,
               Create(r, c, k, a, asked)
        PROVE  Current(req[r])'
    <2>1. n.pc = "count" /\ n.row = a /\ n.key = k /\ n.rem = remote[a]
      BY <1>1, <1>2, <1>4, CreateHand DEF Begun, Kept
    <2>2. key'[a] = k /\ remote' = remote
      BY <1>1, <1>4 DEF Create, TypeOK, store
    <2>3. QED
      BY <1>2, <2>1, <2>2 DEF Current
  <1>5. ASSUME NEW a \in Rows, NEW k \in Keys, NEW asked \in BOOLEAN, UpdateRead(r, a, k, asked)
        PROVE  n.pc = "edit"
    BY <1>1, <1>2, <1>5, UpdateHand DEF Begun, Kept
  <1>6. ASSUME NEW a \in Rows, SetDefault(r, a) PROVE n.pc = "clear" /\ n.op = "setDefault"
    BY <1>1, <1>2, <1>6, SetDefaultHand DEF Begun, Kept
  <1>7. ASSUME NEW a \in Rows, RemoveRead(r, a) PROVE n.pc = "delete"
    BY <1>1, <1>2, <1>7, RemoveHand DEF Begun, Kept
  <1>8. ASSUME NEW c \in Customers, NEW X \in SUBSET Copies, FetchBook(r, c, X) PROVE n.pc = "book"
    BY <1>1, <1>2, <1>8, FetchHand DEF Begun, Kept
  <1>9. ASSUME NEW c \in Customers, PastOrders(r, c) PROVE n.pc = "orders"
    BY <1>1, <1>2, <1>9, PastHand DEF Begun, Kept
  <1>10. ASSUME NEW s \in Customers, NEW t \in Customers, MergeRead(r, s, t) PROVE n.pc = "merge"
    BY <1>1, <1>2, <1>10, MergeHand DEF Begun, Kept
  <1>11. QED
    BY <1>3, <1>4, <1>5, <1>6, <1>7, <1>8, <1>9, <1>10 DEF Start, UnderWay

LEMMA CurrentStep ==
  ASSUME CopiesInv, NEW r \in Requests, Step(r) \/ Stop(r)
  PROVE  Current(req[r])'
  <1> DEFINE q == req[r]
  <1>1. /\ TypeOK /\ Sound /\ Current(q) /\ Sane(q) /\ q \in Hands /\ shaken \subseteq shaken'
        /\ Onward(req'[r], q)
    BY HandTypes, StepHand, StepRest DEF CopiesInv, DefaultInv, CurrentInv
  <1>2. PICK n : n = req'[r]
    OBVIOUS
  <1>3. CASE n.pc \notin UnderWay \cup {"count", "synced", "entry"}
    BY <1>2, <1>3 DEF Current, UnderWay
  <1>4. CASE n.pc = "clear" /\ n.op \notin Saving
    BY <1>2, <1>4 DEF Current
  <1>5. ASSUME n.row = q.row, n.rem = q.rem, n.key = q.key, n.op = q.op, n.cust = q.cust,
               n.pc \in UnderWay, q.pc \in UnderWay \cup {"count"}, UNCHANGED <<remote, key>>
        PROVE  Current(req[r])'
    BY <1>1, <1>2, <1>5 DEF Current, UnderWay
  <1>6. CASE Count(r)
    BY <1>1, <1>2, <1>5, <1>6, CountHand DEF Count, At, rowVars, Goes, UnderWay, store
  <1>7. CASE Clear(r)
    BY <1>1, <1>2, <1>5, <1>7, ClearHand DEF Clear, At, rowVars, Goes, UnderWay, store
  <1>8. CASE Set(r)
    <2>1. q.pc = "set" /\ UNCHANGED <<remote, key>>
      BY <1>8 DEF Set, At, store
    <2>2. n = Idle \/ n.pc \in {"push", "erase", "idle"}
      BY <1>1, <1>2, <1>8, SetHand DEF AfterDefault
    <2>3. CASE n.pc = "push"
      BY <1>1, <1>2, <1>5, <1>8, <2>1, <2>3, SetHand, IdleShape DEF Goes, UnderWay
    <2>4. CASE n.pc # "push"
      BY <1>3, <2>2, <2>4, IdleShape DEF UnderWay
    <2>5. QED
      BY <2>3, <2>4
  <1>9. CASE Edit(r)
    <2>1. CASE n = Idle
      BY <1>3, <2>1, IdleShape DEF UnderWay
    <2>2. CASE n # Idle
      <3>1. /\ n.pc \in {"clear", "push"} /\ n.key = q.key /\ n.row = q.row /\ n.rem = remote[q.row]
            /\ key' = [key EXCEPT ![q.row] = q.key] /\ UNCHANGED remote
        BY <1>1, <1>2, <1>9, <2>2, EditHand DEF Edit, Goes, store
      <3>2. q.row \in Rows
        BY <1>1, <1>9 DEF Edit, At, Sane, store
      <3>3. key'[q.row] = q.key
        BY <1>1, <3>1, <3>2 DEF TypeOK
      <3>4. QED
        BY <1>2, <3>1, <3>3 DEF Current
    <2>3. QED
      BY <2>1, <2>2
  <1>10. ASSUME q.pc = "push", n.pc = "synced", n.row = q.row, n.cust = q.cust,
                n.rem = q.rem \/ q.rem = None, UNCHANGED remote
         PROVE  Current(req[r])'
    <2>1. q.op \in Saving
      BY <1>1, <1>10 DEF Sane
    <2>2. QED
      BY <1>1, <1>2, <1>10, <2>1 DEF Current, UnderWay
  <1>11. CASE PushUpdate(r)
    BY <1>1, <1>2, <1>10, <1>11, PushUpdateHand DEF PushUpdate, At, Goes, rowVars, store
  <1>12. ASSUME NEW X \in SUBSET Copies, NEW x \in Copies \cup {None}, PushCreate(r, X, x)
         PROVE  Current(req[r])'
    <2>1. q.pc = "push" /\ q.rem = None /\ UNCHANGED remote
      BY <1>12 DEF PushCreate, At, rowVars, store
    <2>2. CASE x = None
      BY <1>1, <1>2, <1>3, <1>12, <2>2, PushCreateHand, IdleShape DEF UnderWay
    <2>3. CASE x # None
      BY <1>1, <1>2, <1>10, <1>12, <2>1, <2>3, PushCreateHand DEF Goes
    <2>4. QED
      BY <2>2, <2>3
  <1>13. CASE Return(r)
    BY <1>1, <1>2, <1>3, <1>13, EndHand, IdleShape DEF UnderWay
  <1>14. CASE Delete(r)
    BY <1>1, <1>2, <1>3, <1>14, DeleteHand, IdleShape DEF UnderWay
  <1>15. CASE NextDefault(r) \/ EnsureSomeDefault(r)
    <2>1. q.op \notin Saving
      BY <1>1, <1>15 DEF NextDefault, EnsureSomeDefault, At, Sane, Saving, store
    <2>2. n = Idle \/ n.pc = "erase" \/ (n.pc = "clear" /\ n.op = q.op)
      BY <1>1, <1>2, <1>15, NextHand, EnsureHand DEF Goes
    <2>3. QED
      BY <1>3, <1>4, <2>1, <2>2, IdleShape DEF UnderWay
  <1>16. ASSUME NEW x \in Copies, NEW k \in Keys, ReadEntry(r, x, k) PROVE Current(req[r])'
    <2>1. CASE n.pc = "book"
      BY <1>3, <2>1 DEF UnderWay
    <2>2. CASE n.pc # "book"
      <3>1. n.pc = "entry" /\ (n.row = None \/ remote[n.row] = None)
        <4>1. /\ n.pc = "entry" /\ \A a \in Found(q.cust, k) : remote[a] = None
              /\ \E a \in Found(q.cust, k) \cup {None} :
                   Goes(n, q, a, x, q.saw, q.book \ {<<x, k>>})
          BY <1>1, <1>2, <1>16, <2>2, ReadEntryHand
        <4>2. QED
          BY <4>1 DEF Goes
      <3>2. remote' = remote
        BY <1>16 DEF ReadEntry, rowVars, store
      <3>3. QED
        BY <1>2, <3>1, <3>2 DEF Current, UnderWay
    <2>3. QED
      BY <2>1, <2>2
  <1>17. ASSUME NEW flag \in BOOLEAN, NextEntry(r, flag), q.pc = "entry" PROVE Current(req[r])'
    BY <1>1, <1>2, <1>3, <1>17, EntryHand DEF UnderWay
  <1>18. CASE SkipEntry(r) \/ TieEntry(r) \/ \E a \in Rows, isDefault \in BOOLEAN : ImportEntry(r, a, isDefault)
    <2>1. q.flag \in BOOLEAN /\ \A isDefault \in BOOLEAN : (q.flag /\ ~isDefault) \in BOOLEAN
      BY <1>1 DEF Hands
    <2>2. q.pc = "entry" /\ \E flag \in BOOLEAN : NextEntry(r, flag)
      BY <1>18, <2>1 DEF SkipEntry, TieEntry, ImportEntry, At, store
    <2>3. QED
      BY <1>17, <2>2
  <1>19. CASE BookDone(r)
    BY <1>1, <1>2, <1>3, <1>19, BookDoneHand DEF UnderWay
  <1>20. ASSUME NEW k \in OrderAddresses, NEW a \in Rows, ImportOrders(r, k, a) PROVE Current(req[r])'
    BY <1>1, <1>2, <1>3, <1>20, OrdersHand DEF UnderWay
  <1>21. ASSUME NEW X \in SUBSET Copies, FetchNext(r, X) PROVE Current(req[r])'
    BY <1>1, <1>2, <1>3, <1>21, FetchNextHand DEF UnderWay
  <1>22. QED
    BY <1>6, <1>7, <1>8, <1>9, <1>11, <1>12, <1>13, <1>14, <1>15, <1>16, <1>18, <1>19, <1>20, <1>21
    DEF Step, Stop, PushNothing, MarkSynced, Erase, MergeRefused, MergeCommit, store

LEMMA CurrentKept ==
  ASSUME CopiesInv, AloneInv', [Next]_vars
  PROVE  CurrentInv'
  <1>1. CASE UNCHANGED <<rowVars, req, shaken>>
    BY <1>1 DEF CopiesInv, CurrentInv, Current, rowVars
  <1>2. CASE Still
    BY <1>1, <1>2 DEF Still, history, store
  <1>3. ASSUME Website PROVE CurrentInv'
    BY <1>1, <1>3 DEF Website, history, store
  <1>4. ASSUME NEW r \in Requests, Start(r) \/ Step(r) \/ Stop(r) PROVE CurrentInv'
    BY <1>4, CurrentOthers, CurrentStart, CurrentStep DEF CurrentInv
  <1>5. QED
    BY <1>2, <1>3, <1>4, NextCases DEF CopiesInv, DefaultInv

LEMMA KnownStart ==
  ASSUME CopiesInv, NEW r \in Requests, Start(r), NEW p \in Requests, NEW x \in Copies, Ours(x)'
  PROVE  Known(req[p], x)'
  <1>1. /\ Ours(x) /\ made[x] \in Rows /\ made'[x] = made[x] /\ owner'[made[x]] = owner[made[x]]
        /\ x # None
    BY CopyStart, NoneApart
  <1>2. /\ TypeOK /\ Sound /\ NobodyElses(x) /\ Known(req[p], x)
    BY <1>1 DEF CopiesInv, DefaultInv, CopyInv, KnownInv
  <1>3. CASE p # r
    <2>1. req'[p] = req[p]
      BY <1>2, <1>3, StartRows
    <2>2. QED
      BY <1>1, <1>2, <2>1 DEF Known, Carries
  <1>4. CASE p = r
    <2>1. PICK n : n = req'[r]
      OBVIOUS
    <2>2. CASE n.rem = None /\ n.book = {}
      BY <1>1, <1>4, <2>1, <2>2 DEF Known, Carries
    <2>3. CASE n.op = "remove" /\ n.book = {}
      BY <1>1, <1>4, <2>1, <2>3 DEF Known, Carries
    <2>4. ASSUME NEW c \in Customers, NEW k \in Keys, NEW a \in Rows, NEW asked \in BOOLEAN,
                 Create(r, c, k, a, asked)
          PROVE  Known(req[p], x)'
      <3>1. n.op = "create" /\ n.row = a /\ n.rem = remote[a] /\ n.book = {}
        BY <1>2, <2>1, <2>4, CreateHand DEF Begun, Kept
      <3>2. n.rem = x => a = made[x]
        BY <1>2, <3>1 DEF NobodyElses
      <3>3. QED
        BY <1>1, <1>4, <2>1, <3>1, <3>2 DEF Known, Carries, Saving
    <2>5. ASSUME NEW a \in Rows, NEW k \in Keys, NEW asked \in BOOLEAN, UpdateRead(r, a, k, asked)
          PROVE  n.rem = None /\ n.book = {}
      BY <1>2, <2>1, <2>5, UpdateHand DEF Begun, Kept
    <2>6. ASSUME NEW a \in Rows, SetDefault(r, a) PROVE n.rem = None /\ n.book = {}
      BY <1>2, <2>1, <2>6, SetDefaultHand DEF Begun, Kept
    <2>7. ASSUME NEW a \in Rows, RemoveRead(r, a) PROVE n.op = "remove" /\ n.book = {}
      BY <1>2, <2>1, <2>7, RemoveHand DEF Begun, Kept
    <2>8. ASSUME NEW c \in Customers, NEW X \in SUBSET Copies, FetchBook(r, c, X)
          PROVE  Known(req[p], x)'
      <3>1. n.rem = None /\ n.cust = c /\ n.book = Fetched(X)
        BY <1>2, <2>1, <2>8, FetchHand DEF Begun, Kept
      <3>2. Carries(n, x) => owner[made[x]] = c
        BY <1>1, <2>8, <3>1 DEF FetchBook, BookOf, Fetched, Carries, Ours, Tame
      <3>3. QED
        BY <1>1, <1>4, <2>1, <3>1, <3>2 DEF Known, Carries
    <2>9. ASSUME NEW c \in Customers, PastOrders(r, c) PROVE n.rem = None /\ n.book = {}
      BY <1>2, <2>1, <2>9, PastHand DEF Begun, Kept
    <2>10. ASSUME NEW s \in Customers, NEW t \in Customers, MergeRead(r, s, t)
           PROVE  n.rem = None /\ n.book = {}
      BY <1>2, <2>1, <2>10, MergeHand DEF Begun, Kept
    <2>11. QED
      BY <2>2, <2>3, <2>4, <2>5, <2>6, <2>7, <2>8, <2>9, <2>10 DEF Start
  <1>5. QED
    BY <1>3, <1>4

\* What a step takes in hand.
LEMMA HandsKnown ==
  ASSUME CopiesInv, NEW r \in Requests, Step(r) \/ Stop(r), NEW x \in Copies, Stays(r, x),
         NEW n, n = req'[r]
  PROVE  /\ n.rem = x /\ n.op \notin {"remove", "sync"} => n.row = made[x] /\ n.op \in Saving
         /\ Carries(n, x) => owner[made[x]] = req[r].cust
  <1> DEFINE q == req[r]
             Fits == /\ n.rem = x /\ n.op \notin {"remove", "sync"} => n.row = made[x] /\ n.op \in Saving
                     /\ Carries(n, x) => owner[made[x]] = q.cust
  <1>1. /\ TypeOK /\ Sound /\ Sane(q) /\ q \in Hands /\ Ours(x) /\ Known(q, x) /\ NobodyElses(x)
        /\ x # None
    BY HandTypes, NoneApart DEF CopiesInv, DefaultInv, CopyInv, KnownInv, Stays
  <1>2. q.op = "sync" /\ q.pc # "entry" => q.rem = None
    BY <1>1 DEF Sane, Saving
  <1> SUFFICES Fits
    BY DEF q
  <1> HIDE DEF q
  <1>3. ASSUME NEW row, NEW rem, NEW saw, NEW book, Goes(n, q, row, rem, saw, book), book \subseteq q.book,
               rem # x \/ (rem = q.rem /\ row = q.row) \/ q.op = "remove"
        PROVE  Fits
    BY <1>1, <1>3 DEF Goes, Known, Carries
  <1>4. CASE n = Idle
    BY <1>1, <1>4, IdleShape DEF Carries
  <1>5. CASE Return(r)
    BY <1>1, <1>4, <1>5, EndHand
  <1>6. CASE Count(r)
    BY <1>1, <1>3, <1>6, CountHand DEF q
  <1>7. CASE Clear(r)
    BY <1>1, <1>3, <1>7, ClearHand DEF q
  <1>8. CASE Set(r)
    BY <1>1, <1>3, <1>4, <1>8, SetHand DEF q
  <1>9. CASE PushUpdate(r)
    BY <1>1, <1>3, <1>9, PushUpdateHand DEF q
  <1>10. ASSUME NEW X \in SUBSET Copies, NEW y \in Copies \cup {None}, PushCreate(r, X, y)
         PROVE  Fits
    <2>1. y # x
      BY <1>1, <1>10 DEF PushCreate, Unused, Ours, store
    <2>2. n = Idle \/ Goes(n, q, q.row, y, q.saw, q.book)
      BY <1>1, <1>10, PushCreateHand DEF q
    <2>3. QED
      BY <1>3, <1>4, <2>1, <2>2
  <1>11. CASE Edit(r)
    <2>1. n = Idle \/ Goes(n, q, q.row, remote[q.row], q.saw, q.book)
      BY <1>1, <1>11, EditHand DEF q
    <2>2. q.row \in Rows /\ q.op = "update"
      BY <1>1, <1>11 DEF Edit, At, Sane, q, store
    <2>3. remote[q.row] = x => q.row = made[x]
      BY <1>1, <2>2 DEF NobodyElses
    <2>4. CASE Goes(n, q, q.row, remote[q.row], q.saw, q.book)
      BY <1>1, <2>2, <2>3, <2>4 DEF Goes, Saving, Known, Carries
    <2>5. QED
      BY <1>4, <2>1, <2>4
  <1>12. CASE Delete(r) \/ NextDefault(r)
    <2>1. q.op = "remove"
      BY <1>1, <1>12 DEF Delete, NextDefault, At, Sane, q, store
    <2>2. n = Idle \/ \E row \in Rows \cup {None} : Goes(n, q, row, q.rem, q.saw, q.book)
      BY <1>1, <1>12, DeleteHand, NextHand DEF q, Of
    <2>3. QED
      BY <1>3, <1>4, <2>1, <2>2
  <1>13. ASSUME NEW y \in Copies, NEW k \in Keys, ReadEntry(r, y, k) PROVE Fits
    <2>1. /\ q.pc = "book" /\ q.op = "sync" /\ <<y, k>> \in q.book
      BY <1>1, <1>13 DEF ReadEntry, At, Sane, q
    <2>2. CASE Goes(n, q, None, q.rem, q.saw, q.book \ {<<y, k>>})
      BY <1>1, <1>2, <1>3, <2>1, <2>2
    <2>3. ASSUME NEW a, Goes(n, q, a, y, q.saw, q.book \ {<<y, k>>}) PROVE Fits
      <3>1. Carries(n, x) => Carries(q, x)
        BY <2>1, <2>3 DEF Goes, Carries
      <3>2. QED
        BY <1>1, <2>1, <2>3, <3>1 DEF Goes, Known
    <2>4. QED
      BY <1>1, <1>13, <2>2, <2>3, ReadEntryHand DEF q
  <1>14. ASSUME NEW flag \in BOOLEAN, NextEntry(r, flag), q.pc = "entry" PROVE Fits
    BY <1>1, <1>3, <1>14, EntryHand DEF q
  <1>15. CASE SkipEntry(r) \/ TieEntry(r) \/ \E a \in Rows, isDefault \in BOOLEAN : ImportEntry(r, a, isDefault)
    <2>1. q.flag \in BOOLEAN /\ \A isDefault \in BOOLEAN : (q.flag /\ ~isDefault) \in BOOLEAN
      BY <1>1 DEF Hands
    <2>2. q.pc = "entry" /\ \E flag \in BOOLEAN : NextEntry(r, flag)
      BY <1>15, <2>1 DEF SkipEntry, TieEntry, ImportEntry, At, q, store
    <2>3. QED
      BY <1>14, <2>2
  <1>16. CASE BookDone(r)
    <2>1. q.pc = "book" /\ q.op = "sync" /\ Goes(n, q, None, q.rem, q.saw, {})
      BY <1>1, <1>16, BookDoneHand DEF BookDone, At, Sane, q, store
    <2>2. QED
      BY <1>1, <1>2, <1>3, <2>1
  <1>17. ASSUME NEW k \in OrderAddresses, NEW a \in Rows, ImportOrders(r, k, a) PROVE Fits
    <2>1. q.pc = "orders" /\ q.op = "sync" /\ Goes(n, q, None, q.rem, q.saw, q.book)
      BY <1>1, <1>17, OrdersHand DEF ImportOrders, At, Sane, q, store
    <2>2. QED
      BY <1>1, <1>2, <1>3, <2>1
  <1>18. CASE EnsureSomeDefault(r)
    <2>1. q.pc = "ensure" /\ q.op = "sync"
      BY <1>1, <1>18 DEF EnsureSomeDefault, At, Sane, q, store
    <2>2. n = Idle \/ \E a \in Rows : Goes(n, q, a, q.rem, q.saw, q.book)
      BY <1>1, <1>18, EnsureHand DEF q, Of
    <2>3. QED
      BY <1>1, <1>2, <1>3, <1>4, <2>1, <2>2
  <1>19. ASSUME NEW X \in SUBSET Copies, FetchNext(r, X) PROVE Fits
    <2>1. q.pc = "book" /\ q.op = "sync" /\ Goes(n, q, None, q.rem, q.saw, Fetched(X))
      BY <1>1, <1>19, FetchNextHand DEF Sane, q
    <2>2. x \in X => owner[made[x]] = q.cust
      BY <1>1, <1>19 DEF FetchNext, BookOf, Ours, q
    <2>3. QED
      BY <1>1, <1>2, <2>1, <2>2 DEF Goes, Carries, Fetched
  <1>20. Fits
    BY <1>5, <1>6, <1>7, <1>8, <1>9, <1>10, <1>11, <1>12, <1>13, <1>15, <1>16, <1>17, <1>18, <1>19
    DEF Step, Stop, PushNothing, MarkSynced, Erase, MergeRefused, MergeCommit, store
  <1>21. QED
    BY <1>20

LEMMA KnownStep ==
  ASSUME CopiesInv, NEW r \in Requests, Step(r) \/ Stop(r), NEW p \in Requests, NEW x \in Copies, Ours(x)'
  PROVE  Known(req[p], x)'
  <1>1. TypeOK /\ Sound /\ AloneInv /\ HeldInv /\ MadeInv /\ x # None
    BY NoneApart DEF CopiesInv, DefaultInv
  <1>2. Turn(r) /\ Onward(req'[r], req[r])
    BY <1>1, StepHand
  <1>3. CASE Stays(r, x)
    <2> DEFINE b == made[x]
    <2>1. Ours(x) /\ made'[x] = b /\ Known(req[p], x) /\ copy[x] # None
      BY <1>3 DEF Stays, CopiesInv, KnownInv, Ours
    <2>2. ASSUME owner[b] = req[p].cust PROVE owner'[b] = req[p].cust \/ (p = r /\ MergeCommit(r))
      <3>1. CASE owner'[b] = owner[b]
        BY <2>2, <3>1
      <3>2. CASE /\ MergeCommit(r) /\ owner[b] = req[r].cust /\ req[r].cust \in Customers \ shaken'
        <4>1. req[r].cust \in Customers \ shaken
          BY <1>1, <3>2, StepRest
        <4>2. p = r
          BY <1>1, <2>2, <3>2, <4>1 DEF AloneInv, About
        <4>3. QED
          BY <3>2, <4>2
      <3>3. QED
        BY <1>1, <1>3, <2>1, <3>1, <3>2, OursBefore
    <2>3. CASE p # r
      <3>1. req'[p] = req[p]
        BY <1>2, <2>3 DEF Turn
      <3>2. Carries(req[p], x)' <=> Carries(req[p], x)
        BY <3>1 DEF Carries
      <3>3. QED
        BY <2>1, <2>2, <2>3, <3>1, <3>2 DEF Known
    <2>4. CASE p = r
      <3>1. PICK n : n = req'[r]
        OBVIOUS
      <3>2. /\ n.rem = x /\ n.op \notin {"remove", "sync"} => n.row = made[x] /\ n.op \in Saving
            /\ Carries(n, x) => owner[b] = req[r].cust
        BY <1>3, <3>1, HandsKnown
      <3>3. CASE n = Idle
        BY <1>1, <2>1, <2>4, <3>1, <3>3, IdleShape DEF Known, Carries
      <3>4. CASE n # Idle
        <4>1. n.cust = req[r].cust /\ ~MergeCommit(r)
          BY <1>1, <1>2, <3>1, <3>4, EndHand DEF Onward, MergeCommit, store
        <4>2. Carries(n, x) => owner'[b] = n.cust
          BY <2>2, <2>4, <3>2, <4>1
        <4>3. QED
          BY <2>1, <2>4, <3>1, <3>2, <4>2 DEF Known, Carries
      <3>5. QED
        BY <3>3, <3>4
    <2>5. QED
      BY <2>3, <2>4
  <1>4. ASSUME NEW X \in SUBSET Copies, NEW y \in Copies \cup {None}, PushCreate(r, X, y), x \in X
        PROVE  Known(req[p], x)'
    <2>1. /\ made'[x] = req[r].row /\ y = x /\ req'[r].row = req[r].row /\ req'[r].rem = x
          /\ Unused(x) /\ req[r].op \in Saving
      BY <1>4, NewCopy
    <2>2. \A q \in Requests : req[q].rem # x /\ ~Carries(req[q], x)
      BY <2>1 DEF Unused, Carries
    <2>3. CASE p # r
      <3>1. req'[p] = req[p]
        BY <1>2, <2>3 DEF Turn
      <3>2. QED
        BY <2>2, <3>1 DEF Known, Carries
    <2>4. CASE p = r
      <3>1. req'[r].op = req[r].op /\ req'[r].book = req[r].book
        BY <1>1, <1>4, <2>1, PushCreateHand DEF Goes
      <3>2. QED
        BY <2>1, <2>2, <2>4, <3>1 DEF Known, Carries, Saving
    <2>5. QED
      BY <2>3, <2>4
  <1>5. QED
    BY <1>3, <1>4, OldOrNew

LEMMA KnownKept ==
  ASSUME CopiesInv, [Next]_vars
  PROVE  KnownInv'
  <1>1. CASE Still
    BY <1>1 DEF Still, rowVars, history, CopiesInv, KnownInv, Known, Carries, Ours, Tame, store
  <1>2. ASSUME Website PROVE KnownInv'
    <2>1. /\ UNCHANGED <<rowVars, req, history>>
          /\ \A x \in Copies : Ours(x)' => Ours(x)
      BY <1>2, WebsiteAside DEF CopiesInv, DefaultInv, Website
    <2>2. \A p \in Requests, x \in Copies : Known(req[p], x) => Known(req[p], x)'
      BY <2>1 DEF Known, Carries, rowVars, history
    <2>3. QED
      BY <2>1, <2>2 DEF CopiesInv, KnownInv
  <1>3. ASSUME NEW r \in Requests, Start(r) \/ Step(r) \/ Stop(r) PROVE KnownInv'
    BY <1>3, KnownStart, KnownStep DEF KnownInv
  <1>4. QED
    BY <1>1, <1>2, <1>3, NextCases DEF CopiesInv, DefaultInv

LEMMA CopiesInvHolds == Spec => []CopiesInv
  <1>1. Init /\ DefaultInv => CopiesInv
    <2>1. ASSUME Init, DefaultInv PROVE CopiesInv
      <3>1. (\A x \in Copies : made[x] = None) /\ \A p \in Requests : req[p] = Idle
        BY <2>1 DEF Init
      <3>2. CopyInv /\ MadeInv /\ KnownInv
        BY <3>1 DEF CopyInv, MadeInv, KnownInv, Ours
      <3>3. CurrentInv
        BY <3>1, IdleShape DEF CurrentInv, Current, UnderWay
      <3>4. QED
        BY <2>1, <3>2, <3>3 DEF CopiesInv
    <2>2. QED
      BY <2>1
  <1>2. CopiesInv /\ DefaultInv' /\ [Next]_vars => CopiesInv'
    <2>1. ASSUME CopiesInv, DefaultInv', [Next]_vars PROVE CopiesInv'
      <3>1. AloneInv' /\ TypeOK /\ Sound /\ MadeInv
        BY <2>1 DEF CopiesInv, DefaultInv
      <3>2. CopyInv' /\ MadeInv' /\ CurrentInv' /\ KnownInv'
        BY <2>1, <3>1, CopyKept, MadeKept, CurrentKept, KnownKept
      <3>3. QED
        BY <2>1, <3>2 DEF CopiesInv
    <2>2. QED
      BY <2>1
  <1>3. QED
    BY <1>1, <1>2, DefaultInvHolds, PTL DEF Spec

\* Theorem: unless a push of it failed, was left out, was repeated or overlapped, an address
\* that no request is at work on is tied to the one copy at the store that the app made of it,
\* and the copy says what the address says, unless its customer has changed it at the website
\* since, however the address was created, edited, imported or moved by a merge.
THEOREM OneCopyAtTheStore == Spec => []OneCopyOfEach
  <1>1. ASSUME CopiesInv, NEW a \in Rows \ stale, owner[a] \notin shaken \cup {None}, Quiet(owner[a]),
               NEW x \in Copies, made[x] = a, copy[x] # None
        PROVE  remote[a] = x /\ (x \in touched \/ copy[x] = key[a])
    <2>1. Tame(a) /\ HeldInv /\ Ours(x)
      BY <1>1, NoneApart DEF Tame, Ours, CopiesInv, DefaultInv
    <2>2. ASSUME NEW p \in Requests, req[p].row = a PROVE FALSE
      BY <1>1, <2>1, <2>2, TameHeld DEF InHand, Quiet
    <2>3. Tied(x) /\ Says(x)
      BY <1>1, <2>1 DEF CopiesInv, CopyInv
    <2>4. QED
      BY <1>1, <2>2, <2>3 DEF Tied, Says, At
  <1>2. CopiesInv => OneCopyOfEach
    BY <1>1 DEF OneCopyOfEach
  <1>3. QED
    BY <1>2, CopiesInvHolds, PTL

=============================================================================
