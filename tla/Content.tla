------------------------------ MODULE Content ------------------------------
(***************************************************************************)
(* The caches in front of the app's content and of Shopify's catalogue:    *)
(* ContentService (content/content.service.ts) with the product and        *)
(* collection services it embeds, the panel's edits                        *)
(* (admin/content/admin-content.service.ts), which write a row and clear   *)
(* content:*, and the panel's flush of the product caches.                 *)
(*                                                                         *)
(* A reader that misses loads from the source and stores what it loaded    *)
(* later; the home screen is stored with what it embeds, which may come    *)
(* from the cache itself.  What an entry, or a reader, shows of a source   *)
(* is an age, as in module Freshness; what it says is left out.            *)
(***************************************************************************)
EXTENDS Naturals, FiniteSets

CONSTANTS
  Home,          \* the key content:home, and the table of home sections
  Banners,       \* the key of the banners that home embeds, and their table
  Pages,         \* the other keys content:*, each with its table
  Listings,      \* keys of the lists that are cached of it
  Matching,      \* Matching[p]: those of pattern p
  Details,       \* keys products:detail:*, collections:detail:*
  Catalogue,     \* Shopify's products
  Embedded,      \* the keys the sections of home show: Banners, Listings and Details
  Requests,
  TTL,           \* what an entry lives (CONTENT_CACHE_TTL and its like)
  FillTime,      \* bound on what a reader takes from its miss to its store
  None

ContentKeys == {Home, Banners} \cup Pages
ProductKeys == Listings \cup Details
Keys == ContentKeys \cup ProductKeys
Sources == ContentKeys \cup {Catalogue}

\* products:list:*, collections:list:*, collections:products:*, orders:list:*, as a flush
\* clears them.
Patterns == 1 .. 4

VARIABLES
  left,          \* left[k]: what the entry of key k has left, 0 if there is none
  age,           \* age[k][s]: what the entry shows of s
  req,           \* what each request does next, and what it has loaded
  \* History variables: they are read by properties only.
  late,          \* entries that were behind when they were stored, or fell behind
                 \* with nobody editing
  editor         \* editor[s]: who wrote s last, "nobody" if the server stopped on him,
                 \* "published" if he was answered

vars == <<left, age, req, late, editor>>

Nothing == [s \in Sources |-> 0]
Just(s) == [Nothing EXCEPT ![s] = 1]
Superseded(f, s) == [f EXCEPT ![s] = IF @ = 1 THEN 2 ELSE @]
Aged(f) == [s \in Sources |-> IF f[s] < 2 THEN f[s] ELSE f[s] + 1]
Both(f, g) == [s \in Sources |-> IF f[s] > g[s] THEN f[s] ELSE g[s]]
Current(f) == \A s \in Sources : f[s] \in {0, 1}

Idle == [pc |-> "idle", key |-> None, got |-> Nothing, part |-> None, shows |-> Nothing,
         spent |-> 0, todo |-> {}, rest |-> {}]
Filling == {"load", "parts", "inner", "keep", "set"}
Steps == {"idle", "write", "scan", "clear"} \cup Filling

At(r, step) == req[r].pc = step
Become(r, q) == req' = [req EXCEPT ![r] = q]
Return(r) == Become(r, Idle)

Present == {k \in Keys : left[k] > 0}
Table(k) == IF k \in ProductKeys THEN Catalogue ELSE k

-----------------------------------------------------------------------------
(* Faulty variants of the definitions below, each a bug this code could have had. *)

Scanned_Lists(q) == IF q.key = Catalogue THEN Listings ELSE Pages \cup {Banners}   \* home is forgotten

-----------------------------------------------------------------------------
Init ==
  /\ left = [k \in Keys |-> 0]
  /\ age = [k \in Keys |-> Nothing]
  /\ req = [r \in Requests |-> Idle]
  /\ late = {}
  /\ editor = [s \in Sources |-> "published"]

\* setJson.
Store(k, f) ==
  /\ left' = [left EXCEPT ![k] = TTL]
  /\ age' = [age EXCEPT ![k] = f]
  /\ late' = IF Current(f) THEN late \ {k} ELSE late \cup {k}

Drop(K) ==
  /\ left' = [k \in Keys |-> IF k \in K THEN 0 ELSE left[k]]
  /\ age' = [k \in Keys |-> IF k \in K THEN Nothing ELSE age[k]]
  /\ late' = late \ K

-----------------------------------------------------------------------------
(* Reading: a hit returns at once; a miss loads, and stores what it loaded. *)

\* The entry is not there, or Redis fails to say that it is.
Miss(r, k) ==
  /\ At(r, "idle")
  /\ Become(r, [Idle EXCEPT !.pc = "load", !.key = k])
  /\ UNCHANGED <<left, age, late, editor>>

Load(r) ==
  LET k == req[r].key IN
  /\ At(r, "load")
  /\ Become(r, [req[r] EXCEPT !.pc = IF k = Home THEN "parts" ELSE "set",
                              !.got = Just(Table(k)),
                              !.todo = IF k = Home THEN Embedded ELSE {}])
  /\ UNCHANGED <<left, age, late, editor>>

\* resolveSection, one section after the other: from the cache of its own, or as a
\* reader who misses there.
Embed(r, k) ==
  /\ At(r, "parts") /\ k \in req[r].todo
  /\ \/ /\ k \in Present
        /\ Become(r, [req[r] EXCEPT !.got = Both(@, age[k]), !.todo = @ \ {k}])
     \/ Become(r, [req[r] EXCEPT !.pc = "inner", !.part = k])
  /\ UNCHANGED <<left, age, late, editor>>

LoadPart(r) ==
  /\ At(r, "inner")
  /\ Become(r, [req[r] EXCEPT !.pc = "keep", !.shows = Just(Table(req[r].part))])
  /\ UNCHANGED <<left, age, late, editor>>

KeepPart(r) ==
  LET q == req[r] IN
  /\ At(r, "keep")
  /\ Store(q.part, q.shows)
  /\ Become(r, [q EXCEPT !.pc = "parts", !.got = Both(@, q.shows), !.todo = @ \ {q.part},
                         !.part = None, !.shows = Nothing])
  /\ UNCHANGED editor

\* A section that throws is left out.
SkipPart(r) ==
  /\ At(r, "inner")
  /\ Become(r, [req[r] EXCEPT !.pc = "parts", !.todo = @ \ {req[r].part}, !.part = None])
  /\ UNCHANGED <<left, age, late, editor>>

Set(r) ==
  /\ At(r, "set") \/ (At(r, "parts") /\ req[r].todo = {})
  /\ Store(req[r].key, req[r].got)
  /\ Return(r)
  /\ UNCHANGED editor

-----------------------------------------------------------------------------
(* The panel *)

\* Every create, update, delete and reorder of a row of table s.
Edit(r, s) ==
  /\ At(r, "idle")
  /\ Become(r, [Idle EXCEPT !.pc = "write", !.key = s])
  /\ UNCHANGED <<left, age, late, editor>>

\* What entries and readers have of s is superseded.
Overtaken(s) ==
  [r \in Requests |-> [req[r] EXCEPT !.got = Superseded(@, s), !.shows = Superseded(@, s)]]

\* Dates in the wrong order, a section without what it shows, or a value the unique
\* index refuses: nothing is written, cleared or audited.
EditRefused(r) ==
  /\ At(r, "write")
  /\ Return(r)
  /\ UNCHANGED <<left, age, late, editor>>

Write(r) ==
  LET s == req[r].key IN
  /\ At(r, "write")
  /\ age' = [k \in Keys |-> Superseded(age[k], s)]
  /\ req' = [Overtaken(s) EXCEPT ![r].pc = "scan"]
  /\ editor' = [editor EXCEPT ![s] = r]
  /\ UNCHANGED <<left, late>>

\* flushCache: the lists of products, of collections, of orders, which are not among the
\* keys here, or all of them; the details stay.
Scopes == {{1}, {2, 3}, {4}, Patterns}

Flush(r, scope) ==
  /\ At(r, "idle")
  /\ Become(r, [Idle EXCEPT !.pc = "scan", !.key = Catalogue, !.rest = scope])
  /\ UNCHANGED <<left, age, late, editor>>

\* The pattern whose turn it is.
Turn(q) == {p \in q.rest : \A o \in q.rest : p <= o}

\* invalidate of ContentService, and of the other two.
Scanned(q) == IF q.key = Catalogue THEN UNION {Matching[p] : p \in Turn(q)} ELSE ContentKeys

\* delByPattern: SCAN returns every key that is there all the while.
Scan(r) ==
  LET q == req[r] IN
  /\ At(r, "scan") \/ (At(r, "clear") /\ q.todo = {} /\ q.rest # {})
  /\ Become(r, [q EXCEPT !.pc = "clear", !.todo = Present \cap Scanned(q), !.rest = @ \ Turn(q)])
  /\ UNCHANGED <<left, age, late, editor>>

Clear(r, k) ==
  /\ At(r, "clear") /\ k \in req[r].todo
  /\ Drop({k})
  /\ Become(r, [req[r] EXCEPT !.todo = @ \ {k}])
  /\ UNCHANGED editor

\* Audited and answered.
Answer(r) ==
  LET s == req[r].key IN
  /\ At(r, "clear") /\ req[r].todo = {} /\ req[r].rest = {}
  /\ editor' = IF editor[s] = r THEN [editor EXCEPT ![s] = "published"] ELSE editor
  /\ Return(r)
  /\ UNCHANGED <<left, age, late>>

-----------------------------------------------------------------------------

\* A row's window opens or closes, or Shopify's catalogue changes; nothing is cleared.
Drift(s) ==
  /\ \/ \E k \in Keys : age[k][s] = 1
     \/ \E r \in Requests : req[r].got[s] = 1 \/ req[r].shows[s] = 1
  /\ age' = [k \in Keys |-> Superseded(age[k], s)]
  /\ req' = Overtaken(s)
  /\ late' = late \cup {k \in Keys : age[k][s] = 1}
  /\ UNCHANGED <<left, editor>>

\* The server stops, Redis fails on a clear, or on a store, which is swallowed.
Stop(r) ==
  /\ ~At(r, "idle")
  /\ editor' = [s \in Sources |-> IF editor[s] = r THEN "nobody" ELSE editor[s]]
  /\ Return(r)
  /\ UNCHANGED <<left, age, late>>

RedisLost == Drop(Keys) /\ UNCHANGED <<req, editor>>

\* The entries that end with this tick.
Ending == {k \in Keys : left[k] = 1}

\* A reader does not take longer than FillTime.
InTime == \A r \in Requests : req[r].pc \in Filling => req[r].spent < FillTime

Tick ==
  /\ InTime
  /\ left' = [k \in Keys |-> IF left[k] = 0 \/ k \in Ending THEN 0 ELSE left[k] - 1]
  /\ age' = [k \in Keys |-> IF k \in Ending THEN Nothing ELSE Aged(age[k])]
  /\ late' = late \ Ending
  /\ req' = [r \in Requests |->
               IF req[r].pc \in Filling
               THEN [req[r] EXCEPT !.got = Aged(@), !.shows = Aged(@), !.spent = @ + 1]
               ELSE req[r]]
  /\ UNCHANGED editor

Step(r) ==
  \/ \E k \in Keys : Embed(r, k) \/ Clear(r, k)
  \/ KeepPart(r)
  \/ Set(r)
  \/ EditRefused(r)
  \/ Write(r)
  \/ Scan(r)
  \/ Answer(r)

\* A load asks the database, or the store.
LoadStep(r) ==
  \/ Load(r)
  \/ LoadPart(r)

-----------------------------------------------------------------------------
(* Properties *)

\* The variables stay within their types; only what is there has an age.
TypeOK ==
  /\ left \in [Keys -> 0 .. TTL]
  /\ age \in [Keys -> [Sources -> Nat]]
  /\ \A k \in Keys \ Present : age[k] = Nothing /\ k \notin late
  /\ \A r \in Requests :
       /\ req[r].pc \in Steps /\ req[r].key \in Sources \cup Keys \cup {None}
       /\ req[r].part \in Keys \cup {None} /\ req[r].todo \subseteq Keys
       /\ req[r].spent \in 0 .. FillTime /\ req[r].rest \subseteq Patterns
  /\ late \subseteq Keys
  /\ editor \in [Sources -> Requests \cup {"nobody", "published"}]

\* What an entry may be behind: what its reader took and what it lives, twice for
\* home, which may have embedded an entry at its end.
Behind == [k \in Keys |-> IF k = Home THEN 2 * (TTL + FillTime) ELSE TTL + FillTime + 1]

\* The cache keeps the promise of module Freshness.
Promise ==
  INSTANCE Freshness WITH Keys <- Keys, Sources <- Sources, Bound <- Behind, age <- age,
    late <- late, published <- {s \in Sources : editor[s] = "published"}

CacheIsFresh == Promise!Spec
=============================================================================
