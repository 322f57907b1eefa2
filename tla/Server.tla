------------------------------- MODULE Server -------------------------------
(***************************************************************************)
(* One server seen from the panel and the app: the administrator's login,  *)
(* the creator programme, the content with its caches, and the access to   *)
(* the store under them.  The parts meet in three places.                  *)
(*   - Requests: each is one handler of one part at a time; a reader of    *)
(*     the content that needs the store's catalogue is also a request of   *)
(*     module ShopifyToken until that answers or gives up.                 *)
(*   - The panel: what an administrator does needs a token that is         *)
(*     admitted when the request comes in, and perhaps no longer after.    *)
(*   - Redis and time: a tick is one for every key, and a Redis that is    *)
(*     restarted empty loses the keys of all of them.                      *)
(***************************************************************************)
EXTENDS Naturals, FiniteSets

CONSTANTS
  Requests,
  Budgets,                               \* how many requests of each kind begin, and how much
                                         \* else happens to the server, in a behaviour
  Tokens, MaxAttempts, Lifetime,         \* as in module AdminLogin
  Applications,                          \* as in module Influencers
  Home, Banners, Pages, Listings, Matching, Details, Catalogue, Embedded, \* as in
  TTL, FillTime,                         \* module Content
  Processes, MaxRetries,                 \* as in module ShopifyToken
  None

ASSUME ServerAssumption ==
  /\ IsFiniteSet(Requests)
  /\ Budgets \subseteq [{"login", "programme", "content", "store", "event"} -> Nat]
  /\ MaxAttempts \in Nat \ {0} /\ Lifetime \in Nat \ {0}
  /\ TTL \in Nat \ {0} /\ FillTime \in Nat /\ MaxRetries \in Nat
  /\ Home # Banners /\ {Home, Banners} \cap Pages = {}
  /\ Catalogue \notin {Home, Banners} \cup Pages \cup Listings \cup Details
  /\ Matching \in [1 .. 4 -> SUBSET Listings]
  /\ Embedded \subseteq {Banners} \cup Listings \cup Details
  /\ ({Home, Banners} \cup Pages) \cap (Listings \cup Details) = {}
  /\ None \notin Tokens \cup Applications \cup Processes \cup {Home, Banners, Catalogue}
                 \cup Pages \cup Listings \cup Details
                 \cup {"PENDING", "APPROVED", "REJECTED", "valid", "void"}
  /\ {"nobody", "published"} \cap Requests = {}

VARIABLES
  failures, life, revoked, loginReq, guesses, loggedOut,          \* of AdminLogin
  status, last, creator, suspended, programmeReq, contested,      \* of Influencers
  left, age, contentReq, late, editor,                            \* of Content
  memory, cached, load, shopReq, revocations,                     \* of ShopifyToken
  budget                                                          \* what is left of it

Login == INSTANCE AdminLogin WITH req <- loginReq
Programme == INSTANCE Influencers WITH req <- programmeReq
Content == INSTANCE Content WITH req <- contentReq
Shop == INSTANCE ShopifyToken WITH req <- shopReq

loginVars == <<failures, life, revoked, loginReq, guesses, loggedOut>>
programmeVars == <<status, last, creator, suspended, programmeReq, contested>>
contentVars == <<left, age, contentReq, late, editor>>
shopVars == <<memory, cached, load, shopReq, revocations>>
vars == <<loginVars, programmeVars, contentVars, shopVars, budget>>

Init ==
  /\ Login!Init /\ Programme!Init /\ Content!Init /\ Shop!Init
  /\ budget \in Budgets

-----------------------------------------------------------------------------
(* Requests come in *)

Free(r) ==
  /\ Login!At(r, "idle") /\ Programme!At(r, "idle")
  /\ Content!At(r, "idle") /\ Shop!At(r, "idle")

\* AdminJwtGuard: the panel is open to whoever holds a token that is admitted.
PanelOpen == \E t \in Tokens : Login!Admits(t)

Spend(kind) ==
  /\ budget[kind] > 0
  /\ budget' = [budget EXCEPT ![kind] = @ - 1]

Arrives(r, kind) == Free(r) /\ Spend(kind)

BeginLogin(r) ==
  /\ Arrives(r, "login")
  /\ \/ \E verdict \in Login!VerifyPassword : Login!LoginBegin(r, verdict)
     \/ \E t \in Tokens : Login!LogoutBegin(r, t)
  /\ UNCHANGED <<programmeVars, contentVars, shopVars>>

BeginProgramme(r) ==
  /\ Arrives(r, "programme")
  /\ \/ Programme!Apply(r)
     \/ /\ PanelOpen
        /\ \E a \in Applications : Programme!ApproveRead(r, a) \/ Programme!RejectRead(r, a)
  /\ UNCHANGED <<loginVars, contentVars, shopVars>>

BeginContent(r) ==
  /\ Arrives(r, "content")
  /\ \/ \E k \in Content!Keys : Content!Miss(r, k)
     \/ /\ PanelOpen
        /\ \/ \E scope \in Content!Scopes : Content!Flush(r, scope)
           \/ \E s \in Content!ContentKeys : Content!Edit(r, s)
  /\ UNCHANGED <<loginVars, programmeVars, shopVars>>

\* Every other caller of the store's API.
BeginStore(r) ==
  /\ Arrives(r, "store")
  /\ \E p \in Processes : Shop!Begin(r, p)
  /\ UNCHANGED <<loginVars, programmeVars, contentVars>>

-----------------------------------------------------------------------------
(* Requests go on *)

LoginStep(r) ==
  /\ Login!Step(r)
  /\ UNCHANGED <<programmeVars, contentVars, shopVars, budget>>

ProgrammeStep(r) ==
  /\ Programme!Step(r)
  /\ UNCHANGED <<loginVars, contentVars, shopVars, budget>>

\* What is loaded is the store's.
FromStore(r) ==
  \/ Content!At(r, "load") /\ contentReq[r].key \in Content!ProductKeys
  \/ Content!At(r, "inner") /\ contentReq[r].part \in Content!ProductKeys

ContentStep(r) ==
  /\ Content!Step(r) \/ (~FromStore(r) /\ Content!LoadStep(r))
  /\ UNCHANGED <<loginVars, programmeVars, shopVars, budget>>

AskStore(r) ==
  /\ FromStore(r)
  /\ \E p \in Processes : Shop!Begin(r, p)
  /\ UNCHANGED <<loginVars, programmeVars, contentVars, budget>>

ShopStep(r) ==
  /\ Shop!Step(r)
  /\ UNCHANGED <<loginVars, programmeVars, contentVars, budget>>

ShopLoad ==
  /\ \E p \in Processes : Shop!LoadStep(p)
  /\ UNCHANGED <<loginVars, programmeVars, contentVars, budget>>

StoreAnswers(r) ==
  /\ Shop!Answered(r)
  /\ IF FromStore(r) THEN Content!Load(r) \/ Content!LoadPart(r) ELSE UNCHANGED contentVars
  /\ UNCHANGED <<loginVars, programmeVars, budget>>

\* A list that was asked for fails; a section of home is left out.
StoreFails(r) ==
  /\ Shop!At(r, "failed")
  /\ Shop!Return(r)
  /\ \/ Content!SkipPart(r)
     \/ Content!At(r, "load") /\ Content!Stop(r)
     \/ Content!At(r, "idle") /\ UNCHANGED contentVars
  /\ UNCHANGED <<loginVars, programmeVars, memory, cached, load, revocations, budget>>

\* The two operations on a creator are a read and a write that may as well be one.
Creator ==
  /\ PanelOpen
  /\ Programme!Suspend \/ Programme!Unsuspend
  /\ UNCHANGED <<loginVars, contentVars, shopVars, budget>>

-----------------------------------------------------------------------------
(* What happens to all of them *)

\* The server, or what it waits for, fails in the middle of a request.
Stop(r) ==
  /\ Spend("event")
  /\ \/ /\ Login!Stop(r)
        /\ UNCHANGED <<programmeVars, contentVars, shopVars>>
     \/ /\ Programme!Stop(r)
        /\ UNCHANGED <<loginVars, contentVars, shopVars>>
     \/ /\ ~Content!At(r, "idle") \/ ~Shop!At(r, "idle")
        /\ IF Content!At(r, "idle") THEN UNCHANGED contentVars ELSE Content!Stop(r)
        /\ Shop!Return(r)
        /\ UNCHANGED <<loginVars, programmeVars, memory, cached, load, revocations>>

\* The database fails on what a section of home shows.
SectionFails(r) ==
  /\ Spend("event")
  /\ ~FromStore(r)
  /\ Content!SkipPart(r)
  /\ UNCHANGED <<loginVars, programmeVars, shopVars>>

\* A call of the store fails, or what a load of the token does.
StoreTrouble ==
  /\ Spend("event")
  /\ \/ \E r \in Requests : Shop!CallFails(r)
     \/ \E p \in Processes : Shop!LoadFails(p)
  /\ UNCHANGED <<loginVars, programmeVars, contentVars>>

\* A second, say; it is the same for the tokens, the keys and the readers.
Tick ==
  /\ Login!Tick /\ Content!Tick
  /\ UNCHANGED <<programmeVars, shopVars, budget>>

WindowEnds ==
  /\ Login!WindowEnds
  /\ UNCHANGED <<programmeVars, contentVars, shopVars, budget>>

Drift ==
  /\ Spend("event")
  /\ \E s \in Content!Sources : Content!Drift(s)
  /\ UNCHANGED <<loginVars, programmeVars, shopVars>>

\* The store revokes its tokens, or one expires.
TokenLost ==
  /\ Spend("event")
  /\ Shop!Revoke \/ \E p \in Processes : Shop!Lapse(p)
  /\ UNCHANGED <<loginVars, programmeVars, contentVars>>

\* Redis is restarted without its keys.
RedisLost ==
  /\ Spend("event")
  /\ Login!RedisLost /\ Content!RedisLost /\ Shop!RedisLost
  /\ UNCHANGED programmeVars

Next ==
  \/ \E r \in Requests :
       \/ BeginLogin(r)
       \/ BeginProgramme(r)
       \/ BeginContent(r)
       \/ BeginStore(r)
       \/ LoginStep(r)
       \/ ProgrammeStep(r)
       \/ ContentStep(r)
       \/ AskStore(r)
       \/ ShopStep(r)
       \/ StoreAnswers(r)
       \/ StoreFails(r)
       \/ Stop(r)
       \/ SectionFails(r)
  \/ ShopLoad
  \/ Creator
  \/ Tick
  \/ WindowEnds
  \/ Drift
  \/ TokenLost
  \/ StoreTrouble
  \/ RedisLost

Spec == Init /\ [][Next]_vars

-----------------------------------------------------------------------------
(* Properties: those of the parts, which hold of the server as a whole. *)

\* The variables stay within their types, and each slot is one handler's.
TypeOK ==
  /\ Login!TypeOK /\ Programme!TypeOK /\ Content!TypeOK /\ Shop!TypeOK
  /\ \A r \in Requests :
       /\ Content!At(r, "idle") \/ Shop!At(r, "idle") \/ FromStore(r)
       /\ Login!At(r, "idle") \/ Programme!At(r, "idle")
  /\ budget \in [{"login", "programme", "content", "store", "event"} -> Nat]

\* Wrong passwords are bounded within a window (AdminAuthService.login).
GuessesBounded == Login!GuessesBounded

\* A token that was logged out stays out (AdminAuthService.logout).
LogoutHolds == Login!LogoutHolds

\* APPROVED applications and creators go together (AdminInfluencerService.approve).
CreatorsAreApproved == Programme!CreatorsAreApproved

\* The caches keep the promise of module Freshness (ContentService, ProductsService,
\* CollectionsService and the edits of the panel).
CacheIsFresh == Content!CacheIsFresh

\* A request that met a revoked token gets through with its retry
\* (ShopifyGraphqlClient.request).
RetryGetsThrough == Shop!RetryGetsThrough
=============================================================================
