---------------------------- MODULE ServerProofs ----------------------------
(***************************************************************************)
(* Proofs about module Server: what the administrator's login, the creator *)
(* programme, the caches and the access to the store promise holds of the  *)
(* server as a whole, for every value of the constants.                    *)
(*                                                                         *)
(* For each of the four parts a first lemma says that a step of the server *)
(* is a step of the part or leaves its variables alone; the invariants     *)
(* then speak of the part only.  What the parts share, the requests, comes *)
(* last, with the types.                                                   *)
(***************************************************************************)
EXTENDS Server, FiniteSetTheorems, TLAPS

(***************************************************************************)
(* The administrator's login                                               *)
(***************************************************************************)

LoginMoves(r) ==
  \/ \E verdict \in Login!VerifyPassword : Login!LoginBegin(r, verdict)
  \/ \E t \in Tokens : Login!LogoutBegin(r, t)
  \/ Login!RecordFailure(r)
  \/ \E t \in Tokens : Login!LoginDone(r, t)
  \/ Login!Revoke(r)
  \/ Login!Stop(r)

LoginNext ==
  \/ \E r \in Requests : LoginMoves(r)
  \/ Login!WindowEnds
  \/ Login!Tick
  \/ Login!RedisLost
  \/ UNCHANGED loginVars

\* A step of the server, seen from the login.
LEMMA ProjectLogin == [Next]_vars => LoginNext
  <1> SUFFICES ASSUME [Next]_vars PROVE LoginNext
    OBVIOUS
  <1>1. ASSUME NEW r \in Requests, BeginLogin(r) PROVE LoginNext
    BY <1>1 DEF BeginLogin, LoginNext, LoginMoves
  <1>2. ASSUME NEW r \in Requests, LoginStep(r) PROVE LoginNext
    BY <1>2 DEF LoginStep, Login!Step, LoginNext, LoginMoves
  <1>3. ASSUME NEW r \in Requests, Stop(r) PROVE LoginNext
    BY <1>3 DEF Stop, LoginNext, LoginMoves
  <1>4. ASSUME NEW r \in Requests,
               \/ BeginProgramme(r) \/ BeginContent(r) \/ BeginStore(r)
               \/ ProgrammeStep(r) \/ ContentStep(r)
               \/ AskStore(r) \/ ShopStep(r) \/ StoreAnswers(r) \/ StoreFails(r)
               \/ SectionFails(r)
        PROVE  UNCHANGED loginVars
    BY <1>4 DEF BeginProgramme, BeginContent, BeginStore, ProgrammeStep, ContentStep,
                AskStore, ShopStep, StoreAnswers, StoreFails, SectionFails
  <1>5. CASE Tick
    BY <1>5 DEF Tick, LoginNext
  <1>6. CASE WindowEnds
    BY <1>6 DEF WindowEnds, LoginNext
  <1>7. CASE RedisLost
    BY <1>7 DEF RedisLost, LoginNext
  <1>8. CASE ShopLoad \/ Creator \/ Drift \/ TokenLost \/ StoreTrouble \/ UNCHANGED vars
    BY <1>8 DEF ShopLoad, Creator, Drift, TokenLost, StoreTrouble, vars, LoginNext
  <1>9. QED
    BY <1>1, <1>2, <1>3, <1>4, <1>5, <1>6, <1>7, <1>8 DEF Next, LoginNext

LoginTypes ==
  /\ life \in [Tokens -> 0 .. Lifetime] /\ revoked \in [Tokens -> 0 .. Lifetime]
  /\ loginReq \in [Requests -> [pc : Login!Steps, token : Tokens \cup {None}, left : 0 .. Lifetime]]
  /\ loggedOut \subseteq Tokens

\* The key that revokes a token, written or still to be written, outlives it.
KeysOutlive ==
  /\ \A t \in loggedOut : life[t] <= revoked[t]
  /\ \A r \in Requests : Login!At(r, "revoke") =>
       loginReq[r].token \in Tokens /\ life[loginReq[r].token] <= loginReq[r].left

LogoutInv == LoginTypes /\ KeysOutlive

\* A step of the login keeps the keys that revoke longer than the tokens.
LEMMA LogoutStep ==
  ASSUME LogoutInv, LoginNext
  PROVE  LogoutInv'
  <1> USE DEF LogoutInv
  <1> USE DEF Login!At, Login!Become, Login!Return, Login!Idle, Login!Steps
  <1>0. Lifetime \in Nat /\ Lifetime > 0
    BY ServerAssumption
  <1> USE <1>0
  <1>1. ASSUME NEW r \in Requests, NEW verdict \in Login!VerifyPassword,
               Login!LoginBegin(r, verdict)
        PROVE  LogoutInv'
    BY <1>1 DEF Login!LoginBegin, Login!VerifyPassword, LoginTypes, KeysOutlive
  <1>2. ASSUME NEW r \in Requests, NEW t \in Tokens, Login!LogoutBegin(r, t) PROVE LogoutInv'
    <2>1. life[t] <= Login!RevokeTTL(t) /\ Login!RevokeTTL(t) \in 0 .. Lifetime
      BY <1>2 DEF Login!RevokeTTL, LoginTypes
    <2>2. LoginTypes'
      BY <1>2, <2>1 DEF Login!LogoutBegin, LoginTypes
    <2>3. KeysOutlive'
      BY <1>2, <2>1 DEF Login!LogoutBegin, LoginTypes, KeysOutlive
    <2>4. QED
      BY <2>2, <2>3
  <1>3. ASSUME NEW r \in Requests, Login!RecordFailure(r) PROVE LogoutInv'
    BY <1>3 DEF Login!RecordFailure, LoginTypes, KeysOutlive
  <1>4. ASSUME NEW r \in Requests, NEW t \in Tokens, Login!LoginDone(r, t) PROVE LogoutInv'
    <2>1. LoginTypes'
      BY <1>4 DEF Login!LoginDone, LoginTypes
    <2>2. \A u \in loggedOut' : life'[u] <= revoked'[u]
      BY <1>4 DEF Login!LoginDone, LoginTypes, KeysOutlive
    <2>3. ASSUME NEW q \in Requests, Login!At(q, "revoke")'
          PROVE  /\ loginReq'[q].token \in Tokens
                 /\ life'[loginReq'[q].token] <= loginReq'[q].left
      BY <1>4, <2>3 DEF Login!LoginDone, LoginTypes, KeysOutlive
    <2>4. QED
      BY <2>1, <2>2, <2>3 DEF KeysOutlive
  <1>5. ASSUME NEW r \in Requests, Login!Revoke(r) PROVE LogoutInv'
    <2>1. LoginTypes'
      BY <1>5 DEF Login!Revoke, LoginTypes, KeysOutlive
    <2>2. KeysOutlive'
      BY <1>5 DEF Login!Revoke, LoginTypes, KeysOutlive
    <2>3. QED
      BY <2>1, <2>2
  <1>6. ASSUME NEW r \in Requests, Login!Stop(r) PROVE LogoutInv'
    BY <1>6 DEF Login!Stop, LoginTypes, KeysOutlive
  <1>7. CASE Login!WindowEnds
    BY <1>7 DEF Login!WindowEnds, LoginTypes, KeysOutlive
  <1>8. CASE Login!Tick
    <2>1. LoginTypes'
      BY <1>8 DEF Login!Tick, Login!Spent, LoginTypes
    <2>2. KeysOutlive'
      BY <1>8 DEF Login!Tick, Login!Spent, LoginTypes, KeysOutlive
    <2>3. QED
      BY <2>1, <2>2
  <1>9. CASE Login!RedisLost
    BY <1>9 DEF Login!RedisLost, LoginTypes, KeysOutlive
  <1>10. CASE UNCHANGED loginVars
    BY <1>10 DEF loginVars, LoginTypes, KeysOutlive
  <1>11. QED
    BY <1>1, <1>2, <1>3, <1>4, <1>5, <1>6, <1>7, <1>8, <1>9, <1>10 DEF LoginNext, LoginMoves

\* A token that was logged out never opens the panel again, however many requests of
\* the panel and the app are under way (AdminAuthService.logout, AdminJwtStrategy).
THEOREM LogoutIsFinal == Spec => []LogoutHolds
  <1>1. Init => LogoutInv
    BY ServerAssumption DEF Init, Login!Init, LogoutInv, LoginTypes, KeysOutlive, Login!At,
                            Login!Idle, Login!Steps
  <1>2. LogoutInv /\ [Next]_vars => LogoutInv'
    BY ProjectLogin, LogoutStep
  <1>3. LogoutInv => LogoutHolds
    BY DEF LogoutInv, LoginTypes, KeysOutlive, LogoutHolds, Login!LogoutHolds,
           Login!Admits, Login!IsRevoked
  <1>4. QED
    BY <1>1, <1>2, <1>3, PTL DEF Spec

-----------------------------------------------------------------------------
(* Wrong passwords: the counter, and the comparisons that go on *)

Comparing == {r \in Requests : Login!At(r, "wrong")}

GuessInv ==
  /\ LoginTypes
  /\ failures \in Nat /\ guesses = failures
  /\ failures + Cardinality(Comparing) < MaxAttempts + Cardinality(Requests)

\* Those who compare are some of the requests.
LEMMA ComparingFinite ==
  /\ IsFiniteSet(Comparing) /\ Cardinality(Comparing) \in Nat
  /\ Cardinality(Requests) \in Nat /\ Cardinality(Comparing) <= Cardinality(Requests)
  BY ServerAssumption, FS_Subset, FS_CardinalityType DEF Comparing

\* The counter starts again: whoever still compares is one of the requests.
LEMMA CounterEmptied ==
  ASSUME failures' = 0
  PROVE  failures' + Cardinality(Comparing)' < MaxAttempts + Cardinality(Requests)
  <1>1. /\ Cardinality(Comparing)' \in Nat /\ Cardinality(Requests) \in Nat
        /\ Cardinality(Comparing)' <= Cardinality(Requests)
    <2>1. Comparing' \subseteq Requests
      BY DEF Comparing
    <2>2. QED
      BY <2>1, ServerAssumption, FS_Subset, FS_CardinalityType
  <1>2. QED
    BY <1>1, ServerAssumption

\* A comparison that begins needs a counter below the limit.
LEMMA GuessStep ==
  ASSUME GuessInv, LogoutInv', LoginNext
  PROVE  GuessInv'
  <1> USE ServerAssumption
  <1> USE DEF Login!At, Login!Become, Login!Return, Login!Idle, Login!Steps
  <1>0. LoginTypes /\ LoginTypes'
    BY DEF GuessInv, LogoutInv
  <1>1. ASSUME NEW r \in Requests, NEW verdict \in Login!VerifyPassword,
               Login!LoginBegin(r, verdict)
        PROVE  GuessInv'
    <2>1. Comparing' \subseteq Comparing \cup {r} /\ r \notin Comparing
      BY <1>0, <1>1 DEF Login!LoginBegin, Comparing, LoginTypes
    <2>2. Cardinality(Comparing \cup {r}) = Cardinality(Comparing) + 1
      BY <2>1, ComparingFinite, FS_AddElement
    <2>3. /\ Cardinality(Comparing') \in Nat
          /\ Cardinality(Comparing') <= Cardinality(Comparing \cup {r})
          /\ Cardinality(Comparing \cup {r}) <= Cardinality(Requests)
      <3>1. IsFiniteSet(Comparing \cup {r}) /\ Comparing \cup {r} \subseteq Requests
        BY ComparingFinite, FS_AddElement DEF Comparing
      <3>2. QED
        BY <2>1, <3>1, FS_Subset, FS_CardinalityType
    <2>4. failures' = failures /\ guesses' = guesses /\ ~(failures >= MaxAttempts)
      BY <1>1 DEF Login!LoginBegin, Login!Locked
    <2>5. QED
      BY <1>0, <2>2, <2>3, <2>4, ComparingFinite DEF GuessInv
  <1>2. ASSUME NEW r \in Requests, Login!RecordFailure(r) PROVE GuessInv'
    <2>1. Comparing' = Comparing \ {r} /\ r \in Comparing
      BY <1>0, <1>2 DEF Login!RecordFailure, Comparing, LoginTypes
    <2>2. Cardinality(Comparing') = Cardinality(Comparing) - 1
      BY <2>1, ComparingFinite, FS_RemoveElement
    <2>3. failures' = failures + 1 /\ guesses' = guesses + 1
      BY <1>2 DEF Login!RecordFailure
    <2>4. QED
      BY <1>0, <2>2, <2>3, ComparingFinite DEF GuessInv
  <1>3. ASSUME NEW r \in Requests,
               \/ \E t \in Tokens : Login!LogoutBegin(r, t)
               \/ Login!Revoke(r)
               \/ Login!Stop(r)
        PROVE  GuessInv'
    <2>1. failures' = failures /\ guesses' = guesses /\ Comparing' \subseteq Comparing
      BY <1>0, <1>3 DEF Login!LogoutBegin, Login!Revoke, Login!Stop, Comparing, LoginTypes
    <2>2. /\ Cardinality(Comparing') \in Nat
          /\ Cardinality(Comparing') <= Cardinality(Comparing)
      BY <2>1, ComparingFinite, FS_Subset, FS_CardinalityType
    <2>3. QED
      BY <1>0, <2>1, <2>2, ComparingFinite DEF GuessInv
  <1>4. ASSUME \/ \E r \in Requests, t \in Tokens : Login!LoginDone(r, t)
               \/ Login!WindowEnds
               \/ Login!RedisLost
        PROVE  GuessInv'
    <2>1. failures' = 0 /\ guesses' = 0
      BY <1>4 DEF Login!LoginDone, Login!WindowEnds, Login!RedisLost
    <2>2. QED
      BY <1>0, <2>1, CounterEmptied DEF GuessInv
  <1>5. ASSUME Login!Tick \/ UNCHANGED loginVars PROVE GuessInv'
    <2>1. failures' = failures /\ guesses' = guesses /\ Comparing' = Comparing
      BY <1>5 DEF Login!Tick, loginVars, Comparing
    <2>2. QED
      BY <1>0, <2>1 DEF GuessInv
  <1>6. QED
    BY <1>1, <1>2, <1>3, <1>4, <1>5 DEF LoginNext, LoginMoves

\* Within a window of the counter wrong passwords are bounded by the configured number
\* and the requests that were past the check by then (AdminAuthService.login).
THEOREM LockoutBounds == Spec => []GuessesBounded
  <1>1. Init => LogoutInv /\ GuessInv
    <2> SUFFICES ASSUME Init PROVE LogoutInv /\ GuessInv
      OBVIOUS
    <2>1. LogoutInv
      BY ServerAssumption DEF Init, Login!Init, LogoutInv, LoginTypes, KeysOutlive,
                              Login!At, Login!Idle, Login!Steps
    <2>2. failures = 0 /\ guesses = 0
      BY DEF Init, Login!Init
    <2>3. QED
      BY <2>1, <2>2, ComparingFinite, ServerAssumption DEF GuessInv, LogoutInv
  <1>2. LogoutInv /\ GuessInv /\ [Next]_vars => (LogoutInv /\ GuessInv)'
    BY ProjectLogin, LogoutStep, GuessStep
  <1>3. GuessInv => GuessesBounded
    BY ComparingFinite, ServerAssumption
       DEF GuessInv, GuessesBounded, Login!GuessesBounded, Login!Cardinality, Cardinality
  <1>4. QED
    BY <1>1, <1>2, <1>3, PTL DEF Spec

(***************************************************************************)
(* The creator programme                                                   *)
(***************************************************************************)

ProgrammeNext ==
  \/ \E r \in Requests :
       \/ Programme!Apply(r)
       \/ Programme!AssertCanApply(r)
       \/ \E a \in Applications :
            \/ Programme!ApproveRead(r, a)
            \/ Programme!RejectRead(r, a)
            \/ Programme!CreateApplication(r, a)
       \/ Programme!Approve(r)
       \/ Programme!Reject(r)
       \/ Programme!Stop(r)
  \/ Programme!Suspend
  \/ Programme!Unsuspend
  \/ UNCHANGED programmeVars

\* A step of the server, seen from the programme.
LEMMA ProjectProgramme == [Next]_vars => ProgrammeNext
  <1> SUFFICES ASSUME [Next]_vars PROVE ProgrammeNext
    OBVIOUS
  <1>1. ASSUME NEW r \in Requests, BeginProgramme(r) PROVE ProgrammeNext
    BY <1>1 DEF BeginProgramme, ProgrammeNext
  <1>2. ASSUME NEW r \in Requests, ProgrammeStep(r) PROVE ProgrammeNext
    BY <1>2 DEF ProgrammeStep, Programme!Step, ProgrammeNext
  <1>3. ASSUME NEW r \in Requests, Stop(r) PROVE ProgrammeNext
    BY <1>3 DEF Stop, ProgrammeNext
  <1>4. ASSUME NEW r \in Requests,
               \/ BeginLogin(r) \/ BeginContent(r) \/ BeginStore(r)
               \/ LoginStep(r) \/ ContentStep(r)
               \/ AskStore(r) \/ ShopStep(r) \/ StoreAnswers(r) \/ StoreFails(r)
               \/ SectionFails(r)
        PROVE  UNCHANGED programmeVars
    BY <1>4 DEF BeginLogin, BeginContent, BeginStore, LoginStep, ContentStep,
                AskStore, ShopStep, StoreAnswers, StoreFails, SectionFails
  <1>5. CASE Creator
    BY <1>5 DEF Creator, ProgrammeNext
  <1>6. CASE \/ ShopLoad \/ Tick \/ WindowEnds \/ Drift \/ TokenLost \/ StoreTrouble
             \/ RedisLost \/ UNCHANGED vars
    BY <1>6 DEF ShopLoad, Tick, WindowEnds, Drift, TokenLost, StoreTrouble, RedisLost, vars,
                ProgrammeNext
  <1>7. QED
    BY <1>1, <1>2, <1>3, <1>4, <1>5, <1>6 DEF Next, ProgrammeNext

ProgrammeTypes ==
  /\ status \in [Applications -> Programme!Statuses \cup {None}]
  /\ creator \in Applications \cup {None}
  /\ programmeReq \in [Requests -> [pc : Programme!Steps, app : Applications \cup {None}]]

\* A decision under way is on an application that is pending still, and is the only one
\* on it, unless the application is contested.
DecisionsStand ==
  \A r \in Requests : programmeReq[r].app # None \/ programmeReq[r].pc \in {"approve", "reject"} =>
    /\ programmeReq[r].app \in Applications
    /\ programmeReq[r].app \notin contested =>
         /\ status[programmeReq[r].app] = "PENDING"
         /\ \A q \in Requests \ {r} : programmeReq[q].app # programmeReq[r].app

ProgrammeInv == ProgrammeTypes /\ DecisionsStand /\ CreatorsAreApproved

\* A step of the programme keeps applications, decisions and the creator in line.
LEMMA ProgrammeStepKeeps ==
  ASSUME ProgrammeInv, ProgrammeNext
  PROVE  ProgrammeInv'
  <1> USE ServerAssumption DEF ProgrammeInv
  <1> USE DEF Programme!At, Programme!Become, Programme!Return, Programme!Idle,
              Programme!Steps, Programme!Statuses, CreatorsAreApproved,
              Programme!CreatorsAreApproved
  <1>1. ASSUME NEW r \in Requests,
               Programme!Apply(r) \/ Programme!AssertCanApply(r) \/ Programme!Stop(r)
        PROVE  ProgrammeInv'
    BY <1>1 DEF Programme!Apply, Programme!AssertCanApply, Programme!Stop, ProgrammeTypes,
                DecisionsStand
  <1>2. ASSUME NEW r \in Requests, NEW a \in Applications, NEW decision \in {"approve", "reject"},
               Programme!Decide(r, a, decision)
        PROVE  ProgrammeInv'
    <2>1. ProgrammeTypes' /\ CreatorsAreApproved'
      BY <1>2 DEF Programme!Decide, ProgrammeTypes
    <2>2. DecisionsStand'
      BY <1>2 DEF Programme!Decide, Programme!MustBePending, ProgrammeTypes, DecisionsStand
    <2>3. QED
      BY <2>1, <2>2
  <1>3. ASSUME NEW r \in Requests, NEW a \in Applications, Programme!CreateApplication(r, a)
        PROVE  ProgrammeInv'
    <2>1. ProgrammeTypes' /\ CreatorsAreApproved'
      BY <1>3 DEF Programme!CreateApplication, ProgrammeTypes
    <2>2. DecisionsStand'
      BY <1>3 DEF Programme!CreateApplication, ProgrammeTypes, DecisionsStand
    <2>3. QED
      BY <2>1, <2>2
  <1>4. ASSUME NEW r \in Requests, Programme!Approve(r) PROVE ProgrammeInv'
    <2>1. programmeReq[r].app \in Applications
      BY <1>4 DEF Programme!Approve, DecisionsStand
    <2>2. ProgrammeTypes' /\ CreatorsAreApproved'
      BY <1>4, <2>1 DEF Programme!Approve, ProgrammeTypes
    <2>3. DecisionsStand'
      BY <1>4, <2>1 DEF Programme!Approve, ProgrammeTypes, DecisionsStand
    <2>4. QED
      BY <2>2, <2>3
  <1>5. ASSUME NEW r \in Requests, Programme!Reject(r) PROVE ProgrammeInv'
    <2>1. /\ programmeReq[r].app \in Applications
          /\ programmeReq[r].app \notin contested => status[programmeReq[r].app] = "PENDING"
      BY <1>5 DEF Programme!Reject, DecisionsStand
    <2>2. ProgrammeTypes' /\ CreatorsAreApproved'
      BY <1>5, <2>1 DEF Programme!Reject, ProgrammeTypes
    <2>3. DecisionsStand'
      BY <1>5, <2>1 DEF Programme!Reject, ProgrammeTypes, DecisionsStand
    <2>4. QED
      BY <2>2, <2>3
  <1>6. ASSUME Programme!Suspend \/ Programme!Unsuspend \/ UNCHANGED programmeVars
        PROVE  ProgrammeInv'
    BY <1>6 DEF Programme!Suspend, Programme!Unsuspend, programmeVars, ProgrammeTypes,
                DecisionsStand
  <1>7. QED
    BY <1>1, <1>2, <1>3, <1>4, <1>5, <1>6
       DEF ProgrammeNext, Programme!ApproveRead, Programme!RejectRead

\* An application says APPROVED exactly if it made the customer a creator, unless two
\* decisions on it were under way at once (AdminInfluencerService.approve and reject).
THEOREM ApprovalMakesCreator == Spec => []CreatorsAreApproved
  <1>1. Init => ProgrammeInv
    BY ServerAssumption DEF Init, Programme!Init, ProgrammeInv, ProgrammeTypes, DecisionsStand,
         CreatorsAreApproved, Programme!CreatorsAreApproved, Programme!Idle, Programme!Steps,
         Programme!Statuses
  <1>2. ProgrammeInv /\ [Next]_vars => ProgrammeInv'
    BY ProjectProgramme, ProgrammeStepKeeps
  <1>3. ProgrammeInv => CreatorsAreApproved
    BY DEF ProgrammeInv
  <1>4. QED
    BY <1>1, <1>2, <1>3, PTL DEF Spec

(***************************************************************************)
(* The access to the store                                                 *)
(***************************************************************************)

ShopMoves(r) ==
  \/ \E p \in Processes : Shop!Begin(r, p)
  \/ Shop!GetToken(r)
  \/ Shop!Answered(r)
  \/ Shop!Rejected(r)
  \/ Shop!CallFails(r)
  \/ Shop!Delete(r)
  \/ Shop!Return(r) /\ UNCHANGED <<memory, cached, load, revocations>>

ShopLoads(p) ==
  \/ Shop!LoadRedis(p)
  \/ Shop!Fetch(p)
  \/ Shop!StoreRedis(p)
  \/ Shop!SetMemory(p)
  \/ Shop!LoadFails(p)
  \/ Shop!Lapse(p)

ShopNext ==
  \/ \E r \in Requests : ShopMoves(r)
  \/ \E p \in Processes : ShopLoads(p)
  \/ Shop!Revoke
  \/ Shop!RedisLost
  \/ UNCHANGED shopVars

\* A step of the server, seen from the access to the store.
LEMMA ProjectShop == [Next]_vars => ShopNext
  <1> SUFFICES ASSUME [Next]_vars PROVE ShopNext
    OBVIOUS
  <1>1. ASSUME NEW r \in Requests, BeginStore(r) \/ AskStore(r) PROVE ShopNext
    BY <1>1 DEF BeginStore, AskStore, ShopNext, ShopMoves
  <1>2. ASSUME NEW r \in Requests, ShopStep(r) PROVE ShopNext
    BY <1>2 DEF ShopStep, Shop!Step, ShopNext, ShopMoves
  <1>3. ASSUME NEW r \in Requests, StoreAnswers(r) \/ StoreFails(r) PROVE ShopNext
    BY <1>3 DEF StoreAnswers, StoreFails, ShopNext, ShopMoves
  <1>4. ASSUME NEW r \in Requests, Stop(r) PROVE ShopNext
    BY <1>4 DEF Stop, ShopNext, ShopMoves
  <1>5. ASSUME NEW r \in Requests,
               \/ BeginLogin(r) \/ BeginProgramme(r) \/ BeginContent(r)
               \/ LoginStep(r) \/ ProgrammeStep(r) \/ ContentStep(r)
               \/ SectionFails(r)
        PROVE  UNCHANGED shopVars
    BY <1>5 DEF BeginLogin, BeginProgramme, BeginContent, LoginStep, ProgrammeStep,
                ContentStep, SectionFails
  <1>6. CASE ShopLoad
    BY <1>6 DEF ShopLoad, Shop!LoadStep, ShopNext, ShopLoads
  <1>7. CASE TokenLost
    BY <1>7 DEF TokenLost, ShopNext, ShopLoads
  <1>8. CASE StoreTrouble
    BY <1>8 DEF StoreTrouble, ShopNext, ShopMoves, ShopLoads
  <1>9. CASE RedisLost
    BY <1>9 DEF RedisLost, ShopNext
  <1>10. CASE Creator \/ Tick \/ WindowEnds \/ Drift \/ UNCHANGED vars
    BY <1>10 DEF Creator, Tick, WindowEnds, Drift, vars, ShopNext
  <1>11. QED
    BY <1>1, <1>2, <1>3, <1>4, <1>5, <1>6, <1>7, <1>8, <1>9, <1>10 DEF Next, ShopNext

ShopReqs ==
  [pc : Shop!Steps, proc : Processes \cup {None}, token : Shop!TokensOrNone, tries : 0 .. MaxRetries,
   rejected : 0 .. 2, crossed : BOOLEAN]

ShopTypes ==
  /\ memory \in [Processes -> Shop!TokensOrNone] /\ cached \in Shop!TokensOrNone
  /\ load \in [Processes -> [step : Shop!LoadSteps, token : Shop!TokensOrNone]]
  /\ shopReq \in [Requests -> ShopReqs]
  /\ revocations \in {0, 1}
  /\ \A p \in Processes : load[p].step = "none" => load[p].token = None
  /\ \A r \in Requests : shopReq[r].pc \in {"token", "wait", "call", "delete"} =>
       shopReq[r].proc \in Processes

\* Before the store revokes its tokens every one of them is valid.
AllValid ==
  revocations = 0 =>
    /\ cached # "void"
    /\ \A p \in Processes : memory[p] # "void" /\ load[p].token # "void"
    /\ \A r \in Requests : shopReq[r].token # "void"

\* Of a request that met a 401 and crossed no load: until it has deleted the key no
\* process loads, and afterwards nothing it may use is the old token.
Replaced(r) ==
  LET q == shopReq[r] IN
  q.rejected # 0 /\ q.crossed = FALSE =>
    /\ revocations = 1 /\ q.rejected = 1
    /\ q.pc = "delete" => memory[q.proc] = None /\ \A p \in Processes : load[p].step = "none"
    /\ q.pc # "delete" =>
         /\ cached # "void" /\ q.token # "void"
         /\ \A p \in Processes : load[p].token # "void"
         /\ q.proc \in Processes => memory[q.proc] # "void"

ShopInv == ShopTypes /\ AllValid /\ \A r \in Requests : Replaced(r)

\* A request that has nothing to do with the store.
LEMMA ShopIdle ==
  /\ Shop!Idle \in ShopReqs
  /\ Shop!Idle.pc = "idle" /\ Shop!Idle.rejected = 0 /\ Shop!Idle.token = None
  BY ServerAssumption DEF ShopReqs, Shop!Idle, Shop!Steps, Shop!TokensOrNone

\* An absent token is neither kind of token.
LEMMA NoneIsNoToken == None # "void" /\ None # "valid"
  BY ServerAssumption

\* What becomes of an attempt that failed: no other token, and nothing is forgotten.
LEMMA AttemptFailed ==
  ASSUME NEW q \in ShopReqs, NEW p \in {Shop!Retried(q), Shop!Failed(q)}
  PROVE  /\ p \in ShopReqs /\ p.pc \in {"token", "failed"} /\ p.proc = q.proc
         /\ p.token \in {q.token, None}
         /\ p.rejected = q.rejected /\ p.crossed = q.crossed
  <1>1. PICK n \in 0 .. MaxRetries : q.tries < MaxRetries => n = q.tries + 1
    <2>1. q.tries \in 0 .. MaxRetries /\ MaxRetries \in Nat
      BY ServerAssumption DEF ShopReqs
    <2>2. q.tries < MaxRetries => q.tries + 1 \in 0 .. MaxRetries
      BY <2>1
    <2>3. QED
      BY <2>1, <2>2
  <1>2. /\ [q EXCEPT !.pc = "token", !.token = None, !.tries = n] \in ShopReqs
        /\ [q EXCEPT !.pc = "failed", !.token = None] \in ShopReqs
        /\ [q EXCEPT !.pc = "failed"] \in ShopReqs
    BY DEF ShopReqs, Shop!Steps, Shop!TokensOrNone
  <1>3. \/ p = [q EXCEPT !.pc = "token", !.token = None, !.tries = n]
        \/ p = [q EXCEPT !.pc = "failed", !.token = None]
        \/ p = [q EXCEPT !.pc = "failed"]
    BY <1>1 DEF Shop!Retried, Shop!Failed, ShopReqs
  <1>4. QED
    BY <1>2, <1>3 DEF ShopReqs

\* A retry takes a token anew.
LEMMA RetriedToken ==
  ASSUME NEW q \in ShopReqs
  PROVE  Shop!Retried(q).token = None
  BY DEF ShopReqs, Shop!Retried, Shop!Steps, Shop!TokensOrNone

\* What a request is after a 401.
LEMMA RejectedShape ==
  ASSUME NEW r \in Requests, ShopTypes, Shop!Rejected(r)
  PROVE  /\ shopReq'[r] \in ShopReqs
         /\ shopReq'[r].pc = "delete" /\ shopReq'[r].proc = shopReq[r].proc
         /\ shopReq'[r].token = shopReq[r].token
         /\ shopReq'[r].rejected \in {1, 2}
         /\ shopReq'[r].rejected = 2 => shopReq[r].rejected # 0
         /\ shopReq'[r].crossed = FALSE => shopReq[r].crossed = FALSE /\ ~Shop!Loading
  <1> DEFINE q == shopReq[r]
  <1> DEFINE c == q.crossed \/ Shop!Loading
  <1>1. q \in ShopReqs
    BY DEF ShopTypes
  <1>2. shopReq'[r] = [q EXCEPT !.pc = "delete", !.crossed = c,
                               !.rejected = IF q.rejected = 2 THEN 2 ELSE q.rejected + 1]
    BY <1>1 DEF Shop!Rejected, Shop!Become, ShopTypes, ShopReqs
  <1>3. PICK n \in {1, 2} :
          /\ n = (IF q.rejected = 2 THEN 2 ELSE q.rejected + 1)
          /\ n = 2 => q.rejected # 0
    BY <1>1 DEF ShopReqs
  <1>4. PICK d \in BOOLEAN : d = c /\ (d = FALSE => q.crossed = FALSE /\ ~Shop!Loading)
    BY <1>1 DEF ShopReqs
  <1>5. shopReq'[r] = [q EXCEPT !.pc = "delete", !.crossed = d, !.rejected = n]
    BY <1>2, <1>3, <1>4
  <1>6. [q EXCEPT !.pc = "delete", !.crossed = d, !.rejected = n] \in ShopReqs
    <2>1. ASSUME NEW a \in ShopReqs PROVE [a EXCEPT !.pc = "delete"] \in ShopReqs
      BY DEF ShopReqs, Shop!Steps
    <2>2. ASSUME NEW a \in ShopReqs PROVE [a EXCEPT !.crossed = d] \in ShopReqs
      BY DEF ShopReqs
    <2>3. ASSUME NEW a \in ShopReqs PROVE [a EXCEPT !.rejected = n] \in ShopReqs
      BY DEF ShopReqs
    <2>4. QED
      BY <1>1, <2>1, <2>2, <2>3
  <1>7. /\ shopReq'[r].pc = "delete" /\ shopReq'[r].proc = q.proc
        /\ shopReq'[r].token = q.token
        /\ shopReq'[r].rejected = n /\ shopReq'[r].crossed = d
    BY <1>1, <1>5 DEF ShopReqs
  <1> HIDE DEF c
  <1>8. QED
    BY <1>3, <1>4, <1>5, <1>6, <1>7

\* What a step does to one request, with the three layers under it as they are or better.
LEMMA OneRequest ==
  ASSUME ShopInv, ShopTypes', NEW r \in Requests,
         \A i \in Requests \ {r} : shopReq'[i] = shopReq[i],
         load' = load, UNCHANGED revocations,
         cached' \in {cached, None},
         \A p \in Processes : memory'[p] \in {memory[p], None},
         revocations = 0 => shopReq'[r].token # "void",
         Replaced(r)'
  PROVE  ShopInv'
  <1>1. AllValid'
    BY NoneIsNoToken DEF ShopInv, AllValid
  <1>2. ASSUME NEW i \in Requests \ {r} PROVE Replaced(i)'
    BY NoneIsNoToken DEF ShopInv, ShopTypes, Replaced
  <1>3. QED
    BY <1>1, <1>2 DEF ShopInv

\* A token comes from the memory, from a load under way, or from one that starts and
\* crosses whoever is about to delete the key.
LEMMA GetTokenKeeps ==
  ASSUME ShopInv, NEW r \in Requests, Shop!GetToken(r)
  PROVE  ShopInv'
  <1> DEFINE q == shopReq[r]
  <1> USE DEF Shop!At, Shop!Become
  <1>1. q \in ShopReqs /\ q.proc \in Processes /\ q.pc = "token"
    BY DEF ShopInv, ShopTypes, Shop!GetToken
  <1>2. CASE /\ memory[q.proc] # None /\ UNCHANGED <<memory, cached, load, revocations>>
             /\ Shop!Become(r, [q EXCEPT !.pc = "call", !.token = memory[q.proc]])
    <2>1. PICK t \in Shop!TokensOrNone : t = memory[q.proc]
      BY <1>1 DEF ShopInv, ShopTypes
    <2>2. /\ [q EXCEPT !.pc = "call", !.token = t] \in ShopReqs
          /\ [q EXCEPT !.pc = "call", !.token = t].pc = "call"
          /\ [q EXCEPT !.pc = "call", !.token = t].token = t
          /\ [q EXCEPT !.pc = "call", !.token = t].proc = q.proc
          /\ [q EXCEPT !.pc = "call", !.token = t].rejected = q.rejected
          /\ [q EXCEPT !.pc = "call", !.token = t].crossed = q.crossed
      BY <1>1 DEF ShopReqs, Shop!Steps
    <2>3. ShopTypes' /\ Replaced(r)' /\ (revocations = 0 => shopReq'[r].token # "void")
      BY <1>1, <1>2, <2>1, <2>2 DEF ShopInv, ShopTypes, AllValid, Replaced
    <2>4. QED
      BY <1>2, <2>3, OneRequest DEF ShopInv, ShopTypes
  <1>3. CASE /\ UNCHANGED <<memory, cached, load, revocations>>
             /\ Shop!Become(r, [q EXCEPT !.pc = "wait"])
    <2>1. /\ [q EXCEPT !.pc = "wait"] \in ShopReqs
          /\ [q EXCEPT !.pc = "wait"].pc = "wait"
          /\ [q EXCEPT !.pc = "wait"].token = q.token
          /\ [q EXCEPT !.pc = "wait"].proc = q.proc
          /\ [q EXCEPT !.pc = "wait"].rejected = q.rejected
          /\ [q EXCEPT !.pc = "wait"].crossed = q.crossed
      BY <1>1 DEF ShopReqs, Shop!Steps
    <2>2. ShopTypes' /\ Replaced(r)' /\ (revocations = 0 => shopReq'[r].token # "void")
      BY <1>1, <1>3, <2>1 DEF ShopInv, ShopTypes, AllValid, Replaced
    <2>3. QED
      BY <1>3, <2>2, OneRequest DEF ShopInv, ShopTypes
  <1>4. CASE /\ memory[q.proc] = None /\ load[q.proc].step = "none"
             /\ load' = [load EXCEPT ![q.proc] = [step |-> "redis", token |-> None]]
             /\ shopReq' = [i \in Requests |->
                              IF i = r THEN [shopReq[i] EXCEPT !.pc = "wait"]
                              ELSE [shopReq[i] EXCEPT !.crossed = @ \/ Shop!At(i, "delete")]]
             /\ UNCHANGED <<memory, cached, revocations>>
    <2>1. /\ [q EXCEPT !.pc = "wait"] \in ShopReqs
          /\ [q EXCEPT !.pc = "wait"].pc = "wait"
          /\ [q EXCEPT !.pc = "wait"].token = q.token
          /\ [q EXCEPT !.pc = "wait"].proc = q.proc
          /\ [q EXCEPT !.pc = "wait"].rejected = q.rejected
          /\ [q EXCEPT !.pc = "wait"].crossed = q.crossed
      BY <1>1 DEF ShopReqs, Shop!Steps
    <2>2. ASSUME NEW i \in Requests \ {r}
          PROVE  /\ shopReq'[i] \in ShopReqs
                 /\ shopReq'[i].pc = shopReq[i].pc /\ shopReq'[i].proc = shopReq[i].proc
                 /\ shopReq'[i].token = shopReq[i].token
                 /\ shopReq'[i].rejected = shopReq[i].rejected
                 /\ shopReq'[i].crossed = FALSE =>
                      shopReq[i].crossed = FALSE /\ shopReq[i].pc # "delete"
      <3>1. shopReq[i] \in ShopReqs
        BY DEF ShopInv, ShopTypes
      <3>2. PICK d \in BOOLEAN :
              /\ d = (shopReq[i].crossed \/ shopReq[i].pc = "delete")
              /\ d = FALSE => shopReq[i].crossed = FALSE /\ shopReq[i].pc # "delete"
        BY <3>1 DEF ShopReqs
      <3>3. shopReq'[i] = [shopReq[i] EXCEPT !.crossed = d]
        BY <1>4, <3>2
      <3>4. QED
        BY <3>1, <3>2, <3>3 DEF ShopReqs
    <2>3. /\ load' \in [Processes -> [step : Shop!LoadSteps, token : Shop!TokensOrNone]]
          /\ load'[q.proc].step = "redis"
          /\ \A p \in Processes : load'[p].token \in {load[p].token, None}
          /\ \A p \in Processes : load'[p].step = "none" => load'[p].token = None
      BY <1>1, <1>4 DEF ShopInv, ShopTypes, Shop!LoadSteps, Shop!TokensOrNone
    <2>4. shopReq'[r] = [q EXCEPT !.pc = "wait"] /\ shopReq' \in [Requests -> ShopReqs]
      BY <1>1, <1>4, <2>1, <2>2
    <2>5. ShopTypes'
      <3>1. ASSUME NEW i \in Requests, shopReq'[i].pc \in {"token", "wait", "call", "delete"}
            PROVE  shopReq'[i].proc \in Processes
        BY <1>1, <2>1, <2>2, <2>4, <3>1 DEF ShopInv, ShopTypes
      <3>2. QED
        BY <1>4, <2>3, <2>4, <3>1 DEF ShopInv, ShopTypes
    <2>6. AllValid'
      BY <1>4, <2>1, <2>2, <2>3, <2>4, NoneIsNoToken DEF ShopInv, AllValid
    <2>7. Replaced(r)'
      BY <1>1, <1>4, <2>1, <2>3, <2>4, NoneIsNoToken DEF ShopInv, Replaced
    <2>8. ASSUME NEW i \in Requests \ {r} PROVE Replaced(i)'
      <3>1. /\ shopReq'[i].rejected # 0 /\ shopReq'[i].crossed = FALSE =>
                 shopReq[i].rejected # 0 /\ shopReq[i].crossed = FALSE
            /\ shopReq'[i].crossed = FALSE => shopReq'[i].pc # "delete"
        BY <2>2
      <3>2. CASE shopReq[i].rejected # 0 /\ shopReq[i].crossed = FALSE
                   /\ shopReq[i].pc # "delete"
        <4>1. /\ revocations = 1 /\ shopReq[i].rejected = 1
              /\ cached # "void" /\ shopReq[i].token # "void"
              /\ \A p \in Processes : load[p].token # "void"
              /\ shopReq[i].proc \in Processes => memory[shopReq[i].proc] # "void"
          BY <3>2 DEF ShopInv, Replaced
        <4>2. QED
          BY <1>4, <2>2, <2>3, <4>1, <3>2, NoneIsNoToken DEF Replaced
      <3>3. QED
        BY <2>2, <3>1, <3>2 DEF Replaced
    <2>9. QED
      BY <2>5, <2>6, <2>7, <2>8 DEF ShopInv
  <1>5. QED
    BY <1>2, <1>3, <1>4 DEF Shop!GetToken

\* A second 401 needs an old token, which only a request that crossed a load can have.
LEMMA RejectedKeeps ==
  ASSUME ShopInv, NEW r \in Requests, Shop!Rejected(r)
  PROVE  ShopInv'
  <1>1. /\ shopReq[r].pc = "call" /\ shopReq[r].token = "void"
        /\ memory' = [memory EXCEPT ![shopReq[r].proc] = None]
        /\ UNCHANGED <<cached, load, revocations>>
        /\ \A i \in Requests \ {r} : shopReq'[i] = shopReq[i]
        /\ shopReq' = [shopReq EXCEPT ![r] = shopReq'[r]]
    BY DEF Shop!Rejected, Shop!At, Shop!Become, ShopInv, ShopTypes
  <1>2. shopReq[r].proc \in Processes /\ revocations = 1
    BY <1>1 DEF ShopInv, ShopTypes, AllValid
  <1>3. ShopTypes'
    <2>1. memory' \in [Processes -> Shop!TokensOrNone]
      BY <1>1, <1>2 DEF ShopInv, ShopTypes, Shop!TokensOrNone
    <2>2. /\ shopReq'[r] \in ShopReqs /\ shopReq'[r].proc \in Processes
      BY <1>2, RejectedShape DEF ShopInv
    <2>3. shopReq' \in [Requests -> ShopReqs]
      BY <1>1, <2>2 DEF ShopInv, ShopTypes
    <2>4. QED
      BY <1>1, <2>1, <2>2, <2>3 DEF ShopInv, ShopTypes
  <1>4. shopReq[r].rejected # 0 => shopReq[r].crossed # FALSE
    BY <1>1 DEF ShopInv, Replaced
  <1>5. Replaced(r)'
    BY <1>1, <1>2, <1>4, RejectedShape DEF ShopInv, ShopTypes, Replaced, Shop!Loading
  <1>6. QED
    BY <1>1, <1>2, <1>3, <1>5, OneRequest DEF ShopInv, ShopTypes

\* A failed call, and the deletion of the key.
LEMMA AttemptFailedKeeps ==
  ASSUME ShopInv, NEW r \in Requests, Shop!CallFails(r) \/ Shop!Delete(r)
  PROVE  ShopInv'
  <1> DEFINE q == shopReq[r]
  <1>1. q \in ShopReqs /\ q.proc \in Processes
    BY DEF ShopInv, ShopTypes, Shop!CallFails, Shop!Delete, Shop!At
  <1>2. PICK p \in {Shop!Retried(q), Shop!Failed(q)} :
          /\ shopReq' = [shopReq EXCEPT ![r] = p]
          /\ q.pc = "delete" => p = Shop!Retried(q)
    BY DEF Shop!CallFails, Shop!Delete, Shop!At, Shop!Become
  <1>3. /\ p \in ShopReqs /\ p.pc \in {"token", "failed"} /\ p.proc = q.proc
        /\ p.token \in {q.token, None}
        /\ p.rejected = q.rejected /\ p.crossed = q.crossed
    BY <1>1, <1>2, AttemptFailed
  <1>4. shopReq'[r] = p /\ \A i \in Requests \ {r} : shopReq'[i] = shopReq[i]
    BY <1>2 DEF ShopInv, ShopTypes
  <1>5. /\ UNCHANGED <<memory, load, revocations>>
        /\ \/ q.pc = "call" /\ cached' = cached
           \/ q.pc = "delete" /\ cached' = None /\ p.token = None
    BY <1>1, <1>2, RetriedToken
       DEF Shop!CallFails, Shop!Delete, Shop!Dropped, Shop!At
  <1>6. ShopTypes'
    BY <1>1, <1>2, <1>3, <1>4, <1>5 DEF ShopInv, ShopTypes, Shop!TokensOrNone
  <1>7. Replaced(r)'
    BY <1>1, <1>3, <1>4, <1>5, NoneIsNoToken DEF ShopInv, ShopTypes, Replaced
  <1>8. revocations = 0 => shopReq'[r].token # "void"
    BY <1>3, <1>4, NoneIsNoToken DEF ShopInv, AllValid
  <1>9. QED
    BY <1>4, <1>5, <1>6, <1>7, <1>8, OneRequest DEF ShopInv, ShopTypes

\* A load that fails takes those who wait for it along.
LEMMA LoadFailsKeeps ==
  ASSUME ShopInv, NEW p \in Processes, Shop!LoadFails(p)
  PROVE  ShopInv'
  <1>1. /\ load[p].step # "none" /\ load' = [load EXCEPT ![p] = Shop!NoLoad]
        /\ UNCHANGED <<memory, cached, revocations>>
    BY DEF Shop!LoadFails
  <1>2. ASSUME NEW i \in Requests
        PROVE  \/ shopReq'[i] = shopReq[i]
               \/ /\ shopReq[i].pc = "wait"
                  /\ shopReq'[i] \in {Shop!Retried(shopReq[i]), Shop!Failed(shopReq[i])}
    BY DEF Shop!LoadFails, Shop!Waiting, Shop!At
  <1>3. ASSUME NEW i \in Requests
        PROVE  /\ shopReq'[i] \in ShopReqs /\ shopReq'[i].proc = shopReq[i].proc
               /\ shopReq'[i].token \in {shopReq[i].token, None}
               /\ shopReq'[i].rejected = shopReq[i].rejected
               /\ shopReq'[i].crossed = shopReq[i].crossed
               /\ \/ shopReq'[i].pc = shopReq[i].pc
                  \/ shopReq[i].pc = "wait" /\ shopReq'[i].pc \in {"token", "failed"}
    <2>1. shopReq[i] \in ShopReqs
      BY DEF ShopInv, ShopTypes
    <2>2. QED
      BY <1>2, <2>1, AttemptFailed
  <1>4. /\ load' \in [Processes -> [step : Shop!LoadSteps, token : Shop!TokensOrNone]]
        /\ \A j \in Processes : load'[j].token \in {load[j].token, None}
        /\ \A j \in Processes : load[j].step = "none" => load'[j] = load[j]
        /\ \A j \in Processes : load'[j].step = "none" => load'[j].token = None
    BY <1>1 DEF ShopInv, ShopTypes, Shop!NoLoad, Shop!LoadSteps, Shop!TokensOrNone
  <1>5. ShopTypes'
    <2>1. shopReq' \in [Requests -> ShopReqs]
      BY <1>3 DEF Shop!LoadFails
    <2>2. QED
      BY <1>1, <1>3, <1>4, <2>1 DEF ShopInv, ShopTypes
  <1>6. AllValid'
    BY <1>1, <1>3, <1>4, NoneIsNoToken DEF ShopInv, AllValid
  <1>7. ASSUME NEW i \in Requests PROVE Replaced(i)'
    BY <1>1, <1>3, <1>4, NoneIsNoToken DEF ShopInv, Replaced
  <1>8. QED
    BY <1>5, <1>6, <1>7 DEF ShopInv

\* The revocation: there was none before it, so that no request met a 401.
LEMMA RevokeKeeps ==
  ASSUME ShopInv, Shop!Revoke
  PROVE  ShopInv'
  <1>1. ASSUME NEW t \in Shop!TokensOrNone PROVE Shop!Voided(t) \in Shop!TokensOrNone
    BY DEF Shop!Voided, Shop!TokensOrNone
  <1>2. ASSUME NEW i \in Requests
        PROVE  /\ shopReq'[i] \in ShopReqs /\ shopReq'[i].pc = shopReq[i].pc
               /\ shopReq'[i].proc = shopReq[i].proc
               /\ shopReq'[i].rejected = shopReq[i].rejected
               /\ shopReq'[i].crossed = shopReq[i].crossed
    <2>1. shopReq[i] \in ShopReqs
      BY DEF ShopInv, ShopTypes
    <2>2. PICK t \in Shop!TokensOrNone : t = Shop!Voided(shopReq[i].token)
      BY <1>1, <2>1 DEF ShopReqs
    <2>3. shopReq'[i] = [shopReq[i] EXCEPT !.token = t]
      BY <2>1, <2>2 DEF Shop!Revoke, ShopReqs
    <2>4. QED
      BY <2>1, <2>3 DEF ShopReqs
  <1>3. /\ revocations = 0 /\ revocations' = 1
        /\ memory' \in [Processes -> Shop!TokensOrNone] /\ cached' \in Shop!TokensOrNone
        /\ shopReq' \in [Requests -> ShopReqs]
    BY <1>1, <1>2 DEF Shop!Revoke, ShopInv, ShopTypes
  <1>4. /\ load' \in [Processes -> [step : Shop!LoadSteps, token : Shop!TokensOrNone]]
        /\ \A j \in Processes : load'[j].step = "none" => load'[j].token = None
    BY NoneIsNoToken DEF Shop!Revoke, Shop!Voided, ShopInv, ShopTypes, Shop!TokensOrNone
  <1>5. ShopTypes' /\ AllValid'
    BY <1>2, <1>3, <1>4 DEF ShopInv, ShopTypes, AllValid
  <1>6. ASSUME NEW i \in Requests PROVE Replaced(i)'
    BY <1>2, <1>3 DEF ShopInv, Replaced
  <1>7. QED
    BY <1>5, <1>6 DEF ShopInv

\* Every step of the access to the store.
LEMMA ShopStepKeeps ==
  ASSUME ShopInv, ShopNext
  PROVE  ShopInv'
  <1> USE NoneIsNoToken DEF ShopInv
  <1> USE DEF Shop!At, Shop!Become, Shop!Return, Shop!LoadSteps, Shop!TokensOrNone, Shop!NoLoad
  <1>1. ASSUME NEW r \in Requests, NEW p \in Processes, Shop!Begin(r, p) PROVE ShopInv'
    <2>1. /\ [Shop!Idle EXCEPT !.pc = "token", !.proc = p] \in ShopReqs
          /\ [Shop!Idle EXCEPT !.pc = "token", !.proc = p].proc = p
          /\ [Shop!Idle EXCEPT !.pc = "token", !.proc = p].rejected = 0
          /\ [Shop!Idle EXCEPT !.pc = "token", !.proc = p].token = None
      BY ShopIdle DEF ShopReqs, Shop!Steps
    <2>2. ShopTypes' /\ Replaced(r)' /\ shopReq'[r].token # "void"
      BY <1>1, <2>1 DEF Shop!Begin, ShopTypes, Replaced
    <2>3. QED
      BY <1>1, <2>2, OneRequest DEF Shop!Begin, ShopTypes
  <1>2. ASSUME NEW r \in Requests,
               \/ Shop!Answered(r)
               \/ Shop!Return(r) /\ UNCHANGED <<memory, cached, load, revocations>>
        PROVE  ShopInv'
    <2>1. ShopTypes' /\ Replaced(r)' /\ shopReq'[r].token # "void"
      BY <1>2, ShopIdle DEF Shop!Answered, ShopTypes, Replaced
    <2>2. QED
      BY <1>2, <2>1, OneRequest DEF Shop!Answered, ShopTypes
  <1>3. ASSUME NEW p \in Processes, Shop!LoadRedis(p) PROVE ShopInv'
    BY <1>3 DEF Shop!LoadRedis, ShopTypes, AllValid, Replaced
  <1>4. ASSUME NEW p \in Processes, Shop!Fetch(p) PROVE ShopInv'
    BY <1>4 DEF Shop!Fetch, ShopTypes, AllValid, Replaced
  <1>5. ASSUME NEW p \in Processes, Shop!StoreRedis(p) PROVE ShopInv'
    BY <1>5 DEF Shop!StoreRedis, ShopTypes, AllValid, Replaced
  <1>6. ASSUME NEW p \in Processes, Shop!SetMemory(p) PROVE ShopInv'
    <2>1. ASSUME NEW i \in Requests
          PROVE  /\ shopReq'[i] \in ShopReqs /\ shopReq'[i].proc = shopReq[i].proc
                 /\ shopReq'[i].token \in {shopReq[i].token, load[p].token}
                 /\ shopReq'[i].rejected = shopReq[i].rejected
                 /\ shopReq'[i].crossed = shopReq[i].crossed
                 /\ \/ shopReq'[i].pc = shopReq[i].pc
                    \/ shopReq[i].pc = "wait" /\ shopReq'[i].pc = "call"
      <3>1. shopReq[i] \in ShopReqs /\ load[p].token \in Shop!TokensOrNone
        BY DEF ShopTypes
      <3>2. PICK t \in Shop!TokensOrNone : t = load[p].token
        BY <3>1
      <3>3. \/ shopReq'[i] = shopReq[i]
            \/ /\ shopReq[i].pc = "wait"
               /\ shopReq'[i] = [shopReq[i] EXCEPT !.pc = "call", !.token = t]
        BY <1>6, <3>2 DEF Shop!SetMemory, Shop!Waiting
      <3>4. QED
        BY <3>1, <3>2, <3>3 DEF ShopReqs, Shop!Steps
    <2>2. shopReq' \in [Requests -> ShopReqs]
      BY <1>6, <2>1 DEF Shop!SetMemory
    <2>3. /\ load[p].step # "none"
          /\ memory' \in [Processes -> Shop!TokensOrNone] /\ UNCHANGED <<cached, revocations>>
          /\ load' \in [Processes -> [step : Shop!LoadSteps, token : Shop!TokensOrNone]]
          /\ \A j \in Processes : memory'[j] \in {memory[j], load[p].token, None}
          /\ \A j \in Processes : load'[j].token \in {load[j].token, None}
          /\ \A j \in Processes : load'[j].step = "none" => load'[j].token = None
      BY <1>6 DEF Shop!SetMemory, ShopTypes
    <2>4. ShopTypes'
      BY <2>1, <2>2, <2>3 DEF ShopTypes
    <2>5. AllValid'
      BY <2>1, <2>3 DEF AllValid
    <2>6. ASSUME NEW i \in Requests PROVE Replaced(i)'
      BY <2>1, <2>3 DEF Replaced
    <2>7. QED
      BY <2>4, <2>5, <2>6
  <1>7. ASSUME NEW p \in Processes, Shop!Lapse(p) PROVE ShopInv'
    BY <1>7 DEF Shop!Lapse, ShopTypes, AllValid, Replaced
  <1>8. CASE Shop!RedisLost \/ UNCHANGED shopVars
    BY <1>8 DEF Shop!RedisLost, shopVars, ShopTypes, AllValid, Replaced
  <1>9. QED
    BY <1>1, <1>2, <1>3, <1>4, <1>5, <1>6, <1>7, <1>8, GetTokenKeeps, RejectedKeeps,
       AttemptFailedKeeps, LoadFailsKeeps, RevokeKeeps
       DEF ShopNext, ShopMoves, ShopLoads

\* A request that met a 401 gets through with its retry, unless a load of the token was
\* under way in some process while it dropped the old one (ShopifyGraphqlClient.request).
THEOREM RetryUsesNewToken == Spec => []RetryGetsThrough
  <1>1. Init => ShopInv
    BY ShopIdle, NoneIsNoToken
       DEF Init, Shop!Init, ShopInv, ShopTypes, AllValid, Replaced, Shop!NoLoad, Shop!LoadSteps,
           Shop!TokensOrNone
  <1>2. ShopInv /\ [Next]_vars => ShopInv'
    BY ProjectShop, ShopStepKeeps
  <1>3. ShopInv => RetryGetsThrough
    BY DEF ShopInv, ShopTypes, Replaced, RetryGetsThrough, Shop!RetryGetsThrough
  <1>4. QED
    BY <1>1, <1>2, <1>3, PTL DEF Spec

(***************************************************************************)
(* The caches                                                              *)
(***************************************************************************)

ContentMoves(r) ==
  \/ \E k \in Content!Keys : Content!Miss(r, k) \/ Content!Embed(r, k) \/ Content!Clear(r, k)
  \/ \E s \in Content!ContentKeys : Content!Edit(r, s)
  \/ \E scope \in Content!Scopes : Content!Flush(r, scope)
  \/ Content!Load(r)
  \/ Content!LoadPart(r)
  \/ Content!KeepPart(r)
  \/ Content!SkipPart(r)
  \/ Content!Set(r)
  \/ Content!EditRefused(r)
  \/ Content!Write(r)
  \/ Content!Scan(r)
  \/ Content!Answer(r)
  \/ Content!Stop(r)

ContentNext ==
  \/ \E r \in Requests : ContentMoves(r)
  \/ \E s \in Content!Sources : Content!Drift(s)
  \/ Content!Tick
  \/ Content!RedisLost
  \/ UNCHANGED contentVars

\* A step of the server, seen from the content.
LEMMA ProjectContent == [Next]_vars => ContentNext
  <1> SUFFICES ASSUME [Next]_vars PROVE ContentNext
    OBVIOUS
  <1>1. ASSUME NEW r \in Requests, BeginContent(r) PROVE ContentNext
    BY <1>1 DEF BeginContent, ContentNext, ContentMoves
  <1>2. ASSUME NEW r \in Requests, ContentStep(r) PROVE ContentNext
    BY <1>2 DEF ContentStep, Content!Step, Content!LoadStep, ContentNext, ContentMoves
  <1>3. ASSUME NEW r \in Requests, StoreAnswers(r) \/ StoreFails(r) PROVE ContentNext
    BY <1>3 DEF StoreAnswers, StoreFails, ContentNext, ContentMoves
  <1>4. ASSUME NEW r \in Requests, Stop(r) \/ SectionFails(r) PROVE ContentNext
    BY <1>4 DEF Stop, SectionFails, ContentNext, ContentMoves
  <1>5. ASSUME NEW r \in Requests,
               \/ BeginLogin(r) \/ BeginProgramme(r) \/ BeginStore(r)
               \/ LoginStep(r) \/ ProgrammeStep(r) \/ AskStore(r) \/ ShopStep(r)
        PROVE  UNCHANGED contentVars
    BY <1>5 DEF BeginLogin, BeginProgramme, BeginStore, LoginStep, ProgrammeStep, AskStore, ShopStep
  <1>6. CASE Tick
    BY <1>6 DEF Tick, ContentNext
  <1>7. CASE Drift
    BY <1>7 DEF Drift, ContentNext
  <1>8. CASE RedisLost
    BY <1>8 DEF RedisLost, ContentNext
  <1>9. CASE ShopLoad \/ Creator \/ WindowEnds \/ TokenLost \/ StoreTrouble \/ UNCHANGED vars
    BY <1>9 DEF ShopLoad, Creator, WindowEnds, TokenLost, StoreTrouble, vars, ContentNext
  <1>10. QED
    BY <1>1, <1>2, <1>3, <1>4, <1>5, <1>6, <1>7, <1>8, <1>9 DEF Next, ContentNext

Showings == [Content!Sources -> Nat]

\* An entry that is not there shows nothing.
LEMMA NothingShown ==
  Content!Nothing \in Showings /\ \A s \in Content!Sources : Content!Nothing[s] = 0
  BY DEF Showings, Content!Nothing

\* What is current of a source is superseded, and ages from then on.
LEMMA AgesMove ==
  ASSUME NEW f \in Showings
  PROVE  /\ Content!Aged(f) \in Showings
         /\ \A t \in Content!Sources : Content!Aged(f)[t] = IF f[t] < 2 THEN f[t] ELSE f[t] + 1
         /\ \A s \in Content!Sources :
              /\ Content!Superseded(f, s) \in Showings
              /\ \A t \in Content!Sources :
                   Content!Superseded(f, s)[t] = IF t = s /\ f[t] = 1 THEN 2 ELSE f[t]
  BY DEF Showings, Content!Superseded, Content!Aged

\* What is loaded, and what is embedded.
LEMMA ShowingsJoin ==
  /\ \A s \in Content!Sources :
       /\ Content!Just(s) \in Showings
       /\ \A t \in Content!Sources : Content!Just(s)[t] = IF t = s THEN 1 ELSE 0
  /\ \A f, g \in Showings :
       /\ Content!Both(f, g) \in Showings
       /\ \A t \in Content!Sources : Content!Both(f, g)[t] \in {f[t], g[t]}
  BY NothingShown DEF Showings, Content!Just, Content!Both

\* The keys the home screen embeds are others than its own.
LEMMA EmbeddedKeys ==
  /\ Home \in Content!Keys /\ Embedded \subseteq Content!Keys /\ Home \notin Embedded
  /\ Content!ContentKeys \subseteq Content!Keys /\ Content!ContentKeys \subseteq Content!Sources
  /\ Catalogue \in Content!Sources /\ Catalogue \notin Content!ContentKeys
  /\ None \notin Content!Keys /\ None \notin Content!Sources
  /\ \A k \in Content!Keys : Content!Table(k) \in Content!Sources
  /\ \A k \in Content!Keys : Content!Table(k) \in Content!ContentKeys => k \in Content!ContentKeys
  BY ServerAssumption
     DEF Content!Keys, Content!ContentKeys, Content!Sources, Content!ProductKeys, Content!Table

ContentReqs ==
  [pc : Content!Steps, key : Content!Sources \cup Content!Keys \cup {None}, got : Showings,
   part : Content!Keys \cup {None}, shows : Showings, spent : 0 .. FillTime,
   todo : SUBSET Content!Keys, rest : SUBSET Content!Patterns]

\* What a request works on at each of its steps.
Works(q) ==
  /\ q \in ContentReqs
  /\ q.pc \in Content!Filling => q.key \in Content!Keys
  /\ q.pc \in {"parts", "inner", "keep"} => q.key = Home /\ q.todo \subseteq Embedded
  /\ q.pc \in {"inner", "keep"} => q.part \in Embedded
  /\ q.pc = "set" => q.key # Home
  /\ q.pc = "write" => q.key \in Content!ContentKeys
  /\ q.pc \in {"scan", "clear"} => q.key \in Content!ContentKeys \cup {Catalogue}

\* What a reader has loaded is of what he reads, and not behind by more than the time he
\* took, or than an entry he embedded was.
Loaded(q) ==
  \A s \in Content!Sources :
    /\ q.got[s] # 0 => /\ q.pc \in {"parts", "inner", "keep", "set"}
                       /\ q.key = Home \/ Content!Table(q.key) = s
    /\ q.shows[s] # 0 => q.pc = "keep" /\ Content!Table(q.part) = s
    /\ q.got[s] <= (IF q.key = Home THEN TTL + FillTime + 1 ELSE 2) + q.spent
    /\ q.shows[s] <= 2 + q.spent

ReadersInv ==
  /\ contentReq \in [Requests -> ContentReqs]
  /\ \A r \in Requests : Works(contentReq[r]) /\ Loaded(contentReq[r])

\* An entry shows what it is of, and the older it is the less it has left.
EntriesInv ==
  /\ left \in [Content!Keys -> 0 .. TTL] /\ age \in [Content!Keys -> Showings]
  /\ late \subseteq Content!Keys
  /\ \A k \in Content!Keys : left[k] = 0 => age[k] = Content!Nothing /\ k \notin late
  /\ \A k \in Content!Keys, s \in Content!Sources :
       /\ age[k][s] # 0 => k = Home \/ Content!Table(k) = s
       /\ left[k] # 0 => age[k][s] + left[k] <= Content!Behind[k] + 1

\* Whoever wrote a table last and was not answered is about to clear the entries that are behind it.
EditsInv ==
  /\ editor \in [Content!Sources -> Requests \cup {"nobody", "published"}]
  /\ \A s \in Content!Sources, r \in Requests : editor[s] = r =>
       /\ s \in Content!ContentKeys
       /\ contentReq[r].pc \in {"scan", "clear"} /\ contentReq[r].key = s
       /\ contentReq[r].pc = "clear" =>
            \A k \in Content!Keys \ late : age[k][s] > 1 => k \in contentReq[r].todo
  /\ \A s \in Content!Sources, k \in Content!Keys \ late :
       editor[s] = "published" => age[k][s] \in {0, 1}

ContentInv == ReadersInv /\ EntriesInv /\ EditsInv

Simulated == Content!Promise!Next \/ UNCHANGED Content!Promise!vars

\* No entry falls behind in a step, unless it is late.
NoneFallsBehind ==
  \A k \in Content!Keys \ late', s \in Content!Sources :
    age'[k][s] \in {0, 1} \/ (k \notin late /\ age'[k][s] > 1 /\ age[k][s] > 1)

\* The bound of an entry is a number, and no shorter than what is current may become.
LEMMA Bounds ==
  /\ TTL \in Nat /\ TTL > 0 /\ FillTime \in Nat
  /\ \A k \in Content!Keys : Content!Behind[k] \in Nat
  /\ Content!Behind[Home] = 2 * (TTL + FillTime)
  /\ \A k \in Content!Keys \ {Home} : Content!Behind[k] = TTL + FillTime + 1
  /\ \A k \in Content!Keys : 2 + TTL <= Content!Behind[k] + 1
  <1>1. TTL \in Nat /\ TTL > 0 /\ FillTime \in Nat
    BY ServerAssumption
  <1>2. \A k \in Content!Keys :
          Content!Behind[k] = IF k = Home THEN 2 * (TTL + FillTime) ELSE TTL + FillTime + 1
    BY DEF Content!Behind
  <1>3. QED
    BY <1>1, <1>2, EmbeddedKeys

\* An entry is stored: it shows what was loaded, and is late unless that is current.
LEMMA EntryStored ==
  ASSUME ContentInv, NEW k \in Content!Keys, NEW f \in Showings, Content!Store(k, f),
         \A s \in Content!Sources :
           /\ f[s] # 0 => k = Home \/ Content!Table(k) = s
           /\ f[s] + TTL <= Content!Behind[k] + 1,
         UNCHANGED editor
  PROVE  EntriesInv' /\ Simulated /\ NoneFallsBehind
  <1>1. EntriesInv'
    BY Bounds DEF ContentInv, EntriesInv, Content!Store
  <1>2. age'[k] = f /\ age' = [age EXCEPT ![k] = f]
    BY DEF ContentInv, EntriesInv, Content!Store
  <1>3. f \in [Content!Sources -> 0 .. Content!Behind[k]]
    BY Bounds DEF Showings
  <1>4. Content!Promise!Store(k, age'[k])
    BY <1>2, <1>3 DEF Content!Store, Content!Promise!Store, Content!Current, Content!Promise!Current
  <1>5. NoneFallsBehind
    <2>1. ASSUME NEW s \in Content!Sources, k \notin late' PROVE f[s] \in {0, 1}
      BY <2>1 DEF Content!Store, Content!Current
    <2>2. \A j \in Content!Keys : j # k => age'[j] = age[j] /\ (j \in late' <=> j \in late)
      BY DEF Content!Store, ContentInv, EntriesInv
    <2>3. \A j \in Content!Keys, s \in Content!Sources : age[j][s] \in Nat
      BY DEF ContentInv, EntriesInv, Showings
    <2>4. QED
      BY <1>2, <2>1, <2>2, <2>3 DEF NoneFallsBehind
  <1>6. QED
    BY <1>1, <1>4, <1>5 DEF Simulated, Content!Promise!Next

\* Entries are dropped.
LEMMA EntriesDropped ==
  ASSUME ContentInv, NEW K \in SUBSET Content!Keys, Content!Drop(K), UNCHANGED editor
  PROVE  EntriesInv' /\ Simulated /\ NoneFallsBehind
  <1>1. EntriesInv'
    <2>1. /\ left' \in [Content!Keys -> 0 .. TTL] /\ age' \in [Content!Keys -> Showings]
          /\ late' \subseteq Content!Keys
      BY NothingShown, Bounds DEF ContentInv, EntriesInv, Content!Drop
    <2>2. ASSUME NEW k \in Content!Keys
          PROVE  \/ left'[k] = 0 /\ age'[k] = Content!Nothing /\ k \notin late'
                 \/ left'[k] = left[k] /\ age'[k] = age[k] /\ (k \in late' <=> k \in late)
      BY DEF Content!Drop
    <2>3. QED
      BY <2>1, <2>2, NothingShown DEF ContentInv, EntriesInv
  <1>2. Content!Promise!Drop(K)
    BY DEF Content!Drop, Content!Promise!Drop, Content!Nothing, Content!Promise!Nothing
  <1>3. NoneFallsBehind
    <2>1. \A k \in Content!Keys, s \in Content!Sources : age[k][s] \in Nat
      BY DEF ContentInv, EntriesInv, Showings
    <2>2. ASSUME NEW k \in Content!Keys
          PROVE  \/ age'[k] = Content!Nothing
                 \/ age'[k] = age[k] /\ (k \in late' <=> k \in late)
      BY DEF Content!Drop
    <2>3. QED
      BY <2>1, <2>2, NothingShown DEF NoneFallsBehind
  <1>4. QED
    BY <1>1, <1>2, <1>3 DEF Simulated, Content!Promise!Next

\* No entry falls behind: those who edit stay where they are.
LEMMA EditsStand ==
  ASSUME EditsInv, UNCHANGED editor,
         \A r \in Requests : contentReq[r].pc \in {"scan", "clear"} =>
            /\ contentReq'[r].pc = contentReq[r].pc /\ contentReq'[r].key = contentReq[r].key
            /\ contentReq'[r].todo = contentReq[r].todo,
         NoneFallsBehind
  PROVE  EditsInv'
  BY DEF EditsInv, NoneFallsBehind

\* A request that has nothing to do with the content.
LEMMA ContentIdle ==
  /\ Works(Content!Idle) /\ Loaded(Content!Idle)
  /\ Content!Idle \in ContentReqs /\ Content!Idle.pc = "idle"
  /\ Content!Idle.got = Content!Nothing /\ Content!Idle.shows = Content!Nothing
  /\ Content!Idle.spent = 0
  <1>1. /\ Content!Idle \in ContentReqs
        /\ Content!Idle.pc = "idle" /\ Content!Idle.got = Content!Nothing
        /\ Content!Idle.shows = Content!Nothing /\ Content!Idle.spent = 0
    BY NothingShown, Bounds DEF ContentReqs, Content!Idle, Content!Steps
  <1>2. Loaded(Content!Idle)
    BY <1>1, NothingShown, Bounds DEF Loaded
  <1>3. QED
    BY <1>1, <1>2 DEF Works, Content!Filling

\* A source changes under the requests: what they have of it is superseded.
LEMMA ReadersOvertaken ==
  ASSUME ReadersInv, NEW s \in Content!Sources, NEW r \in Requests
  PROVE  /\ Works(Content!Overtaken(s)[r]) /\ Loaded(Content!Overtaken(s)[r])
         /\ Content!Overtaken(s)[r].pc = contentReq[r].pc
         /\ Content!Overtaken(s)[r].key = contentReq[r].key
         /\ Content!Overtaken(s)[r].part = contentReq[r].part
         /\ Content!Overtaken(s)[r].todo = contentReq[r].todo
  <1> DEFINE q == contentReq[r]
  <1> DEFINE p == [q EXCEPT !.got = Content!Superseded(@, s), !.shows = Content!Superseded(@, s)]
  <1>0. Content!Overtaken(s)[r] = p /\ Works(q) /\ Loaded(q)
    BY DEF Content!Overtaken, ReadersInv
  <1>1. q \in ContentReqs /\ q.got \in Showings /\ q.shows \in Showings /\ q.spent \in Nat
    BY <1>0, Bounds DEF Works, ContentReqs
  <1>2. PICK f \in Showings : f = Content!Superseded(q.got, s)
    BY <1>1, AgesMove
  <1>3. PICK g \in Showings : g = Content!Superseded(q.shows, s)
    BY <1>1, AgesMove
  <1>4. p = [q EXCEPT !.got = f, !.shows = g]
    BY <1>1, <1>2, <1>3 DEF ContentReqs
  <1> HIDE DEF p
  <1>5. /\ p \in ContentReqs /\ p.got = f /\ p.shows = g
        /\ p.pc = q.pc /\ p.key = q.key /\ p.part = q.part /\ p.todo = q.todo /\ p.spent = q.spent
    BY <1>1, <1>4 DEF ContentReqs
  <1>6. ASSUME NEW t \in Content!Sources
        PROVE  /\ f[t] = (IF t = s /\ q.got[t] = 1 THEN 2 ELSE q.got[t])
               /\ g[t] = (IF t = s /\ q.shows[t] = 1 THEN 2 ELSE q.shows[t])
               /\ q.got[t] \in Nat /\ q.shows[t] \in Nat
    <2>1. f[t] = (IF t = s /\ q.got[t] = 1 THEN 2 ELSE q.got[t])
      BY <1>1, <1>2, AgesMove
    <2>2. g[t] = (IF t = s /\ q.shows[t] = 1 THEN 2 ELSE q.shows[t])
      BY <1>1, <1>3, AgesMove
    <2>3. QED
      BY <1>1, <2>1, <2>2 DEF Showings
  <1>7. Loaded(p)
    BY <1>0, <1>1, <1>5, <1>6, Bounds DEF Loaded
  <1>8. QED
    BY <1>0, <1>5, <1>7 DEF Works

\* Time passes for a reader.
LEMMA RequestAged ==
  ASSUME NEW q, Works(q), Loaded(q), q.spent < FillTime,
         NEW p, p = [q EXCEPT !.got = Content!Aged(@), !.shows = Content!Aged(@), !.spent = @ + 1]
  PROVE  /\ Works(p) /\ Loaded(p)
         /\ p.pc = q.pc /\ p.key = q.key /\ p.part = q.part /\ p.todo = q.todo
  <1>1. /\ q \in ContentReqs /\ q.got \in Showings /\ q.shows \in Showings
        /\ q.spent \in Nat /\ q.spent + 1 \in 0 .. FillTime
    BY Bounds DEF Works, ContentReqs
  <1>2. PICK f \in Showings : f = Content!Aged(q.got)
    BY <1>1, EmbeddedKeys, AgesMove
  <1>3. PICK g \in Showings : g = Content!Aged(q.shows)
    BY <1>1, EmbeddedKeys, AgesMove
  <1>4. PICK n \in 0 .. FillTime : n = q.spent + 1
    BY <1>1
  <1>5. p = [q EXCEPT !.got = f, !.shows = g, !.spent = n]
    BY <1>1, <1>2, <1>3, <1>4 DEF ContentReqs
  <1>6. /\ p \in ContentReqs /\ p.got = f /\ p.shows = g /\ p.spent = n
        /\ p.pc = q.pc /\ p.key = q.key /\ p.part = q.part /\ p.todo = q.todo
    BY <1>1, <1>5 DEF ContentReqs
  <1>7. ASSUME NEW t \in Content!Sources
        PROVE  /\ f[t] = (IF q.got[t] < 2 THEN q.got[t] ELSE q.got[t] + 1)
               /\ g[t] = (IF q.shows[t] < 2 THEN q.shows[t] ELSE q.shows[t] + 1)
               /\ q.got[t] \in Nat /\ q.shows[t] \in Nat
    <2>1. f[t] = (IF q.got[t] < 2 THEN q.got[t] ELSE q.got[t] + 1)
      BY <1>1, <1>2, AgesMove
    <2>2. g[t] = (IF q.shows[t] < 2 THEN q.shows[t] ELSE q.shows[t] + 1)
      BY <1>1, <1>3, AgesMove
    <2>3. QED
      BY <1>1, <2>1, <2>2 DEF Showings
  <1>8. Loaded(p)
    <2>1. ASSUME NEW t \in Content!Sources
          PROVE  /\ f[t] <= (IF q.key = Home THEN TTL + FillTime + 1 ELSE 2) + n
                 /\ g[t] <= 2 + n
      BY <1>1, <1>4, <1>7, Bounds DEF Loaded
    <2>2. QED
      BY <1>1, <1>6, <1>7, <2>1, Bounds DEF Loaded
  <1>9. QED
    BY <1>6, <1>8 DEF Works

\* One request moves on.
LEMMA OneReader ==
  ASSUME ReadersInv, NEW r \in Requests, NEW p, Content!Become(r, p), Works(p), Loaded(p)
  PROVE  /\ ReadersInv' /\ contentReq'[r] = p
         /\ \A i \in Requests \ {r} : contentReq'[i] = contentReq[i]
  BY DEF ReadersInv, Content!Become, Works

\* A request that neither scans nor clears moves on, and no entry with it.
LEMMA EntriesAlone ==
  ASSUME ContentInv, NEW r \in Requests, NEW p, Content!Become(r, p), Works(p), Loaded(p),
         contentReq[r].pc \notin {"scan", "clear"}, UNCHANGED <<left, age, late, editor>>
  PROVE  ContentInv' /\ Simulated
  <1>1. ReadersInv' /\ \A i \in Requests \ {r} : contentReq'[i] = contentReq[i]
    BY OneReader DEF ContentInv
  <1>2. EntriesInv'
    BY DEF ContentInv, EntriesInv
  <1>3. \A k \in Content!Keys, s \in Content!Sources : age[k][s] \in Nat
    BY DEF ContentInv, EntriesInv, Showings
  <1>4. EditsInv'
    BY <1>1, <1>3, EditsStand DEF ContentInv, NoneFallsBehind
  <1>5. Simulated
    BY DEF Simulated, Content!Promise!vars
  <1>6. QED
    BY <1>1, <1>2, <1>4, <1>5 DEF ContentInv

\* A flush is of patterns.
LEMMA ScopesArePatterns == \A scope \in Content!Scopes : scope \in SUBSET Content!Patterns
  BY DEF Content!Scopes, Content!Patterns

\* A request begins: a reader that missed, an edit, a flush.
LEMMA ContentBegins ==
  ASSUME ContentInv, NEW r \in Requests,
         \/ \E k \in Content!Keys : Content!Miss(r, k)
         \/ \E s \in Content!ContentKeys : Content!Edit(r, s)
         \/ \E scope \in Content!Scopes : Content!Flush(r, scope)
  PROVE  ContentInv' /\ Simulated
  <1> DEFINE Begins(p) ==
         /\ p.got = Content!Nothing /\ p.shows = Content!Nothing /\ p.spent = 0
         /\ \/ p.pc = "load" /\ p.key \in Content!Keys
            \/ p.pc = "write" /\ p.key \in Content!ContentKeys
            \/ p.pc = "scan" /\ p.key = Catalogue
  <1>1. PICK p \in ContentReqs : Content!Become(r, p) /\ Begins(p)
    <2>1. ASSUME NEW k \in Content!Keys, Content!Miss(r, k)
          PROVE  \E p \in ContentReqs : Content!Become(r, p) /\ Begins(p)
      <3> DEFINE p == [Content!Idle EXCEPT !.pc = "load", !.key = k]
      <3>1. Content!Become(r, p)
        BY <2>1 DEF Content!Miss
      <3>2. /\ p \in ContentReqs /\ p.pc = "load" /\ p.key = k
            /\ p.got = Content!Nothing /\ p.shows = Content!Nothing /\ p.spent = 0
        BY ContentIdle, EmbeddedKeys, ScopesArePatterns DEF ContentReqs, Content!Steps, Content!Filling
      <3> HIDE DEF p
      <3>3. QED
        BY <3>1, <3>2
    <2>2. ASSUME NEW s \in Content!ContentKeys, Content!Edit(r, s)
          PROVE  \E p \in ContentReqs : Content!Become(r, p) /\ Begins(p)
      <3> DEFINE p == [Content!Idle EXCEPT !.pc = "write", !.key = s]
      <3>1. Content!Become(r, p)
        BY <2>2 DEF Content!Edit
      <3>2. /\ p \in ContentReqs /\ p.pc = "write" /\ p.key = s
            /\ p.got = Content!Nothing /\ p.shows = Content!Nothing /\ p.spent = 0
        BY ContentIdle, EmbeddedKeys, ScopesArePatterns DEF ContentReqs, Content!Steps, Content!Filling
      <3> HIDE DEF p
      <3>3. QED
        BY <3>1, <3>2
    <2>3. ASSUME NEW scope \in Content!Scopes, Content!Flush(r, scope)
          PROVE  \E p \in ContentReqs : Content!Become(r, p) /\ Begins(p)
      <3> DEFINE p == [Content!Idle EXCEPT !.pc = "scan", !.key = Catalogue, !.rest = scope]
      <3>1. Content!Become(r, p)
        BY <2>3 DEF Content!Flush
      <3>2. /\ p \in ContentReqs /\ p.pc = "scan" /\ p.key = Catalogue
            /\ p.got = Content!Nothing /\ p.shows = Content!Nothing /\ p.spent = 0
        BY ContentIdle, EmbeddedKeys, ScopesArePatterns DEF ContentReqs, Content!Steps, Content!Filling
      <3> HIDE DEF p
      <3>3. QED
        BY <3>1, <3>2
    <2>4. QED
      BY <2>1, <2>2, <2>3
  <1>2. UNCHANGED <<left, age, late, editor>> /\ contentReq[r].pc = "idle"
    BY DEF Content!Miss, Content!Edit, Content!Flush, Content!At
  <1>3. Works(p)
    BY <1>1, EmbeddedKeys DEF Works, Content!Filling
  <1>4. Loaded(p)
    BY <1>1, NothingShown, Bounds DEF Loaded
  <1>5. QED
    BY <1>1, <1>2, <1>3, <1>4, EntriesAlone

\* A reader loads what he missed.
LEMMA ReaderLoads ==
  ASSUME ContentInv, NEW r \in Requests, Content!Load(r)
  PROVE  ContentInv' /\ Simulated
  <1> DEFINE q == contentReq[r]
  <1>1. q \in ContentReqs /\ Works(q) /\ Loaded(q) /\ q.pc = "load" /\ q.key \in Content!Keys
    BY DEF ContentInv, ReadersInv, Works, Content!Load, Content!At, Content!Filling
  <1>2. PICK f \in Showings : f = Content!Just(Content!Table(q.key))
    BY <1>1, EmbeddedKeys, ShowingsJoin
  <1>3. \A s \in Content!Sources : f[s] = IF s = Content!Table(q.key) THEN 1 ELSE 0
    BY <1>1, <1>2, EmbeddedKeys, ShowingsJoin
  <1>4. PICK a \in {"parts", "set"}, T \in SUBSET Embedded :
          /\ Content!Become(r, [q EXCEPT !.pc = a, !.got = f, !.todo = T])
          /\ a = "parts" <=> q.key = Home
    <2>1. CASE q.key = Home
      <3>1. Content!Become(r, [q EXCEPT !.pc = "parts", !.got = f, !.todo = Embedded])
        BY <1>2, <2>1 DEF Content!Load
      <3>2. QED
        BY <2>1, <3>1
    <2>2. CASE q.key # Home
      <3>1. Content!Become(r, [q EXCEPT !.pc = "set", !.got = f, !.todo = {}])
        BY <1>2, <2>2 DEF Content!Load
      <3>2. {} \in SUBSET Embedded
        OBVIOUS
      <3>3. QED
        BY <2>2, <3>1, <3>2
    <2>3. QED
      BY <2>1, <2>2
  <1> DEFINE p == [q EXCEPT !.pc = a, !.got = f, !.todo = T]
  <1>5. /\ p \in ContentReqs /\ p.pc = a /\ p.got = f /\ p.todo = T
        /\ p.key = q.key /\ p.part = q.part /\ p.shows = q.shows /\ p.spent = q.spent
    BY <1>1, EmbeddedKeys DEF ContentReqs, Content!Steps, Content!Filling
  <1> HIDE DEF p
  <1>6. Works(p)
    BY <1>1, <1>4, <1>5 DEF Works
  <1>7. q.spent \in Nat
    BY <1>1, Bounds DEF ContentReqs
  <1>8. Loaded(p)
    BY <1>1, <1>3, <1>4, <1>5, <1>7, Bounds DEF Loaded
  <1>9. Content!Become(r, p)
    BY <1>4 DEF p
  <1>10. UNCHANGED <<left, age, late, editor>>
    BY DEF Content!Load
  <1>11. QED
    BY <1>1, <1>6, <1>8, <1>9, <1>10, EntriesAlone

\* A section of the home screen is loaded, or left out.
LEMMA PartLoads ==
  ASSUME ContentInv, NEW r \in Requests, Content!LoadPart(r) \/ Content!SkipPart(r)
  PROVE  ContentInv' /\ Simulated
  <1> DEFINE q == contentReq[r]
  <1>1. /\ q \in ContentReqs /\ Works(q) /\ Loaded(q) /\ q.pc = "inner"
        /\ q.key = Home /\ q.todo \subseteq Embedded /\ q.part \in Embedded
        /\ UNCHANGED <<left, age, late, editor>>
    BY DEF ContentInv, ReadersInv, Works, Content!LoadPart, Content!SkipPart, Content!At,
           Content!Filling
  <1>2. q.spent \in Nat
    BY <1>1, Bounds DEF ContentReqs
  <1>3. CASE Content!LoadPart(r)
    <2>1. PICK f \in Showings : f = Content!Just(Content!Table(q.part))
      BY <1>1, EmbeddedKeys, ShowingsJoin
    <2>2. \A s \in Content!Sources : f[s] = IF s = Content!Table(q.part) THEN 1 ELSE 0
      BY <1>1, <2>1, EmbeddedKeys, ShowingsJoin
    <2> DEFINE p == [q EXCEPT !.pc = "keep", !.shows = f]
    <2>3. /\ p \in ContentReqs /\ p.pc = "keep" /\ p.got = q.got /\ p.todo = q.todo
          /\ p.key = q.key /\ p.part = q.part /\ p.shows = f /\ p.spent = q.spent
      BY <1>1 DEF ContentReqs, Content!Steps, Content!Filling
    <2>4. Content!Become(r, p)
      BY <1>3, <2>1 DEF Content!LoadPart
    <2> HIDE DEF p
    <2>5. Works(p)
      BY <1>1, <2>3, EmbeddedKeys DEF Works
    <2>6. Loaded(p)
      BY <1>1, <1>2, <2>2, <2>3, Bounds DEF Loaded
    <2>7. QED
      BY <1>1, <2>4, <2>5, <2>6, EntriesAlone
  <1>4. CASE Content!SkipPart(r)
    <2> DEFINE p == [q EXCEPT !.pc = "parts", !.todo = q.todo \ {q.part}, !.part = None]
    <2>1. /\ p \in ContentReqs /\ p.pc = "parts" /\ p.got = q.got /\ p.todo \subseteq q.todo
          /\ p.key = q.key /\ p.shows = q.shows /\ p.spent = q.spent
      BY <1>1 DEF ContentReqs, Content!Steps, Content!Filling
    <2>2. Content!Become(r, p)
      BY <1>4 DEF Content!SkipPart
    <2> HIDE DEF p
    <2>3. Works(p)
      BY <1>1, <2>1, EmbeddedKeys DEF Works
    <2>4. Loaded(p)
      BY <1>1, <1>2, <2>1, Bounds DEF Loaded
    <2>5. QED
      BY <1>1, <2>2, <2>3, <2>4, EntriesAlone
  <1>5. QED
    BY <1>3, <1>4

\* A section of the home screen comes from the cache, or is missing there.
LEMMA PartEmbeds ==
  ASSUME ContentInv, NEW r \in Requests, NEW k \in Content!Keys, Content!Embed(r, k)
  PROVE  ContentInv' /\ Simulated
  <1> DEFINE q == contentReq[r]
  <1>1. /\ q \in ContentReqs /\ Works(q) /\ Loaded(q) /\ q.pc = "parts"
        /\ q.key = Home /\ q.todo \subseteq Embedded /\ k \in q.todo /\ k \in Embedded
        /\ UNCHANGED <<left, age, late, editor>>
    BY DEF ContentInv, ReadersInv, Works, Content!Embed, Content!At
  <1>2. q.spent \in Nat /\ q.got \in Showings /\ q.shows \in Showings
    BY <1>1, Bounds DEF ContentReqs
  <1>3. CASE /\ k \in Content!Present
             /\ Content!Become(r, [q EXCEPT !.got = Content!Both(@, age[k]), !.todo = @ \ {k}])
    <2>1. age[k] \in Showings /\ left[k] \in Nat /\ left[k] # 0
      BY <1>3 DEF ContentInv, EntriesInv, Content!Present
    <2>2. \A s \in Content!Sources : age[k][s] \in Nat /\ age[k][s] <= TTL + FillTime + 1
      <3>1. Content!Behind[k] = TTL + FillTime + 1
        BY <1>1, EmbeddedKeys, Bounds
      <3>2. ASSUME NEW s \in Content!Sources
            PROVE  age[k][s] \in Nat /\ age[k][s] + left[k] <= Content!Behind[k] + 1
        BY <2>1 DEF ContentInv, EntriesInv, Showings
      <3>3. QED
        BY <2>1, <3>1, <3>2, Bounds
    <2>3. PICK f \in Showings : f = Content!Both(q.got, age[k])
      BY <1>2, <2>1, ShowingsJoin
    <2>4. \A s \in Content!Sources : f[s] \in {q.got[s], age[k][s]}
      BY <1>2, <2>1, <2>3, ShowingsJoin
    <2> DEFINE p == [q EXCEPT !.got = f, !.todo = q.todo \ {k}]
    <2>5. /\ p \in ContentReqs /\ p.pc = "parts" /\ p.got = f /\ p.todo \subseteq q.todo
          /\ p.key = q.key /\ p.shows = q.shows /\ p.spent = q.spent
      BY <1>1 DEF ContentReqs
    <2>6. Content!Become(r, p)
      BY <1>1, <1>3, <2>3 DEF ContentReqs
    <2> HIDE DEF p
    <2>7. Works(p)
      BY <1>1, <2>5 DEF Works
    <2>8. Loaded(p)
      BY <1>1, <1>2, <2>2, <2>4, <2>5, Bounds DEF Loaded
    <2>9. QED
      BY <1>1, <2>6, <2>7, <2>8, EntriesAlone
  <1>4. CASE Content!Become(r, [q EXCEPT !.pc = "inner", !.part = k])
    <2> DEFINE p == [q EXCEPT !.pc = "inner", !.part = k]
    <2>1. /\ p \in ContentReqs /\ p.pc = "inner" /\ p.got = q.got /\ p.todo = q.todo
          /\ p.key = q.key /\ p.part = k /\ p.shows = q.shows /\ p.spent = q.spent
      BY <1>1 DEF ContentReqs, Content!Steps, Content!Filling
    <2>2. Content!Become(r, p)
      BY <1>4
    <2> HIDE DEF p
    <2>3. Works(p)
      BY <1>1, <2>1, EmbeddedKeys DEF Works
    <2>4. Loaded(p)
      BY <1>1, <1>2, <2>1, Bounds DEF Loaded
    <2>5. QED
      BY <1>1, <2>2, <2>3, <2>4, EntriesAlone
  <1>5. QED
    BY <1>3, <1>4 DEF Content!Embed

\* What a reader has to store is not behind by more than the bound allows when it ends.
LEMMA FitToStore ==
  ASSUME NEW q, q \in ContentReqs, Works(q), Loaded(q)
  PROVE  /\ q.pc \in {"parts", "set"} =>
              \A s \in Content!Sources :
                /\ q.got[s] # 0 => q.key = Home \/ Content!Table(q.key) = s
                /\ q.got[s] + TTL <= Content!Behind[q.key] + 1
         /\ q.pc = "keep" =>
              \A s \in Content!Sources :
                /\ q.shows[s] # 0 => Content!Table(q.part) = s
                /\ q.shows[s] + TTL <= Content!Behind[q.part] + 1
  <1>1. /\ q.spent \in Nat /\ q.spent <= FillTime
        /\ \A s \in Content!Sources : q.got[s] \in Nat /\ q.shows[s] \in Nat
    BY Bounds DEF ContentReqs, Showings
  <1>2. CASE q.pc \in {"parts", "set"}
    <2>1. q.key \in Content!Keys
      BY <1>2 DEF Works, Content!Filling
    <2>2. QED
      BY <1>1, <1>2, <2>1, Bounds DEF Loaded
  <1>3. CASE q.pc = "keep"
    <2>1. q.part \in Content!Keys \ {Home}
      BY <1>3, EmbeddedKeys DEF Works
    <2>2. QED
      BY <1>1, <1>3, <2>1, Bounds DEF Loaded
  <1>4. QED
    BY <1>2, <1>3

\* A reader of a section stores it, and goes on with the home screen.
LEMMA PartKept ==
  ASSUME ContentInv, NEW r \in Requests, Content!KeepPart(r)
  PROVE  ContentInv' /\ Simulated
  <1> DEFINE q == contentReq[r]
  <1>1. /\ q \in ContentReqs /\ Works(q) /\ Loaded(q) /\ q.pc = "keep"
        /\ q.key = Home /\ q.todo \subseteq Embedded /\ q.part \in Content!Keys
        /\ Content!Store(q.part, q.shows) /\ UNCHANGED editor
    BY EmbeddedKeys DEF ContentInv, ReadersInv, Works, Content!KeepPart, Content!At
  <1>2. /\ q.spent \in Nat /\ q.got \in Showings /\ q.shows \in Showings
        /\ \A s \in Content!Sources : q.got[s] \in Nat /\ q.shows[s] \in Nat
    BY <1>1, Bounds DEF ContentReqs, Showings
  <1>3. EntriesInv' /\ Simulated /\ NoneFallsBehind
    BY <1>1, <1>2, FitToStore, EntryStored
  <1>4. PICK f \in Showings : f = Content!Both(q.got, q.shows)
    BY <1>2, ShowingsJoin
  <1>5. \A s \in Content!Sources : f[s] \in {q.got[s], q.shows[s]}
    BY <1>2, <1>4, ShowingsJoin
  <1>6. PICK g \in Showings : g = Content!Nothing
    BY NothingShown
  <1> DEFINE p == [q EXCEPT !.pc = "parts", !.got = f, !.todo = q.todo \ {q.part},
                            !.part = None, !.shows = g]
  <1>7. /\ p \in ContentReqs /\ p.pc = "parts" /\ p.got = f /\ p.todo \subseteq q.todo
        /\ p.key = q.key /\ p.part = None /\ p.shows = g /\ p.spent = q.spent
    BY <1>1 DEF ContentReqs, Content!Steps, Content!Filling
  <1>8. Content!Become(r, p)
    BY <1>4, <1>6 DEF Content!KeepPart
  <1> HIDE DEF p
  <1>9. Works(p)
    BY <1>1, <1>7, EmbeddedKeys DEF Works
  <1>10. Loaded(p)
    BY <1>1, <1>2, <1>5, <1>6, <1>7, NothingShown, Bounds DEF Loaded
  <1>11. ReadersInv' /\ \A i \in Requests \ {r} : contentReq'[i] = contentReq[i]
    BY <1>8, <1>9, <1>10, OneReader DEF ContentInv
  <1>12. EditsInv'
    BY <1>1, <1>3, <1>11, EditsStand DEF ContentInv
  <1>13. QED
    BY <1>3, <1>11, <1>12 DEF ContentInv

\* A reader stores what he read, and returns.
LEMMA ReaderStores ==
  ASSUME ContentInv, NEW r \in Requests, Content!Set(r)
  PROVE  ContentInv' /\ Simulated
  <1> DEFINE q == contentReq[r]
  <1>1. /\ q \in ContentReqs /\ Works(q) /\ Loaded(q) /\ q.pc \in {"parts", "set"}
        /\ q.key \in Content!Keys /\ Content!Store(q.key, q.got) /\ UNCHANGED editor
        /\ Content!Become(r, Content!Idle)
    BY DEF ContentInv, ReadersInv, Works, Content!Set, Content!At, Content!Filling, Content!Return
  <1>2. q.got \in Showings
    BY <1>1 DEF ContentReqs
  <1>3. EntriesInv' /\ Simulated /\ NoneFallsBehind
    BY <1>1, <1>2, FitToStore, EntryStored
  <1>4. ReadersInv' /\ \A i \in Requests \ {r} : contentReq'[i] = contentReq[i]
    BY <1>1, ContentIdle, OneReader DEF ContentInv
  <1>5. EditsInv'
    BY <1>1, <1>3, <1>4, EditsStand DEF ContentInv
  <1>6. QED
    BY <1>3, <1>4, <1>5 DEF ContentInv

\* The panel's edit is refused.
LEMMA RefusedKeeps ==
  ASSUME ContentInv, NEW r \in Requests, Content!EditRefused(r)
  PROVE  ContentInv' /\ Simulated
  BY ContentIdle, EntriesAlone DEF Content!EditRefused, Content!At, Content!Return

\* A source changes: entries and readers have of it what they had, or what is superseded.
LEMMA SourceChanges ==
  ASSUME ContentInv, NEW s \in Content!Sources, UNCHANGED left,
         age' = [k \in Content!Keys |-> Content!Superseded(age[k], s)],
         late' \subseteq Content!Keys, \A k \in late' \ late : left[k] # 0
  PROVE  /\ \A k \in Content!Keys, t \in Content!Sources :
              age'[k][t] = IF t = s /\ age[k][t] = 1 THEN 2 ELSE age[k][t]
         /\ late \subseteq late' => EntriesInv'
  <1>1. \A k \in Content!Keys : age[k] \in Showings /\ age'[k] = Content!Superseded(age[k], s)
    BY DEF ContentInv, EntriesInv
  <1>2. age' \in [Content!Keys -> Showings]
    BY <1>1, AgesMove
  <1>3. \A k \in Content!Keys, t \in Content!Sources :
          age'[k][t] = IF t = s /\ age[k][t] = 1 THEN 2 ELSE age[k][t]
    BY <1>1, AgesMove
  <1>4. ASSUME late \subseteq late' PROVE EntriesInv'
    <2>1. ASSUME NEW k \in Content!Keys, left'[k] = 0
          PROVE  age'[k] = Content!Nothing /\ k \notin late'
      <3>1. age[k] = Content!Nothing /\ k \notin late'
        BY <2>1 DEF ContentInv, EntriesInv
      <3>2. age'[k] \in Showings /\ \A t \in Content!Sources : age'[k][t] = Content!Nothing[t]
        BY <1>2, <1>3, <3>1, NothingShown
      <3>3. age'[k] = Content!Nothing
        BY <3>2, NothingShown DEF Showings
      <3>4. QED
        BY <3>1, <3>3
    <2>2. ASSUME NEW k \in Content!Keys, NEW t \in Content!Sources
          PROVE  /\ age'[k][t] # 0 => k = Home \/ Content!Table(k) = t
                 /\ left'[k] # 0 => age'[k][t] + left'[k] <= Content!Behind[k] + 1
      <3>1. /\ age[k][t] \in Nat /\ left[k] \in Nat /\ left[k] <= TTL /\ left'[k] = left[k]
            /\ age[k][t] # 0 => k = Home \/ Content!Table(k) = t
            /\ left[k] # 0 => age[k][t] + left[k] <= Content!Behind[k] + 1
        BY Bounds DEF ContentInv, EntriesInv, Showings
      <3>2. QED
        BY <1>3, <3>1, Bounds
    <2>3. QED
      BY <1>2, <2>1, <2>2 DEF ContentInv, EntriesInv
  <1>5. QED
    BY <1>3, <1>4

\* An edit is written.
LEMMA EditWritten ==
  ASSUME ContentInv, NEW r \in Requests, Content!Write(r)
  PROVE  ContentInv' /\ Simulated
  <1>1. PICK s \in Content!ContentKeys : s = contentReq[r].key /\ contentReq[r].pc = "write"
    BY DEF ContentInv, ReadersInv, Works, Content!Write, Content!At
  <1>2. /\ age' = [k \in Content!Keys |-> Content!Superseded(age[k], s)]
        /\ contentReq' = [Content!Overtaken(s) EXCEPT ![r].pc = "scan"]
        /\ editor' = [editor EXCEPT ![s] = r] /\ UNCHANGED <<left, late>>
    BY <1>1 DEF Content!Write
  <1>3. s \in Content!Sources /\ s \in Content!Keys
    BY EmbeddedKeys
  <1>4. /\ EntriesInv'
        /\ \A k \in Content!Keys, t \in Content!Sources :
             age'[k][t] = IF t = s /\ age[k][t] = 1 THEN 2 ELSE age[k][t]
    BY <1>2, <1>3, SourceChanges DEF ContentInv, EntriesInv
  <1>5. ASSUME NEW i \in Requests \ {r}
        PROVE  contentReq'[i] = Content!Overtaken(s)[i]
    BY <1>2 DEF Content!Overtaken
  <1>6. PICK q \in ContentReqs : /\ q = Content!Overtaken(s)[r] /\ Works(q) /\ Loaded(q)
                                 /\ q.pc = "write" /\ q.key = s
    BY <1>1, <1>3, ReadersOvertaken DEF ContentInv, Works
  <1> DEFINE p == [q EXCEPT !.pc = "scan"]
  <1>7. contentReq'[r] = p
    BY <1>2, <1>6 DEF Content!Overtaken
  <1>8. /\ p \in ContentReqs /\ p.pc = "scan" /\ p.key = s /\ p.got = q.got /\ p.shows = q.shows
        /\ p.spent = q.spent
    BY <1>6 DEF ContentReqs, Content!Steps
  <1> HIDE DEF p
  <1>9. Works(p) /\ Loaded(p)
    BY <1>1, <1>6, <1>8 DEF Works, Loaded, Content!Filling
  <1>10. ReadersInv'
    <2>1. ASSUME NEW i \in Requests PROVE Works(contentReq'[i]) /\ Loaded(contentReq'[i])
      BY <1>3, <1>5, <1>7, <1>9, ReadersOvertaken DEF ContentInv
    <2>2. contentReq' = [i \in Requests |-> contentReq'[i]]
      BY <1>2 DEF Content!Overtaken
    <2>3. QED
      BY <2>1, <2>2 DEF ReadersInv, Works
  <1>11. EditsInv'
    <2>1. /\ editor'[s] = r /\ r \notin {"nobody", "published"}
          /\ \A t \in Content!Sources \ {s} : editor'[t] = editor[t]
          /\ editor' \in [Content!Sources -> Requests \cup {"nobody", "published"}]
      BY <1>2, <1>3, ServerAssumption DEF ContentInv, EditsInv
    <2>2. ASSUME NEW i \in Requests \ {r}
          PROVE  /\ contentReq'[i].pc = contentReq[i].pc /\ contentReq'[i].key = contentReq[i].key
                 /\ contentReq'[i].todo = contentReq[i].todo
      BY <1>3, <1>5, ReadersOvertaken DEF ContentInv
    <2>3. \A k \in Content!Keys, t \in Content!Sources \ {s} : age'[k][t] = age[k][t]
      BY <1>4
    <2>4. \A t \in Content!Sources : editor[t] # r
      BY <1>1 DEF ContentInv, EditsInv
    <2>5. contentReq'[r].pc = "scan" /\ contentReq'[r].key = s
      BY <1>7, <1>8
    <2>6. ASSUME NEW t \in Content!Sources, NEW i \in Requests, editor'[t] = i
          PROVE  /\ t \in Content!ContentKeys
                 /\ contentReq'[i].pc \in {"scan", "clear"} /\ contentReq'[i].key = t
                 /\ contentReq'[i].pc = "clear" =>
                      \A k \in Content!Keys \ late' : age'[k][t] > 1 => k \in contentReq'[i].todo
      <3>1. CASE t = s
        BY <2>1, <2>5, <2>6, <3>1
      <3>2. CASE t # s
        <4>1. editor[t] = i /\ i # r
          BY <2>1, <2>4, <2>6, <3>2
        <4>2. /\ t \in Content!ContentKeys
              /\ contentReq[i].pc \in {"scan", "clear"} /\ contentReq[i].key = t
              /\ contentReq[i].pc = "clear" =>
                   \A k \in Content!Keys \ late : age[k][t] > 1 => k \in contentReq[i].todo
          BY <4>1 DEF ContentInv, EditsInv
        <4>3. QED
          BY <1>2, <2>2, <2>3, <3>2, <4>1, <4>2
      <3>3. QED
        BY <3>1, <3>2
    <2>7. ASSUME NEW t \in Content!Sources, NEW k \in Content!Keys \ late', editor'[t] = "published"
          PROVE  age'[k][t] \in {0, 1}
      BY <1>2, <2>1, <2>3, <2>7 DEF ContentInv, EditsInv
    <2>8. QED
      BY <2>1, <2>6, <2>7 DEF EditsInv
  <1>12. Simulated
    <2>1. {t \in Content!Sources : editor'[t] = "published"}
            = {t \in Content!Sources : editor[t] = "published"} \ {s}
      BY <1>2, <1>3, ServerAssumption DEF ContentInv, EditsInv
    <2>2. Content!Promise!Edit(s)
      BY <1>2, <2>1 DEF Content!Promise!Edit, Content!Superseded, Content!Promise!Superseded
    <2>3. QED
      BY <1>3, <2>2 DEF Simulated, Content!Promise!Next
  <1>13. QED
    BY <1>4, <1>10, <1>11, <1>12 DEF ContentInv

\* The panel's request has scanned for the keys to clear: whatever is behind is among them.
LEMMA ScanFinds ==
  ASSUME ContentInv, NEW r \in Requests, Content!Scan(r)
  PROVE  ContentInv' /\ Simulated
  <1> DEFINE q == contentReq[r]
  <1> DEFINE T == Content!Present \cap Content!Scanned(q)
  <1> DEFINE R == q.rest \ Content!Turn(q)
  <1> DEFINE p == [q EXCEPT !.pc = "clear", !.todo = T, !.rest = R]
  <1>1. /\ q \in ContentReqs /\ Works(q) /\ Loaded(q) /\ q.pc \in {"scan", "clear"}
        /\ q.key \in Content!ContentKeys \cup {Catalogue}
        /\ UNCHANGED <<left, age, late, editor>>
    BY DEF ContentInv, ReadersInv, Works, Content!Scan, Content!At
  <1>2. Content!Become(r, p)
    BY DEF Content!Scan
  <1>3. T \in SUBSET Content!Keys /\ R \in SUBSET Content!Patterns
    BY <1>1 DEF Content!Present, ContentReqs
  <1>4. ASSUME q.key \in Content!ContentKeys,
               NEW k \in Content!Keys, age[k][q.key] > 1
        PROVE  k \in T
    <2>1. Content!Scanned(q) = Content!ContentKeys /\ q.key \in Content!Sources
      BY <1>4, EmbeddedKeys DEF Content!Scanned
    <2>2. k \in Content!ContentKeys
      BY <1>4, <2>1, EmbeddedKeys DEF ContentInv, EntriesInv, Content!ContentKeys
    <2>3. left[k] > 0
      BY <1>4, <2>1, NothingShown, Bounds DEF ContentInv, EntriesInv
    <2>4. QED
      BY <2>1, <2>2, <2>3 DEF Content!Present
  <1> HIDE DEF T, R
  <1>5. /\ p \in ContentReqs /\ p.pc = "clear" /\ p.todo = T /\ p.key = q.key
        /\ p.got = q.got /\ p.shows = q.shows /\ p.spent = q.spent
    BY <1>1, <1>3 DEF ContentReqs, Content!Steps
  <1> HIDE DEF p
  <1>6. Works(p) /\ Loaded(p)
    BY <1>1, <1>5 DEF Works, Loaded, Content!Filling
  <1>7. /\ ReadersInv' /\ contentReq'[r] = p
        /\ \A i \in Requests \ {r} : contentReq'[i] = contentReq[i]
    BY <1>2, <1>6, OneReader DEF ContentInv
  <1>8. EditsInv'
    BY <1>1, <1>4, <1>5, <1>7 DEF ContentInv, EditsInv
  <1>9. EntriesInv' /\ Simulated
    BY <1>1 DEF ContentInv, EntriesInv, Simulated, Content!Promise!vars
  <1>10. QED
    BY <1>7, <1>8, <1>9 DEF ContentInv

\* It clears one key.
LEMMA KeyCleared ==
  ASSUME ContentInv, NEW r \in Requests, NEW k \in Content!Keys, Content!Clear(r, k)
  PROVE  ContentInv' /\ Simulated
  <1> DEFINE q == contentReq[r]
  <1> DEFINE p == [q EXCEPT !.todo = q.todo \ {k}]
  <1>1. /\ q \in ContentReqs /\ Works(q) /\ Loaded(q) /\ q.pc = "clear"
        /\ Content!Drop({k}) /\ UNCHANGED editor
    BY DEF ContentInv, ReadersInv, Works, Content!Clear, Content!At
  <1>2. Content!Become(r, p)
    BY DEF Content!Clear
  <1>3. /\ p \in ContentReqs /\ p.pc = "clear" /\ p.todo = q.todo \ {k} /\ p.key = q.key
        /\ p.got = q.got /\ p.shows = q.shows /\ p.spent = q.spent
    BY <1>1 DEF ContentReqs
  <1> HIDE DEF p
  <1>4. Works(p) /\ Loaded(p)
    BY <1>1, <1>3 DEF Works, Loaded, Content!Filling
  <1>5. /\ ReadersInv' /\ contentReq'[r] = p
        /\ \A i \in Requests \ {r} : contentReq'[i] = contentReq[i]
    BY <1>2, <1>4, OneReader DEF ContentInv
  <1>6. EntriesInv' /\ Simulated /\ NoneFallsBehind
    BY <1>1, EntriesDropped
  <1>7. EditsInv'
    <2>1. \A s \in Content!Sources : age'[k][s] = 0
      BY <1>1, NothingShown DEF Content!Drop
    <2>2. QED
      BY <1>1, <1>3, <1>5, <1>6, <2>1 DEF ContentInv, EditsInv, NoneFallsBehind
  <1>8. QED
    BY <1>5, <1>6, <1>7 DEF ContentInv

\* It has cleared them all, and is answered.
LEMMA EditAnswered ==
  ASSUME ContentInv, NEW r \in Requests, Content!Answer(r)
  PROVE  ContentInv' /\ Simulated
  <1>1. PICK s \in Content!Sources : s = contentReq[r].key
    BY EmbeddedKeys DEF ContentInv, ReadersInv, Works, Content!Answer, Content!At
  <1>2. /\ contentReq[r].pc = "clear" /\ contentReq[r].todo = {}
        /\ Content!Become(r, Content!Idle) /\ UNCHANGED <<left, age, late>>
        /\ editor' = IF editor[s] = r THEN [editor EXCEPT ![s] = "published"] ELSE editor
    BY <1>1 DEF Content!Answer, Content!At, Content!Return
  <1>3. ReadersInv' /\ \A i \in Requests \ {r} : contentReq'[i] = contentReq[i]
    BY <1>2, ContentIdle, OneReader DEF ContentInv
  <1>4. EntriesInv' /\ \A k \in Content!Keys, t \in Content!Sources : age[k][t] \in Nat
    BY <1>2 DEF ContentInv, EntriesInv, Showings
  <1>5. \A t \in Content!Sources : editor[t] = r => t = s
    BY <1>1, <1>2 DEF ContentInv, EditsInv
  <1>6. editor[s] = r => \A k \in Content!Keys \ late : age[k][s] \in {0, 1}
    BY <1>1, <1>2, <1>4 DEF ContentInv, EditsInv
  <1>7. {"nobody", "published"} \cap Requests = {}
    BY ServerAssumption
  <1>8. CASE editor[s] = r
    <2>1. /\ editor' \in [Content!Sources -> Requests \cup {"nobody", "published"}]
          /\ editor'[s] = "published"
          /\ \A t \in Content!Sources \ {s} : editor'[t] = editor[t] /\ editor[t] # r
      BY <1>2, <1>5, <1>8 DEF ContentInv, EditsInv
    <2>2. EditsInv'
      BY <1>2, <1>3, <1>6, <1>7, <1>8, <2>1 DEF ContentInv, EditsInv
    <2>3. {t \in Content!Sources : editor'[t] = "published"}
            = {t \in Content!Sources : editor[t] = "published"} \cup {s}
      BY <2>1
    <2>4. Content!Promise!Publish(s)
      BY <1>2, <1>6, <1>8, <2>3 DEF Content!Promise!Publish
    <2>5. QED
      BY <1>3, <1>4, <2>2, <2>4 DEF Simulated, Content!Promise!Next, ContentInv
  <1>9. CASE editor[s] # r
    <2>1. editor' = editor /\ \A t \in Content!Sources : editor[t] # r
      BY <1>2, <1>5, <1>9
    <2>2. EditsInv'
      BY <1>2, <1>3, <2>1 DEF ContentInv, EditsInv
    <2>3. Simulated
      BY <1>2, <2>1 DEF Simulated, Content!Promise!vars
    <2>4. QED
      BY <1>3, <1>4, <2>2, <2>3 DEF ContentInv
  <1>10. QED
    BY <1>8, <1>9

\* A request ends half way: whoever edited is nobody.
LEMMA ContentStops ==
  ASSUME ContentInv, NEW r \in Requests, Content!Stop(r)
  PROVE  ContentInv' /\ Simulated
  <1>1. /\ Content!Become(r, Content!Idle) /\ UNCHANGED <<left, age, late>>
        /\ editor' = [s \in Content!Sources |-> IF editor[s] = r THEN "nobody" ELSE editor[s]]
    BY DEF Content!Stop, Content!Return
  <1>2. ReadersInv' /\ \A i \in Requests \ {r} : contentReq'[i] = contentReq[i]
    BY <1>1, ContentIdle, OneReader DEF ContentInv
  <1>3. EntriesInv'
    BY <1>1 DEF ContentInv, EntriesInv
  <1>4. {"nobody", "published"} \cap Requests = {}
    BY ServerAssumption
  <1>5. /\ editor' \in [Content!Sources -> Requests \cup {"nobody", "published"}]
        /\ \A s \in Content!Sources :
             /\ editor'[s] # r
             /\ editor'[s] = editor[s] \/ (editor[s] = r /\ editor'[s] = "nobody")
    BY <1>1, <1>4 DEF ContentInv, EditsInv
  <1>6. EditsInv'
    BY <1>1, <1>2, <1>4, <1>5 DEF ContentInv, EditsInv
  <1>7. {s \in Content!Sources : editor'[s] = "published"}
          = {s \in Content!Sources : editor[s] = "published"}
    BY <1>4, <1>5
  <1>8. Simulated
    BY <1>1, <1>7 DEF Simulated, Content!Promise!vars
  <1>9. QED
    BY <1>2, <1>3, <1>6, <1>8 DEF ContentInv

\* A source changes by itself: the entries that were current are late.
LEMMA SourceDrifts ==
  ASSUME ContentInv, NEW s \in Content!Sources, Content!Drift(s)
  PROVE  ContentInv' /\ Simulated
  <1>1. /\ age' = [k \in Content!Keys |-> Content!Superseded(age[k], s)]
        /\ contentReq' = Content!Overtaken(s)
        /\ late' = late \cup {k \in Content!Keys : age[k][s] = 1}
        /\ UNCHANGED <<left, editor>>
    BY DEF Content!Drift
  <1>2. late' \subseteq Content!Keys /\ late \subseteq late'
        /\ \A k \in late' \ late : left[k] # 0
    BY <1>1, NothingShown DEF ContentInv, EntriesInv
  <1>3. /\ EntriesInv'
        /\ \A k \in Content!Keys, t \in Content!Sources :
             age'[k][t] = IF t = s /\ age[k][t] = 1 THEN 2 ELSE age[k][t]
    BY <1>1, <1>2, SourceChanges
  <1>4. \A i \in Requests :
          /\ Works(contentReq'[i]) /\ Loaded(contentReq'[i])
          /\ contentReq'[i].pc = contentReq[i].pc /\ contentReq'[i].key = contentReq[i].key
          /\ contentReq'[i].todo = contentReq[i].todo
    BY <1>1, ReadersOvertaken DEF ContentInv
  <1>5. ReadersInv'
    <2>1. contentReq' = [i \in Requests |-> contentReq'[i]]
      BY <1>1 DEF Content!Overtaken
    <2>2. QED
      BY <1>4, <2>1 DEF ReadersInv, Works
  <1>6. NoneFallsBehind
    <2>1. \A k \in Content!Keys, t \in Content!Sources : age[k][t] \in Nat
      BY DEF ContentInv, EntriesInv, Showings
    <2>2. QED
      BY <1>1, <1>3, <2>1 DEF NoneFallsBehind
  <1>7. EditsInv'
    BY <1>1, <1>4, <1>6, EditsStand DEF ContentInv
  <1>8. Content!Promise!Drift(s)
    BY <1>1 DEF Content!Promise!Drift, Content!Superseded, Content!Promise!Superseded
  <1>9. QED
    BY <1>3, <1>5, <1>7, <1>8 DEF Simulated, Content!Promise!Next, ContentInv

\* Time passes: what is behind ages, and no entry lives long enough to pass its bound.
LEMMA EntriesAge ==
  ASSUME ContentInv, Content!Tick
  PROVE  ContentInv' /\ Simulated
  <1> DEFINE E == Content!Ending
  <1>1. /\ E \subseteq Content!Keys /\ \A k \in Content!Keys : k \in E <=> left[k] = 1
        /\ left' = [k \in Content!Keys |-> IF left[k] = 0 \/ k \in E THEN 0 ELSE left[k] - 1]
        /\ age' = [k \in Content!Keys |-> IF k \in E THEN Content!Nothing ELSE Content!Aged(age[k])]
        /\ late' = late \ E /\ UNCHANGED editor
    BY DEF Content!Tick, Content!Ending
  <1> HIDE DEF E
  <1>2. ASSUME NEW k \in Content!Keys
        PROVE  /\ age[k] \in Showings /\ left[k] \in Nat /\ left[k] <= TTL /\ age'[k] \in Showings
               /\ \A s \in Content!Sources :
                    age'[k][s] = IF k \in E THEN 0
                                 ELSE IF age[k][s] < 2 THEN age[k][s] ELSE age[k][s] + 1
    <2>1. age[k] \in Showings /\ left[k] \in Nat /\ left[k] <= TTL
      BY Bounds DEF ContentInv, EntriesInv
    <2>2. /\ Content!Aged(age[k]) \in Showings
          /\ \A s \in Content!Sources :
               Content!Aged(age[k])[s] = IF age[k][s] < 2 THEN age[k][s] ELSE age[k][s] + 1
      BY <2>1, AgesMove
    <2>3. QED
      BY <1>1, <2>1, <2>2, NothingShown
  <1>3. ASSUME NEW k \in Content!Keys, NEW s \in Content!Sources
        PROVE  /\ age'[k][s] # 0 => k = Home \/ Content!Table(k) = s
               /\ left'[k] # 0 => age'[k][s] + left'[k] <= Content!Behind[k] + 1
               /\ age'[k][s] <= Content!Behind[k]
    <2>1. /\ age[k][s] \in Nat /\ left[k] \in Nat /\ Content!Behind[k] \in Nat
          /\ age[k][s] # 0 => k = Home \/ Content!Table(k) = s
          /\ left[k] # 0 => age[k][s] + left[k] <= Content!Behind[k] + 1
          /\ left[k] = 0 => age[k][s] = 0
      BY <1>2, NothingShown, Bounds DEF ContentInv, EntriesInv, Showings
    <2>2. /\ left'[k] = (IF left[k] = 0 \/ left[k] = 1 THEN 0 ELSE left[k] - 1)
          /\ age'[k][s] = (IF left[k] = 1 THEN 0
                           ELSE IF age[k][s] < 2 THEN age[k][s] ELSE age[k][s] + 1)
      BY <1>1, <1>2
    <2>3. QED
      BY <2>1, <2>2
  <1>4. ASSUME NEW k \in Content!Keys, left'[k] = 0
        PROVE  age'[k] = Content!Nothing /\ k \notin late'
    <2>1. CASE k \in E
      BY <1>1, <2>1
    <2>2. CASE k \notin E
      <3>1. left[k] = 0
        BY <1>1, <1>2, <1>4, <2>2
      <3>2. age[k] = Content!Nothing /\ k \notin late
        BY <3>1 DEF ContentInv, EntriesInv
      <3>3. age'[k] = Content!Aged(Content!Nothing)
        BY <1>1, <2>2, <3>2
      <3>4. Content!Aged(Content!Nothing) = Content!Nothing
        BY DEF Content!Aged, Content!Nothing
      <3>5. QED
        BY <1>1, <3>2, <3>3, <3>4
    <2>3. QED
      BY <2>1, <2>2
  <1>5. EntriesInv'
    <2>1. /\ left' \in [Content!Keys -> 0 .. TTL] /\ age' \in [Content!Keys -> Showings]
          /\ late' \subseteq Content!Keys
      BY <1>1, <1>2, Bounds DEF ContentInv, EntriesInv
    <2>2. QED
      BY <1>3, <1>4, <2>1 DEF EntriesInv
  <1>6. NoneFallsBehind
    <2>1. \A k \in Content!Keys, s \in Content!Sources : age[k][s] \in Nat
      BY DEF ContentInv, EntriesInv, Showings
    <2>2. QED
      BY <1>1, <1>2, <2>1 DEF NoneFallsBehind
  <1>7. ASSUME NEW i \in Requests
        PROVE  /\ Works(contentReq'[i]) /\ Loaded(contentReq'[i])
               /\ contentReq'[i].pc = contentReq[i].pc /\ contentReq'[i].key = contentReq[i].key
               /\ contentReq'[i].todo = contentReq[i].todo
    <2> DEFINE q == contentReq[i]
    <2> DEFINE p == [q EXCEPT !.got = Content!Aged(@), !.shows = Content!Aged(@), !.spent = @ + 1]
    <2>1. Works(q) /\ Loaded(q)
      BY DEF ContentInv, ReadersInv
    <2>2. CASE q.pc \in Content!Filling
      <3>1. contentReq'[i] = p /\ q.spent < FillTime
        BY <2>2 DEF Content!Tick, Content!InTime
      <3>2. Works(p) /\ Loaded(p) /\ p.pc = q.pc /\ p.key = q.key /\ p.todo = q.todo
        BY <2>1, <3>1, RequestAged
      <3> HIDE DEF p
      <3>3. QED
        BY <3>1, <3>2
    <2>3. CASE q.pc \notin Content!Filling
      BY <2>1, <2>3 DEF Content!Tick
    <2>4. QED
      BY <2>2, <2>3
  <1>8. ReadersInv'
    <2>1. contentReq' = [i \in Requests |-> contentReq'[i]]
      BY DEF Content!Tick
    <2>2. QED
      BY <1>7, <2>1 DEF ReadersInv, Works
  <1>9. EditsInv'
    BY <1>1, <1>6, <1>7, EditsStand DEF ContentInv
  <1>10. Content!Promise!Tick(E)
    BY <1>1, <1>3 DEF Content!Promise!Tick, Content!Nothing, Content!Promise!Nothing,
                      Content!Aged, Content!Promise!Aged
  <1>11. QED
    BY <1>1, <1>5, <1>8, <1>9, <1>10 DEF Simulated, Content!Promise!Next, ContentInv

\* Redis is restarted without its keys.
LEMMA CacheLost ==
  ASSUME ContentInv, Content!RedisLost
  PROVE  ContentInv' /\ Simulated
  <1>1. Content!Drop(Content!Keys) /\ UNCHANGED <<contentReq, editor>>
    BY DEF Content!RedisLost
  <1>2. EntriesInv' /\ Simulated /\ NoneFallsBehind
    BY <1>1, EntriesDropped
  <1>3. ReadersInv' /\ EditsInv'
    BY <1>1, <1>2, EditsStand DEF ContentInv, ReadersInv
  <1>4. QED
    BY <1>2, <1>3 DEF ContentInv

\* Every step of the content keeps the promise.
LEMMA ContentStepKeeps ==
  ASSUME ContentInv, ContentNext
  PROVE  ContentInv' /\ Simulated
  <1>1. ASSUME NEW r \in Requests, ContentMoves(r) PROVE ContentInv' /\ Simulated
    BY <1>1, ContentBegins, ReaderLoads, PartLoads, PartEmbeds, PartKept, ReaderStores,
       RefusedKeeps, EditWritten, ScanFinds, KeyCleared, EditAnswered, ContentStops
       DEF ContentMoves
  <1>2. CASE UNCHANGED contentVars
    <2>1. ReadersInv' /\ EntriesInv' /\ EditsInv'
      BY <1>2 DEF contentVars, ContentInv, ReadersInv, EntriesInv, EditsInv
    <2>2. Simulated
      BY <1>2 DEF contentVars, Simulated, Content!Promise!vars
    <2>3. QED
      BY <2>1, <2>2 DEF ContentInv
  <1>3. QED
    BY <1>1, <1>2, SourceDrifts, EntriesAge, CacheLost DEF ContentNext

\* No cache has anything at first.
LEMMA ContentStarts == Init => ContentInv /\ Content!Promise!Init
  <1> SUFFICES ASSUME Init PROVE ContentInv /\ Content!Promise!Init
    OBVIOUS
  <1>1. /\ left = [k \in Content!Keys |-> 0] /\ age = [k \in Content!Keys |-> Content!Nothing]
        /\ contentReq = [r \in Requests |-> Content!Idle] /\ late = {}
        /\ editor = [s \in Content!Sources |-> "published"]
    BY DEF Init, Content!Init
  <1>2. ReadersInv
    BY <1>1, ContentIdle DEF ReadersInv
  <1>3. EntriesInv
    BY <1>1, NothingShown, Bounds DEF EntriesInv
  <1>4. EditsInv
    BY <1>1, NothingShown, ServerAssumption DEF EditsInv
  <1>5. Content!Promise!Init
    BY <1>1 DEF Content!Promise!Init, Content!Nothing, Content!Promise!Nothing
  <1>6. QED
    BY <1>2, <1>3, <1>4, <1>5 DEF ContentInv

\* The caches do what module Freshness promises: an entry is never behind by more than its
\* bound, and an edit is answered when no entry is behind it, late ones apart
\* (ContentService, ProductsService, CollectionsService, AdminContentService.afterWrite).
THEOREM CachesKeepPromise == Spec => CacheIsFresh
  <1>1. Init => ContentInv /\ Content!Promise!Init
    BY ContentStarts
  <1>2. ContentInv /\ [Next]_vars => ContentInv' /\ [Content!Promise!Next]_(Content!Promise!vars)
    BY ProjectContent, ContentStepKeeps DEF Simulated
  <1>3. QED
    BY <1>1, <1>2, PTL DEF Spec, CacheIsFresh, Content!CacheIsFresh, Content!Promise!Spec

\* A reader sees of a source whose last edit was answered to the panel what is current, late
\* entries apart (AdminContentService.afterWrite).
THEOREM PublishedSeen == Spec => []Content!Promise!PublishedIsSeen
  <1>1. Init => ContentInv
    BY ContentStarts
  <1>2. ContentInv /\ [Next]_vars => ContentInv'
    BY ProjectContent, ContentStepKeeps
  <1>3. ContentInv => Content!Promise!PublishedIsSeen
    BY DEF ContentInv, EditsInv, Content!Promise!PublishedIsSeen
  <1>4. QED
    BY <1>1, <1>2, <1>3, PTL DEF Spec

(***************************************************************************)
(* The types of the server as a whole                                      *)
(***************************************************************************)

\* What the decisions of the programme do not rest on.
ProgrammeRest ==
  /\ last \in Applications \cup {None} /\ suspended \in BOOLEAN /\ contested \subseteq Applications
  /\ \A a, b \in Applications : status[a] = "PENDING" /\ status[b] = "PENDING" => a = b

\* An application is made only while none is pending.
LEMMA ProgrammeRestKept ==
  ASSUME ProgrammeInv, ProgrammeRest, ProgrammeNext
  PROVE  ProgrammeRest'
  <1> USE DEF ProgrammeInv, ProgrammeTypes
  <1>1. ASSUME NEW r \in Requests,
               Programme!Apply(r) \/ Programme!AssertCanApply(r) \/ Programme!Stop(r)
        PROVE  ProgrammeRest'
    BY <1>1 DEF Programme!Apply, Programme!AssertCanApply, Programme!Stop, ProgrammeRest
  <1>2. ASSUME NEW r \in Requests, NEW a \in Applications, NEW decision \in {"approve", "reject"},
               Programme!Decide(r, a, decision)
        PROVE  ProgrammeRest'
    BY <1>2 DEF Programme!Decide, ProgrammeRest
  <1>3. ASSUME NEW r \in Requests, NEW a \in Applications, Programme!CreateApplication(r, a)
        PROVE  ProgrammeRest'
    BY <1>3 DEF Programme!CreateApplication, ProgrammeRest
  <1>4. ASSUME NEW r \in Requests, Programme!Approve(r) \/ Programme!Reject(r) PROVE ProgrammeRest'
    <2>1. UNCHANGED <<last, contested>> /\ suspended' \in {suspended, FALSE}
      BY <1>4 DEF Programme!Approve, Programme!Reject
    <2>2. \A a \in Applications : status'[a] \in {status[a], "APPROVED", "REJECTED"}
      BY <1>4 DEF Programme!Approve, Programme!Reject
    <2>3. QED
      BY <2>1, <2>2 DEF ProgrammeRest
  <1>5. CASE Programme!Suspend \/ Programme!Unsuspend
    <2>1. UNCHANGED <<status, last, contested>> /\ suspended' \in {TRUE, FALSE}
      BY <1>5 DEF Programme!Suspend, Programme!Unsuspend
    <2>2. QED
      BY <2>1 DEF ProgrammeRest
  <1>6. CASE UNCHANGED programmeVars
    BY <1>6 DEF programmeVars, ProgrammeRest
  <1>7. QED
    BY <1>1, <1>2, <1>3, <1>4, <1>5, <1>6
       DEF ProgrammeNext, Programme!ApproveRead, Programme!RejectRead

\* A set of which no two members differ has at most one.
LEMMA AtMostOne ==
  ASSUME NEW S, \A a, b \in S : a = b
  PROVE  Cardinality(S) <= 1
  <1>1. CASE S = {}
    BY <1>1, FS_EmptySet
  <1>2. CASE S # {}
    <2>1. PICK a : S = {a}
      BY <1>2
    <2>2. QED
      BY <2>1, FS_Singleton
  <1>3. QED
    BY <1>1, <1>2

\* Whoever waits waits for a load.
WaitersInv ==
  \A r \in Requests : shopReq[r].pc = "wait" => load[shopReq[r].proc].step # "none"

\* A load that ends takes along those who wait for it; nobody's process changes meanwhile.
LEMMA WaitersKept ==
  ASSUME ShopInv, WaitersInv, ShopNext
  PROVE  WaitersInv'
  <1> USE DEF ShopInv, ShopTypes
  <1> USE DEF Shop!At, Shop!Become, Shop!Return
  <1>1. ASSUME NEW r \in Requests, ShopMoves(r), ~Shop!GetToken(r) PROVE WaitersInv'
    <2>1. /\ load' = load /\ shopReq'[r].pc # "wait"
          /\ \A i \in Requests \ {r} : shopReq'[i] = shopReq[i]
      <3>1. ASSUME NEW p \in Processes, Shop!Begin(r, p) PROVE shopReq'[r].pc # "wait"
        <4>1. shopReq'[r] = [Shop!Idle EXCEPT !.pc = "token", !.proc = p]
          BY <3>1 DEF Shop!Begin
        <4>2. QED
          BY <4>1 DEF Shop!Idle
      <3>2. ASSUME Shop!Rejected(r) PROVE shopReq'[r].pc # "wait"
        BY <3>2, RejectedShape
      <3>3. ASSUME Shop!CallFails(r) \/ Shop!Delete(r) PROVE shopReq'[r].pc # "wait"
        <4>1. shopReq'[r] \in {Shop!Retried(shopReq[r]), Shop!Failed(shopReq[r])}
          BY <3>3 DEF Shop!CallFails, Shop!Delete
        <4>2. QED
          BY <4>1, AttemptFailed
      <3>4. ASSUME Shop!Answered(r) \/ Shop!Return(r) PROVE shopReq'[r].pc # "wait"
        BY <3>4, ShopIdle DEF Shop!Answered
      <3>5. QED
        BY <1>1, <3>1, <3>2, <3>3, <3>4
           DEF ShopMoves, Shop!Begin, Shop!Rejected, Shop!CallFails, Shop!Delete, Shop!Answered
    <2>2. QED
      BY <2>1 DEF WaitersInv
  <1>2. ASSUME NEW r \in Requests, Shop!GetToken(r) PROVE WaitersInv'
    <2>1. shopReq[r].proc \in Processes /\ shopReq[r] \in ShopReqs
      BY <1>2 DEF Shop!GetToken
    <2>2. \A i \in Requests \ {r} : /\ shopReq'[i].pc = shopReq[i].pc
                                    /\ shopReq'[i].proc = shopReq[i].proc
      BY <1>2 DEF Shop!GetToken, ShopReqs
    <2>3. \A p \in Processes : load[p].step # "none" => load'[p].step # "none"
      BY <1>2 DEF Shop!GetToken
    <2>4. /\ shopReq'[r].proc = shopReq[r].proc
          /\ shopReq'[r].pc = "wait" => load'[shopReq[r].proc].step # "none"
      <3>1. \/ /\ shopReq'[r] = [shopReq[r] EXCEPT !.pc = "call", !.token = memory[shopReq[r].proc]]
            \/ /\ shopReq'[r] = [shopReq[r] EXCEPT !.pc = "wait"]
               /\ load'[shopReq[r].proc].step # "none"
        BY <1>2, <2>1 DEF Shop!GetToken
      <3>2. QED
        BY <2>1, <3>1 DEF ShopReqs
    <2>5. QED
      BY <2>1, <2>2, <2>3, <2>4 DEF WaitersInv
  <1>3. ASSUME NEW p \in Processes, Shop!LoadRedis(p) \/ Shop!Fetch(p) \/ Shop!StoreRedis(p)
        PROVE  WaitersInv'
    <2>1. shopReq' = shopReq /\ \A j \in Processes : load[j].step # "none" => load'[j].step # "none"
      BY <1>3 DEF Shop!LoadRedis, Shop!Fetch, Shop!StoreRedis
    <2>2. QED
      BY <2>1 DEF WaitersInv
  <1>4. ASSUME NEW p \in Processes, Shop!SetMemory(p) \/ Shop!LoadFails(p) PROVE WaitersInv'
    <2>1. \A j \in Processes \ {p} : load'[j] = load[j]
      BY <1>4 DEF Shop!SetMemory, Shop!LoadFails
    <2>2. ASSUME NEW i \in Requests
          PROVE  \/ shopReq'[i] = shopReq[i] /\ ~(shopReq[i].pc = "wait" /\ shopReq[i].proc = p)
                 \/ shopReq'[i].pc # "wait"
      <3>1. shopReq[i] \in ShopReqs
        OBVIOUS
      <3>2. CASE i \notin Shop!Waiting(p)
        BY <1>4, <3>2 DEF Shop!SetMemory, Shop!LoadFails, Shop!Waiting
      <3>3. CASE i \in Shop!Waiting(p)
        <4>1. CASE Shop!SetMemory(p)
          <5>1. shopReq'[i] = [shopReq[i] EXCEPT !.pc = "call", !.token = load[p].token]
            BY <3>3, <4>1 DEF Shop!SetMemory
          <5>2. QED
            BY <3>1, <5>1 DEF ShopReqs
        <4>2. CASE Shop!LoadFails(p)
          <5>1. shopReq'[i] \in {Shop!Retried(shopReq[i]), Shop!Failed(shopReq[i])}
            BY <3>3, <4>2 DEF Shop!LoadFails
          <5>2. QED
            BY <3>1, <5>1, AttemptFailed
        <4>3. QED
          BY <1>4, <4>1, <4>2
      <3>4. QED
        BY <3>2, <3>3
    <2>3. QED
      BY <2>1, <2>2 DEF WaitersInv
  <1>5. CASE Shop!Revoke
    <2>1. \A i \in Requests : /\ shopReq'[i].pc = shopReq[i].pc
                              /\ shopReq'[i].proc = shopReq[i].proc
      BY <1>5 DEF Shop!Revoke, ShopReqs
    <2>2. \A p \in Processes : load'[p].step = load[p].step
      BY <1>5 DEF Shop!Revoke
    <2>3. QED
      BY <2>1, <2>2 DEF WaitersInv
  <1>6. CASE (\E p \in Processes : Shop!Lapse(p)) \/ Shop!RedisLost \/ UNCHANGED shopVars
    BY <1>6 DEF Shop!Lapse, Shop!RedisLost, shopVars, WaitersInv
  <1>7. QED
    BY <1>1, <1>2, <1>3, <1>4, <1>5, <1>6 DEF ShopNext, ShopLoads

\* A step of the content leaves the place of every other request as it is, and begins
\* nothing by itself.
LEMMA PlacesKept ==
  ASSUME ContentInv, NEW i \in Requests,
         \/ \E r \in Requests \ {i} : ContentMoves(r)
         \/ \E s \in Content!Sources : Content!Drift(s)
         \/ Content!Tick
         \/ Content!RedisLost
         \/ UNCHANGED contentVars
  PROVE  /\ contentReq'[i].pc = contentReq[i].pc /\ contentReq'[i].key = contentReq[i].key
         /\ contentReq'[i].part = contentReq[i].part
  <1> USE DEF Content!Become, Content!Return
  <1>1. contentReq \in [Requests -> ContentReqs] /\ Works(contentReq[i]) /\ Loaded(contentReq[i])
    BY DEF ContentInv, ReadersInv
  <1>2. ASSUME NEW r \in Requests \ {i}, ContentMoves(r), ~Content!Write(r)
        PROVE  contentReq'[i] = contentReq[i]
    BY <1>1, <1>2 DEF ContentMoves, Content!Miss, Content!Embed, Content!Clear, Content!Edit, Content!Flush,
       Content!Load, Content!LoadPart, Content!KeepPart, Content!SkipPart, Content!Set,
       Content!EditRefused, Content!Scan, Content!Answer, Content!Stop
  <1>3. ASSUME NEW r \in Requests \ {i}, Content!Write(r)
        PROVE  /\ contentReq'[i].pc = contentReq[i].pc /\ contentReq'[i].key = contentReq[i].key
               /\ contentReq'[i].part = contentReq[i].part
    <2>1. PICK s \in Content!Sources : s = contentReq[r].key
      BY <1>3, EmbeddedKeys DEF ContentInv, ReadersInv, Works, Content!Write, Content!At
    <2>2. contentReq'[i] = Content!Overtaken(s)[i]
      BY <1>3, <2>1 DEF Content!Write, Content!Overtaken
    <2>3. QED
      BY <2>2, ReadersOvertaken DEF ContentInv
  <1>4. ASSUME NEW s \in Content!Sources, Content!Drift(s)
        PROVE  /\ contentReq'[i].pc = contentReq[i].pc /\ contentReq'[i].key = contentReq[i].key
               /\ contentReq'[i].part = contentReq[i].part
    BY <1>4, ReadersOvertaken DEF Content!Drift, ContentInv
  <1>5. CASE Content!Tick
    <2> DEFINE q == contentReq[i]
    <2> DEFINE p == [q EXCEPT !.got = Content!Aged(@), !.shows = Content!Aged(@), !.spent = @ + 1]
    <2>1. contentReq'[i] = q \/ (contentReq'[i] = p /\ q.spent < FillTime)
      BY <1>5 DEF Content!Tick, Content!InTime
    <2>2. CASE q.spent < FillTime /\ contentReq'[i] = p
      <3>1. p.pc = q.pc /\ p.key = q.key /\ p.part = q.part
        BY <1>1, <2>2, RequestAged
      <3> HIDE DEF p
      <3>2. QED
        BY <2>2, <3>1
    <2>3. QED
      BY <2>1, <2>2
  <1>6. CASE Content!RedisLost \/ UNCHANGED contentVars
    BY <1>6 DEF Content!RedisLost, contentVars
  <1>7. QED
    BY <1>2, <1>3, <1>4, <1>5, <1>6

\* Whoever has nothing to do with the store begins nothing there by what others do.
LEMMA IdleAtStore ==
  ASSUME ShopInv, NEW i \in Requests, Shop!At(i, "idle"),
         \/ \E r \in Requests : Shop!Step(r) \/ Shop!CallFails(r)
         \/ \E p \in Processes : ShopLoads(p)
         \/ Shop!Revoke
  PROVE  Shop!At(i, "idle")'
  <1> USE DEF ShopInv, ShopTypes
  <1> USE DEF Shop!At, Shop!Become, Shop!Return
  <1>1. ASSUME NEW r \in Requests, Shop!Rejected(r) \/ Shop!Delete(r) \/ Shop!CallFails(r)
        PROVE  shopReq'[i].pc = "idle"
    <2>1. r # i
      BY <1>1 DEF Shop!Rejected, Shop!Delete, Shop!CallFails
    <2>2. QED
      BY <1>1, <2>1 DEF Shop!Rejected, Shop!Delete, Shop!CallFails
  <1>2. ASSUME NEW r \in Requests, Shop!GetToken(r) PROVE shopReq'[i].pc = "idle"
    <2>1. r # i
      BY <1>2 DEF Shop!GetToken
    <2>2. QED
      BY <1>2, <2>1 DEF Shop!GetToken, ShopReqs
  <1>3. ASSUME NEW p \in Processes, ShopLoads(p) PROVE shopReq'[i].pc = "idle"
    BY <1>3 DEF ShopLoads, Shop!LoadRedis, Shop!Fetch, Shop!StoreRedis, Shop!SetMemory,
                Shop!LoadFails, Shop!Lapse, Shop!Waiting
  <1>4. CASE Shop!Revoke
    BY <1>4 DEF Shop!Revoke, ShopReqs
  <1>5. QED
    BY <1>1, <1>2, <1>3, <1>4 DEF Shop!Step

\* A request is one handler's: it asks the store for itself, or for what it loads.
SlotsInv ==
  \A r \in Requests :
    /\ Content!At(r, "idle") \/ Shop!At(r, "idle") \/ FromStore(r)
    /\ Login!At(r, "idle") \/ Programme!At(r, "idle")

\* A handler begins in a request that is free, and the store is asked by one that loads.
LEMMA OneHandler ==
  ASSUME ContentInv, ShopInv, SlotsInv, NEW i \in Requests, [Next]_vars
  PROVE  Content!At(i, "idle")' \/ Shop!At(i, "idle")' \/ FromStore(i)'
  <1> DEFINE Still == /\ contentReq'[i].pc = contentReq[i].pc
                      /\ contentReq'[i].key = contentReq[i].key
                      /\ contentReq'[i].part = contentReq[i].part
  <1> DEFINE Quiet == Shop!At(i, "idle") => Shop!At(i, "idle")'
  <1>1. Still /\ Quiet => Content!At(i, "idle")' \/ Shop!At(i, "idle")' \/ FromStore(i)'
    BY DEF SlotsInv, Content!At, FromStore
  <1>2. UNCHANGED shopVars => Quiet
    BY DEF shopVars, Shop!At
  <1>3. UNCHANGED contentVars => Still
    BY PlacesKept
  <1>4. (\E r \in Requests \ {i} : ContentMoves(r)) => Still
    BY PlacesKept
  <1>5. contentReq[i] \in ContentReqs /\ contentReq \in [Requests -> ContentReqs]
        /\ shopReq \in [Requests -> ShopReqs]
    BY DEF ContentInv, ReadersInv, ShopInv, ShopTypes
  <1> HIDE DEF Still, Quiet
  <1>6. ASSUME NEW r \in Requests, BeginContent(r)
        PROVE  Content!At(i, "idle")' \/ Shop!At(i, "idle")' \/ FromStore(i)'
    <2>1. UNCHANGED shopVars /\ Shop!At(r, "idle") /\ ContentMoves(r)
      BY <1>6 DEF BeginContent, Arrives, Free, ContentMoves
    <2>2. CASE r = i
      BY <2>1, <2>2 DEF shopVars, Shop!At
    <2>3. CASE r # i
      BY <1>1, <1>2, <1>4, <2>1, <2>3
    <2>4. QED
      BY <2>2, <2>3
  <1>7. ASSUME NEW r \in Requests, BeginStore(r)
        PROVE  Content!At(i, "idle")' \/ Shop!At(i, "idle")' \/ FromStore(i)'
    <2>1. /\ UNCHANGED contentVars /\ Content!At(r, "idle")
          /\ \E p \in Processes : Shop!Begin(r, p)
      BY <1>7 DEF BeginStore, Arrives, Free
    <2>2. CASE r = i
      BY <2>1, <2>2 DEF contentVars, Content!At
    <2>3. CASE r # i
      <3>1. shopReq'[i] = shopReq[i]
        BY <1>5, <2>1, <2>3 DEF Shop!Begin, Shop!Become
      <3>2. Quiet
        BY <3>1 DEF Quiet, Shop!At
      <3>3. QED
        BY <1>1, <1>3, <2>1, <3>2
    <2>4. QED
      BY <2>2, <2>3
  <1>8. ASSUME NEW r \in Requests, ContentStep(r) \/ SectionFails(r)
        PROVE  Content!At(i, "idle")' \/ Shop!At(i, "idle")' \/ FromStore(i)'
    <2>1. UNCHANGED shopVars /\ ContentMoves(r)
      BY <1>8 DEF ContentStep, SectionFails, Content!Step, Content!LoadStep, ContentMoves
    <2>2. CASE r = i
      <3>1. ~Content!At(i, "idle")
        BY <1>8, <2>2 DEF ContentStep, SectionFails, Content!Step, Content!LoadStep, Content!Embed,
              Content!Clear, Content!KeepPart, Content!Set, Content!EditRefused, Content!Write,
              Content!Scan, Content!Answer, Content!Load, Content!LoadPart, Content!SkipPart,
              Content!At
      <3>2. ~FromStore(i)
        <4>1. CASE Content!Step(i)
          BY <4>1 DEF FromStore, Content!Step, Content!Embed, Content!Clear, Content!KeepPart,
                Content!Set, Content!EditRefused, Content!Write, Content!Scan, Content!Answer,
                Content!At
        <4>2. QED
          BY <1>8, <2>2, <4>1 DEF ContentStep, SectionFails
      <3>3. QED
        BY <2>1, <3>1, <3>2 DEF SlotsInv, shopVars, Shop!At
    <2>3. CASE r # i
      BY <1>1, <1>2, <1>4, <2>1, <2>3
    <2>4. QED
      BY <2>2, <2>3
  <1>9. ASSUME NEW r \in Requests, AskStore(r)
        PROVE  Content!At(i, "idle")' \/ Shop!At(i, "idle")' \/ FromStore(i)'
    <2>1. /\ UNCHANGED contentVars /\ FromStore(r)
          /\ \E p \in Processes : Shop!Begin(r, p)
      BY <1>9 DEF AskStore
    <2>2. CASE r = i
      BY <2>1, <2>2 DEF contentVars, FromStore, Content!At
    <2>3. CASE r # i
      <3>1. shopReq'[i] = shopReq[i]
        BY <1>5, <2>1, <2>3 DEF Shop!Begin, Shop!Become
      <3>2. Quiet
        BY <3>1 DEF Quiet, Shop!At
      <3>3. QED
        BY <1>1, <1>3, <2>1, <3>2
    <2>4. QED
      BY <2>2, <2>3
  <1>10. ASSUME NEW r \in Requests, StoreAnswers(r) \/ StoreFails(r) \/ Stop(r)
        PROVE  Content!At(i, "idle")' \/ Shop!At(i, "idle")' \/ FromStore(i)'
    <2>1. /\ UNCHANGED contentVars \/ ContentMoves(r)
          /\ Shop!Return(r) \/ (UNCHANGED shopVars /\ UNCHANGED contentVars)
      BY <1>10 DEF StoreAnswers, StoreFails, Stop, Shop!Answered, ContentMoves
    <2>2. CASE UNCHANGED shopVars /\ UNCHANGED contentVars
      BY <1>1, <1>2, <1>3, <2>2
    <2>3. CASE Shop!Return(r)
      <3>1. shopReq'[r].pc = "idle" /\ (r # i => shopReq'[i] = shopReq[i])
        BY <1>5, <2>3, ShopIdle DEF Shop!Return, Shop!Become
      <3>2. CASE r = i
        BY <3>1, <3>2 DEF Shop!At
      <3>3. CASE r # i
        <4>1. Quiet /\ Still
          BY <1>3, <1>4, <2>1, <3>1, <3>3 DEF Quiet, Shop!At
        <4>2. QED
          BY <1>1, <4>1
      <3>4. QED
        BY <3>2, <3>3
    <2>4. QED
      BY <2>1, <2>2, <2>3
  <1>11. ASSUME \/ \E r \in Requests : ShopStep(r)
                \/ ShopLoad \/ TokenLost \/ StoreTrouble
        PROVE  Content!At(i, "idle")' \/ Shop!At(i, "idle")' \/ FromStore(i)'
    <2>1. UNCHANGED contentVars
      BY <1>11 DEF ShopStep, ShopLoad, TokenLost, StoreTrouble
    <2>2. Quiet
      BY <1>11, IdleAtStore
         DEF Quiet, ShopStep, ShopLoad, TokenLost, StoreTrouble, Shop!LoadStep, ShopLoads
    <2>3. QED
      BY <1>1, <1>3, <2>1, <2>2
  <1>12. CASE \/ Tick \/ Drift \/ RedisLost
    <2>1. Still
      BY <1>12, PlacesKept DEF Tick, Drift, RedisLost, Still
    <2>2. Quiet
      BY <1>2, <1>12 DEF Tick, Drift, RedisLost, Shop!RedisLost, Quiet, Shop!At
    <2>3. QED
      BY <1>1, <2>1, <2>2
  <1>13. ASSUME \/ \E r \in Requests :
                     BeginLogin(r) \/ BeginProgramme(r) \/ LoginStep(r) \/ ProgrammeStep(r)
                \/ Creator \/ WindowEnds \/ UNCHANGED vars
        PROVE  Content!At(i, "idle")' \/ Shop!At(i, "idle")' \/ FromStore(i)'
    <2>1. UNCHANGED contentVars /\ UNCHANGED shopVars
      BY <1>13 DEF BeginLogin, BeginProgramme, LoginStep, ProgrammeStep, Creator, WindowEnds, vars
    <2>2. QED
      BY <1>1, <1>2, <1>3, <2>1
  <1>14. QED
    BY <1>6, <1>7, <1>8, <1>9, <1>10, <1>11, <1>12, <1>13 DEF Next

\* A request of the panel is one of the login or of the programme.
LEMMA OnePart ==
  ASSUME LoginTypes, ProgrammeTypes, SlotsInv, NEW i \in Requests, [Next]_vars
  PROVE  Login!At(i, "idle")' \/ Programme!At(i, "idle")'
  <1> USE DEF Login!At, Login!Become, Login!Return, Login!Idle, LoginTypes
  <1> USE DEF Programme!At, Programme!Become, Programme!Return, Programme!Idle, ProgrammeTypes
  <1>1. (UNCHANGED loginReq /\ UNCHANGED programmeReq)
          => Login!At(i, "idle")' \/ Programme!At(i, "idle")'
    BY DEF SlotsInv
  <1>2. ASSUME NEW r \in Requests, BeginLogin(r)
        PROVE  Login!At(i, "idle")' \/ Programme!At(i, "idle")'
    BY <1>2 DEF BeginLogin, Arrives, Free, Login!LoginBegin, Login!LogoutBegin, SlotsInv, programmeVars
  <1>3. ASSUME NEW r \in Requests, BeginProgramme(r)
        PROVE  Login!At(i, "idle")' \/ Programme!At(i, "idle")'
    BY <1>3 DEF BeginProgramme, Arrives, Free, Programme!Apply, Programme!ApproveRead,
                Programme!RejectRead, Programme!Decide, SlotsInv, loginVars
  <1>4. ASSUME NEW r \in Requests, LoginStep(r)
        PROVE  Login!At(i, "idle")' \/ Programme!At(i, "idle")'
    BY <1>4 DEF LoginStep, Login!Step, Login!RecordFailure, Login!LoginDone, Login!Revoke, SlotsInv,
                programmeVars
  <1>5. ASSUME NEW r \in Requests, ProgrammeStep(r)
        PROVE  Login!At(i, "idle")' \/ Programme!At(i, "idle")'
    BY <1>5 DEF ProgrammeStep, Programme!Step, Programme!AssertCanApply, Programme!CreateApplication,
                Programme!Approve, Programme!Reject, SlotsInv, loginVars
  <1>6. ASSUME NEW r \in Requests, Stop(r)
        PROVE  Login!At(i, "idle")' \/ Programme!At(i, "idle")'
    BY <1>6 DEF Stop, Login!Stop, Programme!Stop, SlotsInv, loginVars, programmeVars
  <1>7. ASSUME \/ \E r \in Requests :
                    \/ BeginContent(r) \/ BeginStore(r) \/ ContentStep(r) \/ AskStore(r)
                    \/ ShopStep(r) \/ StoreAnswers(r) \/ StoreFails(r) \/ SectionFails(r)
               \/ ShopLoad \/ Drift \/ TokenLost \/ StoreTrouble \/ UNCHANGED vars
        PROVE  UNCHANGED loginReq /\ UNCHANGED programmeReq
    BY <1>7 DEF BeginContent, BeginStore, ContentStep, AskStore, ShopStep, StoreAnswers, StoreFails,
                SectionFails, ShopLoad, Drift, TokenLost, StoreTrouble, vars, loginVars, programmeVars
  <1>8. ASSUME Creator \/ Tick \/ WindowEnds \/ RedisLost
        PROVE  UNCHANGED loginReq /\ UNCHANGED programmeReq
    BY <1>8 DEF Creator, Programme!Suspend, Programme!Unsuspend, Tick, Login!Tick, WindowEnds,
                Login!WindowEnds, RedisLost, Login!RedisLost, loginVars, programmeVars
  <1>9. QED
    BY <1>1, <1>2, <1>3, <1>4, <1>5, <1>6, <1>7, <1>8 DEF Next

BudgetInv == budget \in [{"login", "programme", "content", "store", "event"} -> Nat]

\* What is spent was there.
LEMMA BudgetKept ==
  ASSUME BudgetInv, [Next]_vars
  PROVE  BudgetInv'
  <1>1. ASSUME NEW kind \in {"login", "programme", "content", "store", "event"}, Spend(kind)
        PROVE  BudgetInv'
    BY <1>1 DEF Spend, BudgetInv
  <1>2. budget' = budget => BudgetInv'
    BY DEF BudgetInv
  <1>3. ASSUME NEW r \in Requests, BeginLogin(r) \/ BeginProgramme(r) \/ BeginContent(r) \/ BeginStore(r)
        PROVE  BudgetInv'
    BY <1>1, <1>3 DEF BeginLogin, BeginProgramme, BeginContent, BeginStore, Arrives
  <1>4. ASSUME \/ \E r \in Requests : Stop(r) \/ SectionFails(r)
               \/ StoreTrouble \/ Drift \/ TokenLost \/ RedisLost
        PROVE  BudgetInv'
    BY <1>1, <1>4 DEF Stop, SectionFails, StoreTrouble, Drift, TokenLost, RedisLost
  <1>5. ASSUME \/ \E r \in Requests :
                    \/ LoginStep(r) \/ ProgrammeStep(r) \/ ContentStep(r) \/ AskStore(r)
                    \/ ShopStep(r) \/ StoreAnswers(r) \/ StoreFails(r)
               \/ ShopLoad \/ Creator \/ Tick \/ WindowEnds \/ UNCHANGED vars
        PROVE  budget' = budget
    BY <1>5 DEF LoginStep, ProgrammeStep, ContentStep, AskStore, ShopStep, StoreAnswers, StoreFails,
                ShopLoad, Creator, Tick, WindowEnds, vars
  <1>6. QED
    BY <1>2, <1>3, <1>4, <1>5 DEF Next

ServerInv ==
  /\ LogoutInv /\ GuessInv
  /\ ProgrammeInv /\ ProgrammeRest
  /\ ContentInv
  /\ ShopInv /\ WaitersInv
  /\ SlotsInv /\ BudgetInv

\* Every variable of the server stays within its type, and every request is one handler's at a
\* time, for any numbers of requests, processes, tokens, keys and applications.
THEOREM TypeCorrect == Spec => []TypeOK
  <1>1. Init => ServerInv
    <2> SUFFICES ASSUME Init PROVE ServerInv
      OBVIOUS
    <2>1. LogoutInv
      BY ServerAssumption DEF Init, Login!Init, LogoutInv, LoginTypes, KeysOutlive,
                              Login!At, Login!Idle, Login!Steps
    <2>2. GuessInv
      <3>1. failures = 0 /\ guesses = 0
        BY DEF Init, Login!Init
      <3>2. QED
        BY <2>1, <3>1, ComparingFinite, ServerAssumption DEF GuessInv, LogoutInv
    <2>3. ProgrammeInv /\ ProgrammeRest
      BY ServerAssumption DEF Init, Programme!Init, ProgrammeInv, ProgrammeTypes, DecisionsStand,
           CreatorsAreApproved, Programme!CreatorsAreApproved, Programme!Idle, Programme!Steps,
           Programme!Statuses, ProgrammeRest
    <2>4. ContentInv
      BY ContentStarts
    <2>5. ShopInv /\ WaitersInv
      BY ShopIdle, NoneIsNoToken
         DEF Init, Shop!Init, ShopInv, ShopTypes, AllValid, Replaced, Shop!NoLoad, Shop!LoadSteps,
             Shop!TokensOrNone, WaitersInv
    <2>6. SlotsInv
      BY ShopIdle, ContentIdle DEF Init, Content!Init, Shop!Init, Login!Init, SlotsInv, Content!At,
         Shop!At, Login!At, Login!Idle
    <2>7. BudgetInv
      BY ServerAssumption DEF Init, BudgetInv
    <2>8. QED
      BY <2>1, <2>2, <2>3, <2>4, <2>5, <2>6, <2>7 DEF ServerInv
  <1>2. ServerInv /\ [Next]_vars => ServerInv'
    <2> SUFFICES ASSUME ServerInv, [Next]_vars PROVE ServerInv'
      OBVIOUS
    <2>1. LogoutInv' /\ GuessInv'
      BY ProjectLogin, LogoutStep, GuessStep DEF ServerInv
    <2>2. ProgrammeInv' /\ ProgrammeRest'
      BY ProjectProgramme, ProgrammeStepKeeps, ProgrammeRestKept DEF ServerInv
    <2>3. ContentInv'
      BY ProjectContent, ContentStepKeeps DEF ServerInv
    <2>4. ShopInv' /\ WaitersInv'
      BY ProjectShop, ShopStepKeeps, WaitersKept DEF ServerInv
    <2>5. SlotsInv'
      <3>1. ASSUME NEW i \in Requests
            PROVE  /\ Content!At(i, "idle")' \/ Shop!At(i, "idle")' \/ FromStore(i)'
                   /\ Login!At(i, "idle")' \/ Programme!At(i, "idle")'
        BY OneHandler, OnePart DEF ServerInv, LogoutInv, ProgrammeInv
      <3>2. QED
        BY <3>1 DEF SlotsInv
    <2>6. BudgetInv'
      BY BudgetKept DEF ServerInv
    <2>7. QED
      BY <2>1, <2>2, <2>3, <2>4, <2>5, <2>6 DEF ServerInv
  <1>3. ServerInv => TypeOK
    <2> SUFFICES ASSUME ServerInv PROVE TypeOK
      OBVIOUS
    <2>1. Login!TypeOK
      BY DEF ServerInv, LogoutInv, GuessInv, LoginTypes, Login!TypeOK
    <2>2. Programme!TypeOK
      <3>1. Cardinality({a \in Applications : status[a] = "PENDING"}) <= 1
        BY AtMostOne DEF ServerInv, ProgrammeRest
      <3>2. QED
        BY <3>1 DEF ServerInv, ProgrammeInv, ProgrammeTypes, ProgrammeRest, Programme!TypeOK,
                    Programme!Cardinality, Cardinality
    <2>3. Content!TypeOK
      <3>1. /\ left \in [Content!Keys -> 0 .. TTL] /\ age \in [Content!Keys -> [Content!Sources -> Nat]]
            /\ \A k \in Content!Keys \ Content!Present : age[k] = Content!Nothing /\ k \notin late
            /\ late \subseteq Content!Keys
            /\ editor \in [Content!Sources -> Requests \cup {"nobody", "published"}]
        BY Bounds DEF ServerInv, ContentInv, EntriesInv, EditsInv, Showings, Content!Present
      <3>2. ASSUME NEW r \in Requests
            PROVE  /\ contentReq[r].pc \in Content!Steps
                   /\ contentReq[r].key \in Content!Sources \cup Content!Keys \cup {None}
                   /\ contentReq[r].part \in Content!Keys \cup {None}
                   /\ contentReq[r].todo \subseteq Content!Keys
                   /\ contentReq[r].spent \in 0 .. FillTime
                   /\ contentReq[r].rest \subseteq Content!Patterns
        <4>1. contentReq[r] \in ContentReqs
          BY DEF ServerInv, ContentInv, ReadersInv
        <4>2. QED
          BY <4>1 DEF ContentReqs
      <3>3. QED
        BY <3>1, <3>2 DEF Content!TypeOK
    <2>4. Shop!TypeOK
      <3>1. ASSUME NEW p \in Processes, Shop!Waiting(p) # {} PROVE load[p].step # "none"
        BY <3>1 DEF ServerInv, WaitersInv, Shop!Waiting, Shop!At
      <3>2. QED
        BY <3>1 DEF ServerInv, ShopInv, ShopTypes, ShopReqs, Shop!TypeOK
    <2>5. QED
      BY <2>1, <2>2, <2>3, <2>4 DEF ServerInv, SlotsInv, BudgetInv, TypeOK
  <1>4. QED
    BY <1>1, <1>2, <1>3, PTL DEF Spec
=============================================================================
