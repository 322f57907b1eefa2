----------------------------- MODULE Influencers -----------------------------
(***************************************************************************)
(* The creator programme for one customer: InfluencerService (influencer/  *)
(* influencer.service.ts), where the customer applies, and the service of  *)
(* the panel (admin/influencer/admin-influencer.service.ts), where several *)
(* administrators decide.  Every handler reads first, judges, and writes   *)
(* by id; two unique indexes and a partial one stand behind it.            *)
(***************************************************************************)
EXTENDS Naturals, FiniteSets

CONSTANTS
  Applications,  \* ids of InfluencerApplication rows
  Requests,
  None

VARIABLES
  status,        \* status[a]: InfluencerApplication.status, None while a has no row
  last,          \* the application that was made last
  creator,       \* Influencer.applicationId, None while the customer is no creator
  suspended,     \* Influencer.status is SUSPENDED
  req,           \* what each request does next, and for which application
  \* History variable: it is read by properties only.
  contested      \* applications on which two decisions were under way at once

vars == <<status, last, creator, suspended, req, contested>>

Statuses == {"PENDING", "APPROVED", "REJECTED"}
Idle == [pc |-> "idle", app |-> None]
Steps == {"idle", "judge", "create", "approve", "reject"}

At(r, step) == req[r].pc = step
Become(r, q) == req' = [req EXCEPT ![r] = q]
Return(r) == Become(r, Idle)

-----------------------------------------------------------------------------
(* Faulty variants of the definitions below, each a bug this code could have had. *)

MustBePending_Exists(a) == status[a] # None       \* the status is not looked at

-----------------------------------------------------------------------------
Init ==
  /\ status = [a \in Applications |-> None]
  /\ last = None /\ creator = None /\ suspended = FALSE
  /\ req = [r \in Requests |-> Idle]
  /\ contested = {}

\* apply: not for a creator, ...
Apply(r) ==
  /\ At(r, "idle")
  /\ creator = None
  /\ Become(r, [pc |-> "judge", app |-> None])
  /\ UNCHANGED <<status, last, creator, suspended, contested>>

\* ... and not while the last application is pending, nor within 30 days of its rejection.
AssertCanApply(r) ==
  /\ At(r, "judge")
  /\ \/ /\ last # None => status[last] # "PENDING"
        /\ Become(r, [pc |-> "create", app |-> None])
     \/ /\ last # None /\ status[last] \in {"PENDING", "REJECTED"}
        /\ Return(r)
  /\ UNCHANGED <<status, last, creator, suspended, contested>>

\* The partial index refuses a second pending one, which is answered 409.
CreateApplication(r, a) ==
  /\ At(r, "create")
  /\ status[a] = None
  /\ IF \E b \in Applications : status[b] = "PENDING" THEN UNCHANGED <<status, last>>
     ELSE status' = [status EXCEPT ![a] = "PENDING"] /\ last' = a
  /\ Return(r)
  /\ UNCHANGED <<creator, suspended, contested>>

MustBePending(a) == status[a] = "PENDING"

Decide(r, a, decision) ==
  /\ At(r, "idle")
  /\ MustBePending(a)
  /\ Become(r, [pc |-> decision, app |-> a])
  /\ contested' = IF \E q \in Requests : req[q].app = a THEN contested \cup {a} ELSE contested
  /\ UNCHANGED <<status, last, creator, suspended>>

\* approve also refuses a customer who is a creator; its two reads are one step.
ApproveRead(r, a) == creator = None /\ Decide(r, a, "approve")
RejectRead(r, a) == Decide(r, a, "reject")

\* One transaction; a creator there is by now makes the unique index roll it back.
Approve(r) ==
  LET a == req[r].app IN
  /\ At(r, "approve")
  /\ IF creator # None THEN UNCHANGED <<status, creator, suspended>>
     ELSE status' = [status EXCEPT ![a] = "APPROVED"] /\ creator' = a /\ suspended' = FALSE
  /\ Return(r)
  /\ UNCHANGED <<last, contested>>

Reject(r) ==
  /\ At(r, "reject")
  /\ status' = [status EXCEPT ![req[r].app] = "REJECTED"]
  /\ Return(r)
  /\ UNCHANGED <<last, creator, suspended, contested>>

\* The check and the update by id: done twice, the second changes nothing.
Suspend ==
  /\ creator # None /\ ~suspended
  /\ suspended' = TRUE
  /\ UNCHANGED <<status, last, creator, req, contested>>

Unsuspend ==
  /\ creator # None /\ suspended
  /\ suspended' = FALSE
  /\ UNCHANGED <<status, last, creator, req, contested>>

\* The server stops, or the database fails.
Stop(r) ==
  /\ ~At(r, "idle")
  /\ Return(r)
  /\ UNCHANGED <<status, last, creator, suspended, contested>>

Step(r) ==
  \/ AssertCanApply(r)
  \/ \E a \in Applications : CreateApplication(r, a)
  \/ Approve(r)
  \/ Reject(r)

-----------------------------------------------------------------------------
(* Properties *)

\* The variables stay within their types; one application at most is pending.
TypeOK ==
  /\ status \in [Applications -> Statuses \cup {None}]
  /\ {last, creator} \subseteq Applications \cup {None}
  /\ suspended \in BOOLEAN /\ contested \subseteq Applications
  /\ req \in [Requests -> [pc : Steps, app : Applications \cup {None}]]
  /\ Cardinality({a \in Applications : status[a] = "PENDING"}) <= 1

\* An application says APPROVED exactly if it made the customer a creator ("otherwise
\* it looks approved and there is no creator record"), and a decision that was taken
\* is not overwritten, unless two were under way on it at once.
CreatorsAreApproved ==
  \A a \in Applications \ contested : status[a] = "APPROVED" <=> creator = a

=============================================================================
