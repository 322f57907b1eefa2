------------------------------ MODULE Campaign ------------------------------
(***************************************************************************)
(* One push campaign: NotificationsService (notifications/notifications.   *)
(* service.ts), which claims it, reads its audience and pushes in batches, *)
(* AdminNotificationsService (admin/notifications), which edits, cancels,  *)
(* sends and deletes it, and the cron that hits dispatch-due.              *)
(*                                                                         *)
(* The row is shared, and only send() changes it on a condition: the       *)
(* administrator's edits read the status, check it, and write by id in a   *)
(* later step.  The sender of pushes is external: it may fail, and it may  *)
(* call a token invalid.                                                   *)
(***************************************************************************)
EXTENDS Naturals, FiniteSets

CONSTANTS
  Customers,
  Devices,       \* push tokens
  Admins,        \* concurrent requests of administrators
  Cron,          \* the slot the external cron calls dispatch-due in
  All,           \* audience ALL; a customer stands for audience CUSTOMER
  Audiences,     \* the audiences administrators choose from
  BatchSize,     \* PUSH_BATCH_SIZE
  MaxStops,      \* bound: how often the server stops
  None

Callers == Admins \cup {Cron}

ASSUME CampaignAssumption ==
  /\ BatchSize \in Nat \ {0} /\ MaxStops \in Nat
  /\ Cron \notin Admins
  /\ None \notin Customers \cup {All} /\ All \notin Customers
  /\ Audiences \subseteq Customers \cup {All} /\ Audiences # {}
  /\ IsFiniteSet(Devices)

VARIABLES
  status,        \* Notification.status; "none" before the row and "deleted" after it
  due,           \* status is SCHEDULED and scheduledAt lies in the past
  audience,      \* All, or the one customer it is for
  holder,        \* holder[d]: DeviceToken.customerId, None while d has no row
  active,        \* customers whose status is ACTIVE
  pc,            \* what each caller does next
  job,           \* job[r]: audience of the row deliver() was given, or of an edit
  todo,          \* todo[r]: targets deliver() has yet to push to
  bad,           \* bad[r]: tokens the sender called invalid
  \* History variables: they are read by properties only.
  pushes,        \* pushes[d]: pushes of this campaign to device d, saturating at 2
  reopened,      \* an edit wrote over a campaign whose send had begun
  stopped,       \* cancelled while no other caller was working on it
  moved,         \* devices whose holder, or holder's status, changed since a
                 \* send read its targets
  stops          \* how often the server has stopped

campaign == <<status, due, audience>>
deviceVars == <<holder, active>>
callVars == <<pc, job, todo, bad>>
history == <<pushes, reopened, stopped, moved, stops>>
vars == <<campaign, deviceVars, callVars, history>>

Statuses == {"none", "deleted", "DRAFT", "SCHEDULED", "SENDING", "SENT", "FAILED", "CANCELLED"}
Sending == {"load", "target", "push", "prune", "finish", "fail"}
Steps == {"idle", "claim", "update", "reschedule", "cancel", "remove"} \cup Sending

Claimable == {"DRAFT", "SCHEDULED"}      \* also EDITABLE
Exists == status \notin {"none", "deleted"}
Senders == {r \in Callers : pc[r] \in Sending}
Reach(a) ==
  {d \in Devices : holder[d] \in active /\ (a = All \/ holder[d] = a)}

Goto(r, step, a, t, b) ==
  /\ pc' = [pc EXCEPT ![r] = step]
  /\ job' = [job EXCEPT ![r] = a]
  /\ todo' = [todo EXCEPT ![r] = t]
  /\ bad' = [bad EXCEPT ![r] = b]

Return(r) == Goto(r, "idle", None, {}, {})

Becomes(s) == status' = s /\ due' = FALSE

-----------------------------------------------------------------------------
(* Faulty variants of the definitions below, each a bug this code could have had. *)

ClaimFrom_Unchecked == Statuses \ {"none", "deleted"}     \* updateMany without the status
Targets_Everybody(a) == {d \in Devices : holder[d] # None}
Failed_Left == status                            \* deliver() outside the try
Left_All(r, batch) == todo[r]                    \* the loop does not advance
DueRows_Draft == status = "DRAFT" /\ due         \* the wrong status in dispatchDue
SentStatus_Done == "DONE"

-----------------------------------------------------------------------------
Init ==
  /\ status = "none" /\ due = FALSE /\ audience \in Audiences
  /\ holder \in [Devices -> Customers \cup {None}]
  /\ active = Customers
  /\ pc = [r \in Callers |-> "idle"]
  /\ job = [r \in Callers |-> None]
  /\ todo = [r \in Callers |-> {}]
  /\ bad = [r \in Callers |-> {}]
  /\ pushes = [d \in Devices |-> 0]
  /\ reopened = FALSE /\ stopped = FALSE /\ moved = {} /\ stops = 0

-----------------------------------------------------------------------------
(* Administrator *)

\* create: a schedule must lie in the future.
Create(a) ==
  /\ status = "none"
  /\ status' \in Claimable
  /\ audience' = a
  /\ UNCHANGED <<due, deviceVars, callVars, history>>

EditableNow == status \in Claimable

\* update, with or without a new schedule and a new audience; what the request
\* does not give is not written.
UpdateRead(r, a, step) ==
  /\ pc[r] = "idle" /\ EditableNow
  /\ step \in {"update", "reschedule"}
  /\ Goto(r, step, a, {}, {})
  /\ UNCHANGED <<campaign, deviceVars, history>>

Retargeted(r) == IF job[r] = None THEN audience ELSE job[r]
Reopens == status \notin Claimable

UpdateWrite(r) ==
  /\ pc[r] = "update" /\ Exists
  /\ audience' = Retargeted(r)
  /\ Return(r)
  /\ UNCHANGED <<status, due, deviceVars, history>>

\* update does not ask whether the new schedule lies in the future.
RescheduleWrite(r) ==
  /\ pc[r] = "reschedule" /\ Exists
  /\ status' = "SCHEDULED"
  /\ due' \in BOOLEAN
  /\ audience' = Retargeted(r)
  /\ reopened' = (reopened \/ Reopens)
  /\ stopped' = FALSE
  /\ Return(r)
  /\ UNCHANGED <<deviceVars, pushes, moved, stops>>

CancelRead(r) ==
  /\ pc[r] = "idle" /\ EditableNow
  /\ Goto(r, "cancel", None, {}, {})
  /\ UNCHANGED <<campaign, deviceVars, history>>

CancelWrite(r) ==
  /\ pc[r] = "cancel" /\ Exists
  /\ Becomes("CANCELLED")
  /\ stopped' = (\A q \in Callers \ {r} : pc[q] \in {"idle", "claim"})
  /\ Return(r)
  /\ UNCHANGED <<audience, deviceVars, pushes, reopened, moved, stops>>

\* Anything but a SENT campaign may be deleted, a SENDING one included.
RemoveRead(r) ==
  /\ pc[r] = "idle" /\ Exists /\ status # "SENT"
  /\ Goto(r, "remove", None, {}, {})
  /\ UNCHANGED <<campaign, deviceVars, history>>

RemoveWrite(r) ==
  /\ pc[r] = "remove" /\ Exists
  /\ Becomes("deleted")
  /\ Return(r)
  /\ UNCHANGED <<audience, deviceVars, history>>

\* send: the row is read for the audit entry, whatever its status.
SendRead(r) ==
  /\ pc[r] = "idle" /\ Exists
  /\ Goto(r, "claim", None, {}, {})
  /\ UNCHANGED <<campaign, deviceVars, history>>

DueRows == status = "SCHEDULED" /\ due

\* dispatchDue: list what is due, then send() each.
DispatchList(r) ==
  /\ pc[r] = "idle" /\ DueRows
  /\ Goto(r, "claim", None, {}, {})
  /\ UNCHANGED <<campaign, deviceVars, history>>

-----------------------------------------------------------------------------
(* send *)

ClaimFrom == Claimable

Claim(r) ==
  /\ pc[r] = "claim"
  /\ IF status \in ClaimFrom
     THEN Becomes("SENDING") /\ Goto(r, "load", None, {}, {})
     ELSE Return(r) /\ UNCHANGED <<status, due>>
  /\ UNCHANGED <<audience, deviceVars, history>>

\* findUniqueOrThrow stands before the try: without a row nothing is written.
Load(r) ==
  /\ pc[r] = "load"
  /\ IF ~Exists THEN Return(r) ELSE Goto(r, "target", audience, {}, {})
  /\ UNCHANGED <<campaign, deviceVars, history>>

Targets(a) == Reach(a)

ReadTargets(r) ==
  /\ pc[r] = "target"
  /\ LET t == Targets(job[r]) IN
     Goto(r, IF t = {} THEN "finish" ELSE "push", job[r], t, {})
  /\ moved' = IF Senders = {r} THEN {} ELSE moved
  /\ UNCHANGED <<campaign, deviceVars, pushes, reopened, stopped, stops>>

Left(r, batch) == todo[r] \ batch

\* A full batch, or what is left of the targets.
Batches(r) ==
  {b \in SUBSET todo[r] :
     Cardinality(b) = BatchSize \/ (b = todo[r] /\ Cardinality(b) < BatchSize)}

\* The tokens in dead are called invalid; any other failure changes nothing here.
Push(r, batch, dead) ==
  LET left == Left(r, batch)
      invalid == bad[r] \cup dead
  IN
  /\ pushes' = [d \in Devices |->
       IF d \in batch /\ pushes[d] < 2 THEN pushes[d] + 1 ELSE pushes[d]]
  /\ Goto(r, IF left # {} THEN "push" ELSE IF invalid # {} THEN "prune" ELSE "finish",
          job[r], left, invalid)
  /\ UNCHANGED <<campaign, deviceVars, reopened, stopped, moved, stops>>

\* deleteMany by token, whoever has registered it since.
Prune(r) ==
  /\ pc[r] = "prune"
  /\ holder' = [d \in Devices |-> IF d \in bad[r] THEN None ELSE holder[d]]
  /\ Goto(r, "finish", job[r], {}, {})
  /\ moved' = moved \cup bad[r]
  /\ UNCHANGED <<campaign, active, pushes, reopened, stopped, stops>>

SentStatus == "SENT"

\* The updates are by id, whatever the status has become; with no row they throw.
Finish(r) ==
  /\ pc[r] = "finish"
  /\ IF ~Exists THEN Goto(r, "fail", job[r], {}, {}) /\ UNCHANGED <<status, due>>
     ELSE Becomes(SentStatus) /\ Return(r)
  /\ UNCHANGED <<audience, deviceVars, history>>

\* Any step of deliver() may throw.
Throws(r) ==
  /\ pc[r] \in {"target", "push", "prune", "finish"}
  /\ Goto(r, "fail", job[r], {}, {})
  /\ UNCHANGED <<campaign, deviceVars, history>>

Failed == "FAILED"

Fail(r) ==
  /\ pc[r] = "fail"
  /\ IF Exists THEN Becomes(Failed) ELSE UNCHANGED <<status, due>>
  /\ Return(r)
  /\ UNCHANGED <<audience, deviceVars, history>>

-----------------------------------------------------------------------------
(* Devices and customers, time, and failures *)

Note(S) == moved' = IF Senders = {} THEN {} ELSE moved \cup S

\* registerDevice: an upsert by token, which changes the holder.
RegisterDevice(d, c) ==
  /\ holder[d] # c
  /\ holder' = [holder EXCEPT ![d] = c]
  /\ Note({d})
  /\ UNCHANGED <<campaign, active, callVars, pushes, reopened, stopped, stops>>

UnregisterDevice(d) ==
  /\ holder[d] # None
  /\ holder' = [holder EXCEPT ![d] = None]
  /\ Note({d})
  /\ UNCHANGED <<campaign, active, callVars, pushes, reopened, stopped, stops>>

\* Blocked, unblocked or merged: module Identity.
StatusChanges(c) ==
  /\ active' = (active \ {c}) \cup ({c} \ active)
  /\ Note({d \in Devices : holder[d] = c})
  /\ UNCHANGED <<campaign, holder, callVars, pushes, reopened, stopped, stops>>

TimePasses ==
  /\ status = "SCHEDULED" /\ ~due
  /\ due' = TRUE
  /\ UNCHANGED <<status, audience, deviceVars, callVars, history>>

\* The server stops, or the database fails a request: nothing is cleaned up.
Stop(r) ==
  /\ pc[r] # "idle" /\ stops < MaxStops
  /\ stops' = stops + 1
  /\ Return(r)
  /\ UNCHANGED <<campaign, deviceVars, pushes, reopened, stopped, moved>>

SendStep(r) ==
  \/ Claim(r)
  \/ Load(r)
  \/ ReadTargets(r)
  \/ /\ pc[r] = "push"
     /\ \E batch \in Batches(r) : \E dead \in SUBSET batch : Push(r, batch, dead)
  \/ Prune(r)
  \/ Finish(r)
  \/ Fail(r)

AdminStep(r) ==
  \/ \E a \in Audiences \cup {None}, step \in {"update", "reschedule"} : UpdateRead(r, a, step)
  \/ UpdateWrite(r)
  \/ RescheduleWrite(r)
  \/ CancelRead(r)
  \/ CancelWrite(r)
  \/ RemoveRead(r)
  \/ RemoveWrite(r)
  \/ SendRead(r)

DeviceStep ==
  \/ \E d \in Devices, c \in Customers : RegisterDevice(d, c)
  \/ \E d \in Devices : UnregisterDevice(d)
  \/ \E c \in Customers : StatusChanges(c)

Next ==
  \/ \E a \in Audiences : Create(a)
  \/ \E r \in Admins : AdminStep(r)
  \/ DispatchList(Cron)
  \/ \E r \in Callers : SendStep(r) \/ Throws(r) \/ Stop(r)
  \/ DeviceStep
  \/ TimePasses

\* The cron keeps calling, a request that was accepted goes on, and time passes.
Fairness ==
  /\ WF_vars(DispatchList(Cron))
  /\ \A r \in Callers : WF_vars(SendStep(r))
  /\ WF_vars(TimePasses)

Spec == Init /\ [][Next]_vars /\ Fairness

-----------------------------------------------------------------------------
(* Properties *)

\* The variables stay within their types.
TypeOK ==
  /\ status \in Statuses
  /\ due \in BOOLEAN
  /\ audience \in Audiences
  /\ holder \in [Devices -> Customers \cup {None}]
  /\ active \subseteq Customers
  /\ pc \in [Callers -> Steps]
  /\ job \in [Callers -> Audiences \cup {None}]
  /\ todo \in [Callers -> SUBSET Devices]
  /\ bad \in [Callers -> SUBSET Devices]
  /\ pushes \in [Devices -> 0..2]
  /\ reopened \in BOOLEAN /\ stopped \in BOOLEAN
  /\ moved \subseteq Devices
  /\ stops \in 0..MaxStops

\* The claim of send() admits one sender for each time the campaign is opened,
\* however many administrators and cron calls send it at once, so that no device
\* is pushed to twice, unless a reschedule wrote over a send that had begun.
NotTwice ==
  ~reopened =>
    /\ Cardinality(Senders) <= 1
    /\ \A d \in Devices : pushes[d] <= 1

\* A campaign is SENDING only while somebody is sending it, as the comment in
\* send() wants, unless the server stopped: then it stays SENDING for ever.
NoOrphanedSending == (status = "SENDING" /\ stops = 0) => Senders # {}

\* A campaign cancelled while nobody was sending or editing it is never pushed
\* to another device, though sends that were asked for before are still pending.
CancelHolds == [][stopped => pushes' = pushes]_vars

\* A device is pushed to only on behalf of an ACTIVE customer of the audience,
\* unless its holder or his status changed after the targets were read.
OnlyItsAudience ==
  [][\A d \in Devices : pushes'[d] > pushes[d] =>
       \/ d \in moved
       \/ \E r \in Senders : d \in Reach(job[r]) /\ d \in todo[r] \ todo'[r]]_vars

\* Every campaign that falls due is taken up, deleted, cancelled or rescheduled.
DueIsSent == due ~> ~due

\* A campaign does not stay SENDING, unless the server stopped.
SendingEnds == (status = "SENDING" /\ stops = 0) ~> (status # "SENDING" \/ stops > 0)

\* What the comment of send() says: a customer never gets the same notification
\* twice.  The code does not reach it: update() may write SCHEDULED over SENT.
NeverTwice == \A d \in Devices : pushes[d] <= 1
=============================================================================
