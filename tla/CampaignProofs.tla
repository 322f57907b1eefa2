--------------------------- MODULE CampaignProofs ---------------------------
(***************************************************************************)
(* Proofs about module Campaign, for any customers, devices, callers and   *)
(* size of a batch: the types, that the claim of send() admits one sender  *)
(* and no device is pushed to twice, that a push goes to the audience of   *)
(* the campaign, that what was cancelled in peace is not pushed any more,  *)
(* and that a campaign is SENDING only while somebody sends it.            *)
(***************************************************************************)
EXTENDS Campaign, FiniteSetTheorems, TLAPS

(***************************************************************************)
(* Types                                                                   *)
(***************************************************************************)

CallTypes ==
  /\ pc \in [Callers -> Steps]
  /\ job \in [Callers -> Audiences \cup {None}]
  /\ todo \in [Callers -> SUBSET Devices]
  /\ bad \in [Callers -> SUBSET Devices]

OtherTypes ==
  /\ status \in Statuses
  /\ due \in BOOLEAN
  /\ audience \in Audiences
  /\ holder \in [Devices -> Customers \cup {None}]
  /\ active \subseteq Customers
  /\ pushes \in [Devices -> 0..2]
  /\ reopened \in BOOLEAN /\ stopped \in BOOLEAN
  /\ moved \subseteq Devices
  /\ stops \in 0..MaxStops

\* Going on with an audience and with devices there are keeps a caller's types.
LEMMA GotoTyped ==
  ASSUME CallTypes, NEW r \in Callers,
         \E step \in Steps, a \in Audiences \cup {None}, t, b \in SUBSET Devices :
           Goto(r, step, a, t, b)
  PROVE  CallTypes'
  <1>1. PICK step \in Steps, a \in Audiences \cup {None}, t \in SUBSET Devices,
             b \in SUBSET Devices : Goto(r, step, a, t, b)
    OBVIOUS
  <1>2. pc' \in [Callers -> Steps] /\ job' \in [Callers -> Audiences \cup {None}]
    BY <1>1 DEF CallTypes, Goto
  <1>3. todo' \in [Callers -> SUBSET Devices] /\ bad' \in [Callers -> SUBSET Devices]
    BY <1>1 DEF CallTypes, Goto
  <1>4. QED
    BY <1>2, <1>3 DEF CallTypes

\* A step of an administrator keeps the types.
LEMMA AdminTyped ==
  ASSUME TypeOK, NEW r \in Admins, AdminStep(r)
  PROVE  TypeOK'
  <1>0. r \in Callers /\ CallTypes /\ OtherTypes
    BY DEF Callers, TypeOK, CallTypes, OtherTypes
  <1>1. CallTypes'
    <2>1. {"idle", "claim", "update", "reschedule", "cancel", "remove"} \subseteq Steps
      BY DEF Steps
    <2>2. PICK step \in Steps, a \in Audiences \cup {None} : Goto(r, step, a, {}, {})
      BY <2>1 DEF AdminStep, UpdateRead, UpdateWrite, RescheduleWrite, CancelRead, CancelWrite,
                  RemoveRead, RemoveWrite, SendRead, Return
    <2>3. QED
      BY <1>0, <2>2, GotoTyped
  <1>2. audience' \in Audiences
    BY <1>0 DEF AdminStep, UpdateRead, UpdateWrite, RescheduleWrite, CancelRead, CancelWrite,
           RemoveRead, RemoveWrite, SendRead, Retargeted, CallTypes, OtherTypes, campaign
  <1>3. status' \in Statuses /\ due' \in BOOLEAN
    BY <1>0 DEF AdminStep, UpdateRead, UpdateWrite, RescheduleWrite, CancelRead, CancelWrite,
           RemoveRead, RemoveWrite, SendRead, Becomes, Statuses, OtherTypes, campaign
  <1>4. reopened' \in BOOLEAN /\ stopped' \in BOOLEAN
    BY <1>0 DEF AdminStep, UpdateRead, UpdateWrite, RescheduleWrite, CancelRead, CancelWrite,
           RemoveRead, RemoveWrite, SendRead, OtherTypes, history
  <1>5. UNCHANGED <<holder, active, pushes, moved, stops>>
    BY DEF AdminStep, UpdateRead, UpdateWrite, RescheduleWrite, CancelRead, CancelWrite,
           RemoveRead, RemoveWrite, SendRead, history, deviceVars
  <1>6. QED
    BY <1>0, <1>1, <1>2, <1>3, <1>4, <1>5 DEF TypeOK, CallTypes, OtherTypes

\* A step of send() or of the loop in deliver() keeps the types.
LEMMA SendTyped ==
  ASSUME TypeOK, NEW r \in Callers, SendStep(r) \/ Throws(r) \/ Stop(r)
  PROVE  TypeOK'
  <1>0. CallTypes /\ OtherTypes
    BY DEF TypeOK, CallTypes, OtherTypes
  <1>1. CASE Claim(r)
    <2>1. CallTypes'
      BY <1>1, <1>0, GotoTyped DEF Claim, Return, CallTypes, Steps, Sending
    <2>2. OtherTypes'
      BY <1>0, <1>1 DEF Claim, OtherTypes, Becomes, Statuses, deviceVars, history
    <2>3. QED
      BY <2>1, <2>2 DEF TypeOK, CallTypes, OtherTypes
  <1>2. CASE Load(r)
    <2>1. CallTypes'
      BY <1>2, <1>0, GotoTyped DEF Load, Return, CallTypes, OtherTypes, Steps, Sending
    <2>2. OtherTypes'
      BY <1>0, <1>2 DEF Load, OtherTypes, campaign, deviceVars, history
    <2>3. QED
      BY <2>1, <2>2 DEF TypeOK, CallTypes, OtherTypes
  <1>3. CASE ReadTargets(r)
    <2>1. CallTypes'
      <3>1. PICK t \in SUBSET Devices, a \in Audiences \cup {None} :
              t = Targets(job[r]) /\ a = job[r]
        BY <1>0 DEF Targets, Reach, CallTypes
      <3>2. PICK step \in Steps : Goto(r, step, a, t, {})
        BY <1>3, <3>1 DEF ReadTargets, Steps, Sending
      <3>3. QED
        BY <1>0, <3>2, GotoTyped
    <2>2. OtherTypes'
      BY <1>0, <1>3 DEF ReadTargets, OtherTypes, campaign, deviceVars
    <2>3. QED
      BY <2>1, <2>2 DEF TypeOK, CallTypes, OtherTypes
  <1>4. ASSUME NEW batch \in Batches(r), NEW dead \in SUBSET batch, Push(r, batch, dead)
        PROVE  TypeOK'
    <2>0. batch \subseteq todo[r] /\ todo[r] \subseteq Devices /\ bad[r] \subseteq Devices
      BY <1>0 DEF Batches, CallTypes
    <2>1. CallTypes'
      <3>1. PICK t \in SUBSET Devices, b \in SUBSET Devices, a \in Audiences \cup {None} :
              t = todo[r] \ batch /\ b = bad[r] \cup dead /\ a = job[r]
        BY <1>0, <2>0 DEF CallTypes
      <3>2. PICK step \in Steps : Goto(r, step, a, t, b)
        BY <1>4, <3>1 DEF Push, Left, Steps, Sending
      <3>3. QED
        BY <1>0, <3>2, GotoTyped
    <2>2. pushes' \in [Devices -> 0..2]
      BY <1>0, <1>4 DEF Push, OtherTypes
    <2>3. OtherTypes'
      BY <1>0, <1>4, <2>2 DEF Push, OtherTypes, campaign, deviceVars
    <2>4. QED
      BY <2>1, <2>3 DEF TypeOK, CallTypes, OtherTypes
  <1>5. CASE Prune(r)
    <2>1. CallTypes'
      BY <1>5, <1>0, GotoTyped DEF Prune, CallTypes, Steps, Sending
    <2>2. OtherTypes'
      BY <1>0, <1>5 DEF Prune, OtherTypes, CallTypes, campaign
    <2>3. QED
      BY <2>1, <2>2 DEF TypeOK, CallTypes, OtherTypes
  <1>6. CASE Finish(r) \/ Fail(r) \/ Throws(r)
    <2>1. CallTypes'
      BY <1>6, <1>0, GotoTyped DEF Finish, Fail, Throws, Return, CallTypes, Steps, Sending
    <2>2. status' \in Statuses /\ due' \in BOOLEAN
      BY <1>0, <1>6 DEF Finish, Fail, Throws, Becomes, SentStatus, Failed, Statuses, OtherTypes,
                        campaign
    <2>3. OtherTypes'
      BY <1>0, <1>6, <2>2 DEF Finish, Fail, Throws, OtherTypes, campaign, deviceVars, history
    <2>4. QED
      BY <2>1, <2>3 DEF TypeOK, CallTypes, OtherTypes
  <1>7. CASE Stop(r)
    <2>1. CallTypes'
      BY <1>7, <1>0, GotoTyped DEF Stop, Return, CallTypes, Steps
    <2>2. OtherTypes'
      BY <1>0, <1>7, CampaignAssumption DEF Stop, OtherTypes, campaign, deviceVars
    <2>3. QED
      BY <2>1, <2>2 DEF TypeOK, CallTypes, OtherTypes
  <1>8. QED
    BY <1>1, <1>2, <1>3, <1>4, <1>5, <1>6, <1>7 DEF SendStep

\* Every step keeps the types.
LEMMA TypedStep ==
  ASSUME TypeOK, [Next]_vars
  PROVE  TypeOK'
  <1>0. Cron \in Callers
    BY DEF Callers
  <1>1. ASSUME NEW a \in Audiences, Create(a) PROVE TypeOK'
    BY <1>1 DEF Create, TypeOK, Claimable, Statuses, deviceVars, callVars, history
  <1>2. ASSUME DispatchList(Cron) PROVE TypeOK'
    <2>1. CallTypes'
      <3>1. "claim" \in Steps /\ Goto(Cron, "claim", None, {}, {}) /\ CallTypes
        BY <1>2 DEF DispatchList, Steps, TypeOK, CallTypes
      <3>2. QED
        BY <1>0, <3>1, GotoTyped
    <2>2. QED
      BY <1>2, <2>1 DEF DispatchList, TypeOK, CallTypes, campaign, deviceVars, history
  <1>3. CASE DeviceStep
    BY <1>3 DEF DeviceStep, RegisterDevice, UnregisterDevice, StatusChanges, Note, TypeOK, campaign,
                callVars
  <1>4. CASE TimePasses
    BY <1>4 DEF TimePasses, TypeOK, deviceVars, callVars, history
  <1>5. CASE UNCHANGED vars
    BY <1>5 DEF vars, TypeOK, campaign, deviceVars, callVars, history
  <1>6. QED
    BY <1>1, <1>2, <1>3, <1>4, <1>5, AdminTyped, SendTyped DEF Next

\* The variables of a campaign keep their types, whoever sends, edits or cancels it.
THEOREM TypeCorrect == Spec => []TypeOK
  <1>1. Init => TypeOK
    <2> SUFFICES ASSUME Init PROVE TypeOK
      OBVIOUS
    <2>1. CallTypes
      BY DEF Init, CallTypes, Steps
    <2>2. OtherTypes
      <3>1. pushes \in [Devices -> 0..2] /\ stops \in 0..MaxStops
        BY CampaignAssumption DEF Init
      <3>2. status \in Statuses /\ due \in BOOLEAN /\ reopened \in BOOLEAN /\ stopped \in BOOLEAN
        BY DEF Init, Statuses
      <3>3. QED
        BY <3>1, <3>2 DEF Init, OtherTypes
    <2>3. QED
      BY <2>1, <2>2 DEF TypeOK, CallTypes, OtherTypes
  <1>2. TypeOK /\ [Next]_vars => TypeOK'
    BY TypedStep
  <1>3. QED
    BY <1>1, <1>2, PTL DEF Spec

(***************************************************************************)
(* One sender, and one push to a device                                    *)
(***************************************************************************)

\* Whatever is not a step of send() leaves those who send, and what was pushed, alone.
Aside ==
  \/ \E a \in Audiences : Create(a)
  \/ \E r \in Admins : AdminStep(r)
  \/ DispatchList(Cron)
  \/ DeviceStep
  \/ TimePasses
  \/ UNCHANGED vars

LEMMA SendersAside ==
  ASSUME TypeOK, Aside
  PROVE  /\ Senders' = Senders /\ pushes' = pushes /\ stops' = stops
         /\ \A q \in Senders : pc'[q] = pc[q] /\ job'[q] = job[q] /\ todo'[q] = todo[q]
  <1>0. CallTypes
    BY DEF TypeOK, CallTypes
  <1>1. ASSUME NEW r \in Callers, pc[r] \notin Sending, pc'[r] \notin Sending,
               \E step \in Steps, a \in Audiences \cup {None} : Goto(r, step, a, {}, {})
        PROVE  /\ Senders' = Senders
               /\ \A q \in Senders : pc'[q] = pc[q] /\ job'[q] = job[q] /\ todo'[q] = todo[q]
    <2>1. \A q \in Callers \ {r} : pc'[q] = pc[q] /\ job'[q] = job[q] /\ todo'[q] = todo[q]
      BY <1>0, <1>1 DEF Goto, CallTypes
    <2>2. QED
      BY <1>1, <2>1 DEF Senders
  <1>2. ASSUME NEW r \in Admins, AdminStep(r)
        PROVE  /\ pc[r] \notin Sending /\ pc'[r] \notin Sending
               /\ pushes' = pushes /\ stops' = stops
               /\ \E step \in Steps, a \in Audiences \cup {None} : Goto(r, step, a, {}, {})
    <2>0. r \in Callers
      BY DEF Callers
    <2>1. {"idle", "claim", "update", "reschedule", "cancel", "remove"} \subseteq Steps \ Sending
      BY DEF Steps, Sending
    <2>2. PICK step \in Steps \ Sending, a \in Audiences \cup {None} : Goto(r, step, a, {}, {})
      BY <1>2, <2>1 DEF AdminStep, UpdateRead, UpdateWrite, RescheduleWrite, CancelRead,
                        CancelWrite, RemoveRead, RemoveWrite, SendRead, Return
    <2>3. pc'[r] = step
      BY <1>0, <2>0, <2>2 DEF Goto, CallTypes
    <2>4. pc[r] \notin Sending
      BY <1>2, <2>1 DEF AdminStep, UpdateRead, UpdateWrite, RescheduleWrite, CancelRead,
                        CancelWrite, RemoveRead, RemoveWrite, SendRead
    <2>5. pushes' = pushes /\ stops' = stops
      BY <1>2 DEF AdminStep, UpdateRead, UpdateWrite, RescheduleWrite, CancelRead,
                  CancelWrite, RemoveRead, RemoveWrite, SendRead, history
    <2>6. QED
      BY <2>2, <2>3, <2>4, <2>5
  <1>3. CASE DispatchList(Cron)
    <2>1. /\ Cron \in Callers /\ "claim" \in Steps \ Sending /\ "idle" \notin Sending
      BY DEF Callers, Steps, Sending
    <2>2. pc[Cron] = "idle" /\ Goto(Cron, "claim", None, {}, {})
      BY <1>3 DEF DispatchList
    <2>3. pc'[Cron] = "claim" /\ pushes' = pushes /\ stops' = stops
      BY <1>0, <1>3, <2>1, <2>2 DEF DispatchList, Goto, CallTypes, history
    <2>4. QED
      BY <1>1, <2>1, <2>2, <2>3
  <1>4. CASE \/ \E a \in Audiences : Create(a)
             \/ DeviceStep \/ TimePasses \/ UNCHANGED vars
    <2>1. UNCHANGED <<callVars, pushes, stops>>
      BY <1>4 DEF Create, DeviceStep, RegisterDevice, UnregisterDevice, StatusChanges, TimePasses,
                  vars, history
    <2>2. QED
      BY <2>1 DEF callVars, Senders
  <1>5. QED
    BY <1>1, <1>2, <1>3, <1>4 DEF Aside, Callers

\* As long as no reschedule wrote over a send that had begun: there is one sender; a
\* campaign that may be claimed has none, and no device has been pushed to before a
\* sender begins to push, nor is pushed to again while it goes on.
OneSender == \A q, r \in Senders : q = r
NotBegun ==
  status \in Claimable \cup {"none"} => Senders = {} /\ \A d \in Devices : pushes[d] = 0
StillToPush ==
  \A r \in Senders :
    /\ pc[r] \in {"load", "target"} => \A d \in Devices : pushes[d] = 0
    /\ pc[r] = "push" => \A d \in todo[r] : pushes[d] = 0
OncePushed == \A d \in Devices : pushes[d] <= 1

OnceInv == ~reopened => OneSender /\ NotBegun /\ StillToPush /\ OncePushed

\* No step lets a second sender in, or a sender push where it has pushed.
LEMMA OnceStep ==
  ASSUME TypeOK, OnceInv, [Next]_vars
  PROVE  OnceInv'
  <1> SUFFICES ASSUME ~reopened' PROVE (OneSender /\ NotBegun /\ StillToPush /\ OncePushed)'
    BY DEF OnceInv
  <1>0. CallTypes /\ OtherTypes
    BY DEF TypeOK, CallTypes, OtherTypes
  <1>1. ~reopened
    BY DEF Next, Create, AdminStep, UpdateRead, UpdateWrite, RescheduleWrite, CancelRead,
           CancelWrite, RemoveRead, RemoveWrite, SendRead, DispatchList, SendStep, Claim, Load,
           ReadTargets, Push, Prune, Finish, Fail, Throws, Stop, DeviceStep, RegisterDevice,
           UnregisterDevice, StatusChanges, TimePasses, vars, history
  <1>2. OneSender /\ NotBegun /\ StillToPush /\ OncePushed
    BY <1>1 DEF OnceInv
  <1>3. CASE Aside
    <2>1. /\ Senders' = Senders /\ pushes' = pushes
          /\ \A q \in Senders : pc'[q] = pc[q] /\ todo'[q] = todo[q]
      BY <1>3, SendersAside
    <2>2. status' \in Claimable \cup {"none"} => status \in Claimable \cup {"none"}
      <3>1. ASSUME NEW r \in Admins, RescheduleWrite(r) PROVE status \in Claimable
        BY <1>1, <3>1 DEF RescheduleWrite, Reopens
      <3>2. QED
        BY <1>3, <3>1 DEF Aside, Create, AdminStep, UpdateRead, UpdateWrite, CancelRead,
               CancelWrite, RemoveRead, RemoveWrite, SendRead, DispatchList, DeviceStep,
               RegisterDevice, UnregisterDevice, StatusChanges, TimePasses, Becomes, Claimable,
               vars, campaign
    <2>3. QED
      BY <1>2, <2>1, <2>2 DEF OneSender, NotBegun, StillToPush, OncePushed
  <1>4. ASSUME NEW r \in Callers, Claim(r)
        PROVE  (OneSender /\ NotBegun /\ StillToPush /\ OncePushed)'
    <2>1. pushes' = pushes /\ pc[r] = "claim"
      BY <1>4 DEF Claim, history
    <2>2. CASE status \in Claimable
      <3>1. status' = "SENDING" /\ Goto(r, "load", None, {}, {})
        BY <1>4, <2>2 DEF Claim, ClaimFrom, Becomes
      <3>2. Senders = {} /\ \A d \in Devices : pushes[d] = 0
        BY <1>2, <2>2 DEF NotBegun
      <3>3. Senders' = {r} /\ pc'[r] = "load"
        BY <1>0, <3>1, <3>2 DEF Goto, CallTypes, Senders, Sending
      <3>4. QED
        BY <1>2, <2>1, <3>1, <3>2, <3>3
           DEF OneSender, NotBegun, StillToPush, OncePushed, Claimable
    <2>3. CASE status \notin Claimable
      <3>1. status' = status /\ Goto(r, "idle", None, {}, {})
        BY <1>4, <2>3 DEF Claim, ClaimFrom, Return
      <3>2. /\ Senders' = Senders
            /\ \A q \in Senders : pc'[q] = pc[q] /\ todo'[q] = todo[q]
        BY <1>0, <2>1, <3>1 DEF Goto, CallTypes, Senders, Sending
      <3>3. QED
        BY <1>2, <2>1, <3>1, <3>2 DEF OneSender, NotBegun, StillToPush, OncePushed
    <2>4. QED
      BY <2>2, <2>3
  <1>5. ASSUME NEW r \in Callers, r \in Senders,
               \/ Load(r) \/ ReadTargets(r) \/ Prune(r) \/ Finish(r) \/ Fail(r)
               \/ Throws(r) \/ Stop(r)
        PROVE  (OneSender /\ NotBegun /\ StillToPush /\ OncePushed)'
    <2>1. pushes' = pushes
      BY <1>5 DEF Load, ReadTargets, Prune, Finish, Fail, Throws, Stop, history
    <2>2. status' \notin Claimable \cup {"none"}
      <3>1. status \notin Claimable \cup {"none"}
        BY <1>2, <1>5 DEF NotBegun
      <3>2. QED
        BY <1>5, <3>1 DEF Load, ReadTargets, Prune, Finish, Fail, Throws, Stop, Becomes,
               SentStatus, Failed, Claimable, campaign
    <2>3. \A q \in Callers \ {r} : pc'[q] = pc[q]
      BY <1>0, <1>5 DEF Load, ReadTargets, Prune, Finish, Fail, Throws, Stop, Return, Goto,
                        CallTypes
    <2>4. Senders' \subseteq {r}
      BY <1>2, <1>5, <2>3 DEF OneSender, Senders
    <2>5. /\ pc'[r] \in {"load", "target"} => pc[r] = "load"
          /\ pc'[r] = "push" => pc[r] = "target" /\ todo'[r] \subseteq Devices
      BY <1>0, <1>5 DEF Load, ReadTargets, Prune, Finish, Fail, Throws, Stop, Return, Goto,
                        CallTypes, Targets, Reach
    <2>6. QED
      BY <1>2, <1>5, <2>1, <2>2, <2>4, <2>5 DEF OneSender, NotBegun, StillToPush, OncePushed
  <1>6. ASSUME NEW r \in Callers, r \in Senders, pc[r] = "push", NEW batch \in Batches(r),
               NEW dead \in SUBSET batch, Push(r, batch, dead)
        PROVE  (OneSender /\ NotBegun /\ StillToPush /\ OncePushed)'
    <2>0. batch \subseteq todo[r] /\ todo[r] \subseteq Devices
      BY <1>0 DEF Batches, CallTypes
    <2>1. status' = status /\ status \notin Claimable \cup {"none"}
      BY <1>2, <1>6 DEF NotBegun, Push, campaign
    <2>2. \A d \in Devices : pushes'[d] = IF d \in batch /\ pushes[d] < 2 THEN pushes[d] + 1 ELSE pushes[d]
      BY <1>6 DEF Push
    <2>3. \A d \in todo[r] : pushes[d] = 0
      BY <1>2, <1>6 DEF StillToPush
    <2>4. OncePushed'
      BY <1>0, <1>2, <2>0, <2>2, <2>3 DEF OncePushed, OtherTypes
    <2>5. \A q \in Callers \ {r} : pc'[q] = pc[q]
      BY <1>0, <1>6 DEF Push, Goto, CallTypes
    <2>6. Senders' \subseteq {r}
      BY <1>2, <1>6, <2>5 DEF OneSender, Senders
    <2>7. pc'[r] \in {"push", "prune", "finish"} /\ todo'[r] = todo[r] \ batch
      BY <1>0, <1>6 DEF Push, Left, Goto, CallTypes
    <2>8. StillToPush'
      BY <2>0, <2>2, <2>3, <2>6, <2>7 DEF StillToPush
    <2>9. QED
      BY <2>1, <2>4, <2>6, <2>8 DEF OneSender, NotBegun
  <1>7. ASSUME NEW r \in Callers, r \notin Senders, Stop(r)
        PROVE  (OneSender /\ NotBegun /\ StillToPush /\ OncePushed)'
    <2>1. pushes' = pushes /\ status' = status
      BY <1>7 DEF Stop, campaign
    <2>2. /\ Senders' = Senders
          /\ \A q \in Senders : pc'[q] = pc[q] /\ todo'[q] = todo[q]
      BY <1>0, <1>7 DEF Stop, Return, Goto, CallTypes, Senders, Sending
    <2>3. QED
      BY <1>2, <2>1, <2>2 DEF OneSender, NotBegun, StillToPush, OncePushed
  <1>8. ASSUME NEW r \in Callers,
               \/ Load(r) \/ ReadTargets(r) \/ pc[r] = "push" \/ Prune(r) \/ Finish(r) \/ Fail(r)
               \/ Throws(r)
        PROVE  r \in Senders
    BY <1>8 DEF Load, ReadTargets, Prune, Finish, Fail, Throws, Senders, Sending
  <1>9. ASSUME NEW r \in Callers, SendStep(r) \/ Throws(r) \/ Stop(r)
        PROVE  (OneSender /\ NotBegun /\ StillToPush /\ OncePushed)'
    <2>1. CASE pc[r] = "push" /\ \E batch \in Batches(r) : \E dead \in SUBSET batch : Push(r, batch, dead)
      <3>1. r \in Senders
        BY <1>8, <2>1
      <3>2. PICK batch \in Batches(r) : \E dead \in SUBSET batch : Push(r, batch, dead)
        BY <2>1
      <3>3. QED
        BY <1>6, <2>1, <3>1, <3>2
    <2>2. CASE Claim(r)
      BY <1>4, <2>2
    <2>3. CASE Load(r) \/ ReadTargets(r) \/ Prune(r) \/ Finish(r) \/ Fail(r) \/ Throws(r)
      <3>1. r \in Senders
        BY <1>8, <2>3
      <3>2. QED
        BY <1>5, <2>3, <3>1
    <2>4. CASE Stop(r)
      BY <1>5, <1>7, <2>4
    <2>5. QED
      BY <1>9, <2>1, <2>2, <2>3, <2>4 DEF SendStep
  <1>10. Aside \/ \E r \in Callers : SendStep(r) \/ Throws(r) \/ Stop(r)
    BY DEF Next, Aside
  <1>11. QED
    BY <1>3, <1>9, <1>10

\* The claim of send() admits one sender for each time the campaign is opened, so that
\* no device is pushed to twice, unless a reschedule wrote over a send that had begun.
THEOREM PushedOnce == Spec => []NotTwice
  <1>1. Init => OnceInv
    BY DEF Init, OnceInv, OneSender, NotBegun, StillToPush, OncePushed, Senders, Sending
  <1>2. TypeOK /\ OnceInv /\ [Next]_vars => OnceInv'
    BY OnceStep
  <1>3. OnceInv => NotTwice
    <2> SUFFICES ASSUME OneSender PROVE Cardinality(Senders) <= 1
      BY DEF OnceInv, OncePushed, NotTwice
    <2>1. CASE Senders = {}
      BY <2>1, FS_EmptySet
    <2>2. ASSUME NEW r \in Senders PROVE Cardinality(Senders) <= 1
      <3>1. Senders = {r}
        BY <2>2 DEF OneSender
      <3>2. QED
        BY <3>1, FS_Singleton
    <2>3. QED
      BY <2>1, <2>2
  <1>4. QED
    BY <1>1, <1>2, <1>3, TypeCorrect, PTL DEF Spec

(***************************************************************************)
(* The audience                                                            *)
(***************************************************************************)

\* Whom a sender has yet to push to is of its audience, but for devices that moved.
TargetsKnown ==
  \A r \in Callers : pc[r] = "push" => todo[r] \subseteq Reach(job[r]) \cup moved

\* The targets are read at once; afterwards every change of a device is noted.
LEMMA AudienceStep ==
  ASSUME TypeOK, TargetsKnown, [Next]_vars
  PROVE  TargetsKnown'
  <1>0. CallTypes /\ OtherTypes
    BY DEF TypeOK, CallTypes, OtherTypes
  <1>1. CASE DeviceStep
    <2>1. UNCHANGED callVars
      BY <1>1 DEF DeviceStep, RegisterDevice, UnregisterDevice, StatusChanges
    <2>2. ASSUME NEW r \in Callers, pc[r] = "push", NEW d \in todo[r]
          PROVE  d \in Reach(job[r])' \cup moved'
      <3>1. Senders # {} /\ d \in Reach(job[r]) \cup moved /\ job'[r] = job[r] /\ d \in Devices
        BY <1>0, <2>1, <2>2 DEF TargetsKnown, Senders, Sending, callVars, CallTypes
      <3>2. moved \subseteq moved' /\ (d \notin moved' => d \in Reach(job[r]) /\ holder'[d] = holder[d])
        BY <1>0, <1>1, <3>1 DEF DeviceStep, RegisterDevice, UnregisterDevice, StatusChanges, Note,
                                OtherTypes
      <3>3. d \notin moved' => (holder[d] \in active' <=> holder[d] \in active)
        BY <1>0, <1>1, <3>1 DEF DeviceStep, RegisterDevice, UnregisterDevice, StatusChanges, Note,
                                OtherTypes
      <3>4. QED
        BY <3>1, <3>2, <3>3 DEF Reach
    <2>3. QED
      BY <2>1, <2>2 DEF TargetsKnown, callVars
  <1>2. CASE Aside /\ ~DeviceStep
    <2>1. UNCHANGED <<holder, active, moved>>
      BY <1>2 DEF Aside, Create, AdminStep, UpdateRead, UpdateWrite, RescheduleWrite, CancelRead,
             CancelWrite, RemoveRead, RemoveWrite, SendRead, DispatchList, TimePasses, vars,
             deviceVars, history
    <2>2. ASSUME NEW r \in Callers, pc'[r] = "push"
          PROVE  todo'[r] \subseteq Reach(job[r])' \cup moved'
      <3>1. r \in Senders
        BY <1>2, <2>2, SendersAside DEF Senders, Sending
      <3>2. pc[r] = "push" /\ job'[r] = job[r] /\ todo'[r] = todo[r]
        BY <1>2, <2>2, <3>1, SendersAside
      <3>3. QED
        BY <2>1, <3>2 DEF TargetsKnown, Reach
    <2>3. QED
      BY <2>2 DEF TargetsKnown
  <1>3. ASSUME NEW r \in Callers, ReadTargets(r) PROVE TargetsKnown'
    <2>1. UNCHANGED <<holder, active>> /\ r \in Senders
      BY <1>3 DEF ReadTargets, deviceVars, Senders, Sending
    <2>2. todo'[r] = Reach(job[r]) /\ job'[r] = job[r]
      BY <1>0, <1>3 DEF ReadTargets, Targets, Goto, CallTypes
    <2>3. ASSUME NEW q \in Callers \ {r}, pc'[q] = "push"
          PROVE  todo'[q] \subseteq Reach(job[q])' \cup moved'
      <3>1. pc[q] = "push" /\ job'[q] = job[q] /\ todo'[q] = todo[q]
        BY <1>0, <1>3, <2>3 DEF ReadTargets, Goto, CallTypes
      <3>2. q \in Senders
        BY <3>1 DEF Senders, Sending
      <3>3. moved' = moved
        BY <1>3, <3>2 DEF ReadTargets
      <3>4. QED
        BY <2>1, <3>1, <3>3 DEF TargetsKnown, Reach
    <2>4. QED
      BY <2>1, <2>2, <2>3 DEF TargetsKnown, Reach
  <1>4. ASSUME NEW r \in Callers,
               \/ Claim(r) \/ Load(r) \/ Finish(r) \/ Fail(r) \/ Throws(r) \/ Stop(r)
        PROVE  TargetsKnown'
    <2>1. UNCHANGED <<holder, active, moved>> /\ pc'[r] # "push"
      BY <1>0, <1>4 DEF Claim, Load, Finish, Fail, Throws, Stop, Return, Goto, CallTypes,
                        deviceVars, history
    <2>2. \A q \in Callers \ {r} : pc'[q] = pc[q] /\ job'[q] = job[q] /\ todo'[q] = todo[q]
      BY <1>0, <1>4 DEF Claim, Load, Finish, Fail, Throws, Stop, Return, Goto, CallTypes
    <2>3. QED
      BY <2>1, <2>2 DEF TargetsKnown, Reach
  <1>5. ASSUME NEW r \in Callers, pc[r] = "push", NEW batch, NEW dead, Push(r, batch, dead)
        PROVE  TargetsKnown'
    <2>1. UNCHANGED <<holder, active, moved>>
      BY <1>5 DEF Push, deviceVars
    <2>2. /\ todo'[r] \subseteq todo[r] /\ job'[r] = job[r]
          /\ \A q \in Callers \ {r} : pc'[q] = pc[q] /\ job'[q] = job[q] /\ todo'[q] = todo[q]
      BY <1>0, <1>5 DEF Push, Left, Goto, CallTypes
    <2>3. QED
      BY <1>5, <2>1, <2>2 DEF TargetsKnown, Reach
  <1>6. ASSUME NEW r \in Callers, Prune(r) PROVE TargetsKnown'
    <2>1. /\ active' = active /\ moved' = moved \cup bad[r] /\ pc'[r] # "push"
          /\ \A d \in Devices \ moved' : holder'[d] = holder[d]
      BY <1>0, <1>6 DEF Prune, Goto, CallTypes, OtherTypes
    <2>2. \A q \in Callers \ {r} : pc'[q] = pc[q] /\ job'[q] = job[q] /\ todo'[q] = todo[q]
      BY <1>0, <1>6 DEF Prune, Goto, CallTypes
    <2>3. QED
      BY <2>1, <2>2 DEF TargetsKnown, Reach
  <1>7. Aside \/ \E r \in Callers : SendStep(r) \/ Throws(r) \/ Stop(r)
    BY DEF Next, Aside
  <1>8. QED
    BY <1>1, <1>2, <1>3, <1>4, <1>5, <1>6, <1>7 DEF SendStep

\* A step that pushes is a Push of somebody who is sending.
LEMMA WhoPushes ==
  ASSUME TypeOK, [Next]_vars, pushes' # pushes
  PROVE  \E r \in Callers :
           /\ pc[r] = "push"
           /\ \E batch \in Batches(r) : \E dead \in SUBSET batch : Push(r, batch, dead)
  <1>1. ~Aside
    BY SendersAside
  <1>2. QED
    BY <1>1 DEF Next, Aside, SendStep, Claim, Load, ReadTargets, Prune, Finish, Fail, Throws, Stop,
                history

\* A device is pushed to only for an ACTIVE customer of the audience, unless its holder or
\* his status changed after the targets were read (NotificationsService.deliver).
THEOREM PushedToItsAudience == Spec => OnlyItsAudience
  <1>1. Init => TargetsKnown
    BY DEF Init, TargetsKnown
  <1>2. TypeOK /\ TargetsKnown /\ [Next]_vars => TargetsKnown'
    BY AudienceStep
  <1>3. ASSUME TypeOK, TargetsKnown, [Next]_vars, NEW d \in Devices, pushes'[d] > pushes[d]
        PROVE  d \in moved \/ \E r \in Senders : d \in Reach(job[r]) /\ d \in todo[r] \ todo'[r]
    <2>1. CallTypes /\ OtherTypes
      BY <1>3 DEF TypeOK, CallTypes, OtherTypes
    <2>2. pushes' # pushes
      BY <1>3, <2>1 DEF OtherTypes
    <2>3. PICK r \in Callers :
            /\ pc[r] = "push"
            /\ \E batch \in Batches(r) : \E dead \in SUBSET batch : Push(r, batch, dead)
      BY <1>3, <2>2, WhoPushes
    <2>4. PICK batch \in Batches(r) : \E dead \in SUBSET batch : Push(r, batch, dead)
      BY <2>3
    <2>5. d \in batch /\ batch \subseteq todo[r]
      BY <1>3, <2>1, <2>4 DEF Push, Batches, OtherTypes
    <2>6. todo'[r] = todo[r] \ batch
      BY <2>1, <2>4 DEF Push, Left, Goto, CallTypes
    <2>7. r \in Senders /\ d \in Reach(job[r]) \cup moved
      BY <1>3, <2>3, <2>5 DEF TargetsKnown, Senders, Sending
    <2>8. QED
      BY <2>5, <2>6, <2>7
  <1>4. TypeOK /\ TargetsKnown /\ [Next]_vars =>
          \A d \in Devices : pushes'[d] > pushes[d] =>
            \/ d \in moved
            \/ \E r \in Senders : d \in Reach(job[r]) /\ d \in todo[r] \ todo'[r]
    BY <1>3
  <1>5. QED
    BY <1>1, <1>2, <1>4, TypeCorrect, PTL DEF Spec, OnlyItsAudience

(***************************************************************************)
(* Cancelled in peace                                                      *)
(***************************************************************************)

\* What was cancelled while nobody worked on it stays out of reach: sends that were asked
\* for find nothing to claim, and nobody can begin to edit it.
AtRest ==
  stopped =>
    /\ status \in {"CANCELLED", "deleted"}
    /\ \A r \in Callers : pc[r] \in {"idle", "claim", "remove"}

\* A step leaves such a campaign at rest, unless it ends that by a new schedule.
LEMMA RestStep ==
  ASSUME TypeOK, AtRest, [Next]_vars
  PROVE  AtRest'
  <1>0. CallTypes /\ OtherTypes
    BY DEF TypeOK, CallTypes, OtherTypes
  <1> SUFFICES ASSUME stopped'
               PROVE  /\ status' \in {"CANCELLED", "deleted"}
                      /\ \A r \in Callers : pc'[r] \in {"idle", "claim", "remove"}
    BY DEF AtRest
  <1>1. ASSUME NEW r \in Admins, CancelWrite(r)
        PROVE  /\ status' \in {"CANCELLED", "deleted"}
               /\ \A q \in Callers : pc'[q] \in {"idle", "claim", "remove"}
    <2>1. r \in Callers /\ status' = "CANCELLED" /\ \A q \in Callers \ {r} : pc[q] \in {"idle", "claim"}
      BY <1>1 DEF CancelWrite, Becomes, Callers
    <2>2. QED
      BY <1>0, <1>1, <2>1 DEF CancelWrite, Return, Goto, CallTypes
  <1>2. ASSUME ~\E r \in Admins : CancelWrite(r) PROVE stopped
    BY <1>2 DEF Next, Create, AdminStep, UpdateRead, UpdateWrite, RescheduleWrite, CancelRead,
           RemoveRead, RemoveWrite, SendRead, DispatchList, SendStep, Claim, Load,
           ReadTargets, Push, Prune, Finish, Fail, Throws, Stop, DeviceStep, RegisterDevice,
           UnregisterDevice, StatusChanges, TimePasses, vars, history
  <1>3. ASSUME stopped, NEW r \in Admins, AdminStep(r), ~CancelWrite(r)
        PROVE  /\ status' \in {"CANCELLED", "deleted"}
               /\ \A q \in Callers : pc'[q] \in {"idle", "claim", "remove"}
    <2>1. /\ status \in {"CANCELLED", "deleted"} /\ r \in Callers
          /\ \A q \in Callers : pc[q] \in {"idle", "claim", "remove"}
      BY <1>3 DEF AtRest, Callers
    <2>2. RemoveRead(r) \/ RemoveWrite(r) \/ SendRead(r)
      BY <1>3, <2>1 DEF AdminStep, UpdateRead, UpdateWrite, RescheduleWrite, CancelRead,
                        EditableNow, Claimable
    <2>3. status' \in {"CANCELLED", "deleted"}
      BY <2>1, <2>2 DEF RemoveRead, RemoveWrite, SendRead, Becomes, campaign
    <2>4. QED
      BY <1>0, <2>1, <2>2, <2>3 DEF RemoveRead, RemoveWrite, SendRead, Return, Goto, CallTypes
  <1>4. ASSUME stopped, NEW r \in Callers, SendStep(r) \/ Throws(r) \/ Stop(r)
        PROVE  /\ status' \in {"CANCELLED", "deleted"}
               /\ \A q \in Callers : pc'[q] \in {"idle", "claim", "remove"}
    <2>1. /\ status \in {"CANCELLED", "deleted"}
          /\ \A q \in Callers : pc[q] \in {"idle", "claim", "remove"}
      BY <1>4 DEF AtRest
    <2>2. Claim(r) \/ Stop(r)
      BY <1>4, <2>1 DEF SendStep, Load, ReadTargets, Prune, Finish, Fail, Throws
    <2>3. status' = status /\ Return(r)
      BY <2>1, <2>2 DEF Claim, ClaimFrom, Claimable, Stop, campaign
    <2>4. QED
      BY <1>0, <2>1, <2>3 DEF Return, Goto, CallTypes
  <1>5. ASSUME stopped, Aside, \A r \in Admins : ~AdminStep(r)
        PROVE  /\ status' \in {"CANCELLED", "deleted"}
               /\ \A q \in Callers : pc'[q] \in {"idle", "claim", "remove"}
    <2>1. /\ status \in {"CANCELLED", "deleted"}
          /\ \A q \in Callers : pc[q] \in {"idle", "claim", "remove"}
      BY <1>5 DEF AtRest
    <2>2. status' = status /\ pc' = pc
      BY <1>5, <2>1 DEF Aside, Create, DispatchList, DueRows, DeviceStep, RegisterDevice,
             UnregisterDevice, StatusChanges, TimePasses, vars, campaign, callVars
    <2>3. QED
      BY <2>1, <2>2
  <1>6. Aside \/ \E r \in Callers : SendStep(r) \/ Throws(r) \/ Stop(r)
    BY DEF Next, Aside
  <1>7. CASE \E r \in Admins : CancelWrite(r)
    BY <1>1, <1>7
  <1>8. CASE \A r \in Admins : ~CancelWrite(r)
    <2>1. stopped
      BY <1>2, <1>8
    <2>2. CASE \E r \in Callers : SendStep(r) \/ Throws(r) \/ Stop(r)
      BY <1>4, <2>1, <2>2
    <2>3. CASE \E r \in Admins : AdminStep(r)
      BY <1>3, <1>8, <2>1, <2>3
    <2>4. CASE Aside /\ \A r \in Admins : ~AdminStep(r)
      BY <1>5, <2>1, <2>4
    <2>5. QED
      BY <1>6, <2>2, <2>3, <2>4
  <1>9. QED
    BY <1>7, <1>8

\* A campaign that was cancelled while nobody was sending or editing it is never pushed
\* to another device, though sends that were asked for are still pending (cancel, send).
THEOREM CancelledIsQuiet == Spec => CancelHolds
  <1>1. Init => AtRest
    BY DEF Init, AtRest
  <1>2. TypeOK /\ AtRest /\ [Next]_vars => AtRest'
    BY RestStep
  <1>3. TypeOK /\ AtRest /\ [Next]_vars => (stopped => pushes' = pushes)
    BY WhoPushes DEF AtRest
  <1>4. QED
    BY <1>1, <1>2, <1>3, TypeCorrect, PTL DEF Spec, CancelHolds

(***************************************************************************)
(* Nothing is left SENDING                                                 *)
(***************************************************************************)

\* While the server has not stopped, who leaves deliver() has written how it ended.
LEMMA SendingStep ==
  ASSUME TypeOK, NoOrphanedSending, [Next]_vars
  PROVE  NoOrphanedSending'
  <1>0. CallTypes /\ OtherTypes
    BY DEF TypeOK, CallTypes, OtherTypes
  <1> SUFFICES ASSUME status' = "SENDING", stops' = 0 PROVE Senders' # {}
    BY DEF NoOrphanedSending
  <1>1. CASE Aside
    <2>1. Senders' = Senders /\ stops' = stops
      BY <1>1, SendersAside
    <2>2. status = "SENDING"
      BY <1>1 DEF Aside, Create, AdminStep, UpdateRead, UpdateWrite, RescheduleWrite, CancelRead,
             CancelWrite, RemoveRead, RemoveWrite, SendRead, DispatchList, DeviceStep,
             RegisterDevice, UnregisterDevice, StatusChanges, TimePasses, Becomes, Claimable,
             vars, campaign
    <2>3. QED
      BY <2>1, <2>2 DEF NoOrphanedSending
  <1>2. ASSUME NEW r \in Callers, Stop(r) PROVE FALSE
    BY <1>0, <1>2, CampaignAssumption DEF Stop, OtherTypes
  <1>3. ASSUME NEW r \in Callers, Claim(r), status \in ClaimFrom PROVE Senders' # {}
    <2>1. pc'[r] = "load"
      BY <1>0, <1>3 DEF Claim, Goto, CallTypes
    <2>2. QED
      BY <2>1 DEF Senders, Sending
  <1>4. ASSUME NEW r \in Callers, Claim(r), status \notin ClaimFrom PROVE Senders' # {}
    <2>1. Senders # {}
      BY <1>4 DEF Claim, history, NoOrphanedSending
    <2>2. Senders \subseteq Senders'
      BY <1>0, <1>4 DEF Claim, Return, Goto, CallTypes, Senders, Sending
    <2>3. QED
      BY <2>1, <2>2
  <1>5. ASSUME NEW r \in Callers,
               Load(r) \/ ReadTargets(r) \/ Prune(r) \/ Finish(r) \/ Fail(r) \/ Throws(r)
        PROVE  Senders' # {}
    <2>1. status = "SENDING" /\ Exists
      BY <1>5 DEF Load, ReadTargets, Prune, Finish, Fail, Throws, Becomes, SentStatus, Failed,
             campaign, Exists
    <2>2. pc'[r] \in Sending
      BY <1>0, <1>5, <2>1 DEF Load, ReadTargets, Prune, Finish, Fail, Throws, Becomes, SentStatus,
             Failed, Goto, CallTypes, Sending
    <2>3. QED
      BY <2>2 DEF Senders
  <1>6. ASSUME NEW r \in Callers, NEW batch, NEW dead, Push(r, batch, dead) PROVE Senders' # {}
    <2>1. pc'[r] \in {"push", "prune", "finish"}
      BY <1>0, <1>6 DEF Push, Goto, CallTypes
    <2>2. QED
      BY <2>1 DEF Senders, Sending
  <1>7. Aside \/ \E r \in Callers : SendStep(r) \/ Throws(r) \/ Stop(r)
    BY DEF Next, Aside
  <1>8. QED
    BY <1>1, <1>2, <1>3, <1>4, <1>5, <1>6, <1>7 DEF SendStep

\* A campaign is SENDING only while somebody is sending it, unless the server stopped
\* (send, whose catch writes FAILED).
THEOREM SendingIsHeld == Spec => []NoOrphanedSending
  <1>1. Init => NoOrphanedSending
    BY DEF Init, NoOrphanedSending
  <1>2. TypeOK /\ NoOrphanedSending /\ [Next]_vars => NoOrphanedSending'
    BY SendingStep
  <1>3. QED
    BY <1>1, <1>2, TypeCorrect, PTL DEF Spec
=============================================================================
