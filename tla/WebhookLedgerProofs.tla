------------------------- MODULE WebhookLedgerProofs -------------------------
(***************************************************************************)
(* WebhookReceiver implements AlertLedger, for every value of the          *)
(* constants.                                                              *)
(***************************************************************************)
EXTENDS WebhookReceiverProofs

-----------------------------------------------------------------------------
\* The operators of the ledger are those of the webhook.
LEMMA SameOperators ==
  /\ Ledger!NewRecord = NewRecord
  /\ \A n, r, f, t : Ledger!CanSend(n, r, f, t) = CanSend(n, r, f, t)
  /\ \A r, f, t : Ledger!AfterAlert(r, f, t) = AfterAlert(r, f, t)
  /\ \A r, sent, t : Ledger!AfterSend(r, sent, t) = AfterSend(r, sent, t)
  /\ \A c : Ledger!Holds(c) = Holds(c)
<1> USE DEF NewRecord, Absent, Holds, Present, SetCondition, Ledger!NewRecord, Ledger!Absent,
            Ledger!Holds, Ledger!Present, Ledger!SetCondition
<1>1. Ledger!NewRecord = NewRecord
  OBVIOUS
<1>2. \A n, r, f, t : Ledger!CanSend(n, r, f, t) = CanSend(n, r, f, t)
  BY DEF CanSend, CanSendFiring, CanSendResolved, WithinResendWait, CalledRecently,
         SentSinceFiring, Ledger!CanSend, Ledger!CanSendFiring, Ledger!CanSendResolved,
         Ledger!WithinResendWait, Ledger!CalledRecently, Ledger!SentSinceFiring
<1>3. \A r, f, t : Ledger!AfterAlert(r, f, t) = AfterAlert(r, f, t)
  BY DEF AfterAlert, Ledger!AfterAlert
<1>4. \A r, sent, t : Ledger!AfterSend(r, sent, t) = AfterSend(r, sent, t)
  BY DEF AfterSend, Ledger!AfterSend
<1>5. \A c : Ledger!Holds(c) = Holds(c)
  OBVIOUS
<1> QED
  BY <1>1, <1>2, <1>3, <1>4, <1>5

\* What handler h is granted.
LEMMA GrantedTo ==
  ASSUME NEW h \in Handlers
  PROVE  /\ ~Sending(h) => Granted[h] = Ledger!NoGrant
         /\ Sending(h) =>
              Granted[h] = [notification |-> Notification(h), firing |-> job[h].firing,
                            resend |-> ctx[h].wasFiring]
         /\ Sending(h) /\ Notification(h) \in Notifications => Granted[h] # Ledger!NoGrant
<1>1. ~Sending(h) => Granted[h] = Ledger!NoGrant
  BY DEF Granted, Ledger!NoGrant
<1>2. Sending(h) =>
        Granted[h] = [notification |-> Notification(h), firing |-> job[h].firing,
                      resend |-> ctx[h].wasFiring]
  BY DEF Granted
<1>3. "none" \notin Notifications
  BY ReceiverAssumption
<1> QED
  BY <1>1, <1>2, <1>3 DEF Ledger!NoGrant

\* A step of one handler changes at most the grant of that handler.
LEMMA GrantedUpdate ==
  ASSUME NEW h \in Handlers, NEW v,
         \A g \in Handlers \ {h} : pc'[g] = pc[g] /\ job'[g] = job[g] /\ ctx'[g] = ctx[g],
         Granted'[h] = v
  PROVE  Granted' = [Granted EXCEPT ![h] = v]
BY DEF Granted, Sending, Notification

\* A step of a handler that sends neither before nor after it changes no grant.
LEMMA NotSending ==
  ASSUME NEW h \in Handlers, Disturbs(h), ~Sending(h), ~Sending(h)'
  PROVE  Granted' = Granted
BY DEF Granted, Sending, Notification, Disturbs

\* Where a handler outside the critical section's updates is, and where it goes.
LEMMA LeaveNotSending ==
  ASSUME Inv, NEW h \in Handlers, Leave(h)
  PROVE  ~Sending(h)'
BY DEF Inv, TypeOK, Leave, Sending

\* An accepted update observes the alert on the stored record.
LEMMA ObservedInLedger ==
  ASSUME Inv, NEW h \in Handlers, pc[h] = "update", UpToDate(h), Write(h, Observed(h))
  PROVE  /\ Notification(h) \in Notifications /\ job[h].firing \in BOOLEAN
         /\ Ledger!Observed(Notification(h), job[h].firing)
         /\ Decision(h) <=>
              Ledger!CanSend(Notification(h), rec[Notification(h)], job[h].firing, now)
         /\ ctx[h].wasFiring = Ledger!Holds(rec[Notification(h)].firing)
         /\ Granted[h] = Ledger!NoGrant
<1>1. /\ Notification(h) \in Notifications /\ job[h].firing \in BOOLEAN
      /\ ctx[h].rec = rec[Notification(h)]
      /\ ctx[h].wasFiring = Holds(ctx[h].rec.firing)
  BY DEF Inv, JobOK, CopyOK, HasCopy, UpToDate
<1>2. ~Sending(h)
  BY DEF Sending
<1> QED
  BY <1>1, <1>2, GrantedTo, SameOperators
  DEF Write, Observed, Decision, Ledger!Observed

\* The claim of a handler is a grant of the ledger.
LEMMA ClaimGrants ==
  ASSUME Inv, NEW h \in Handlers, Claim(h), Disturbs(h)
  PROVE  Ledger!Grant(h, Notification(h), job[h].firing)
<1>1. /\ pc[h] = "update" /\ UpToDate(h) /\ Write(h, Observed(h)) /\ Decision(h)
      /\ pc' = [pc EXCEPT ![h] = "send"] /\ job' = job /\ now' = now
  BY Zenon DEF Claim
<1>2. ctx'[h].wasFiring = ctx[h].wasFiring
  <2>1. ctx \in [Handlers -> Context]
    BY DEF Inv, TypeOK
  <2> QED  BY <2>1, Zenon DEF Claim, Context
<1>3. Sending(h)'
  BY <1>1 DEF Inv, TypeOK, Sending
<1>4. Granted'[h] = [notification |-> Notification(h), firing |-> job[h].firing,
                     resend |-> ctx[h].wasFiring]
  BY <1>1, <1>2, <1>3 DEF Granted, Notification
<1>5. Granted' = [Granted EXCEPT ![h] =
                    [notification |-> Notification(h), firing |-> job[h].firing,
                     resend |-> ctx[h].wasFiring]]
  BY <1>4, GrantedUpdate DEF Disturbs
<1> QED
  BY <1>1, <1>5, ObservedInLedger DEF Ledger!Grant

\* The recorded outcome of a send is that of the grant.
LEMMA RecordIsLedger ==
  ASSUME Inv, NEW h \in Handlers, RecordSent(h), Disturbs(h)
  PROVE  Ledger!RecordSend(h, ctx[h].sent)
<1>1. /\ pc[h] = "record" /\ UpToDate(h) /\ Write(h, Outcome(h)) /\ Leave(h) /\ now' = now
      /\ ToRecord(h)
  BY DEF RecordSent
<1>2. Sending(h) /\ ~Sending(h)'
  BY <1>1, LeaveNotSending DEF Sending
<1>3. Notification(h) \in Notifications /\ ctx[h].rec = rec[Notification(h)]
  BY <1>1, WrittenOrdered DEF Inv, CopyOK, HasCopy, UpToDate
<1>4. /\ Granted[h] # Ledger!NoGrant
      /\ Granted[h].notification = Notification(h)
      /\ Granted[h].firing = job[h].firing
      /\ Granted[h].resend = ctx[h].wasFiring
  <2>1. Granted[h] = [notification |-> Notification(h), firing |-> job[h].firing,
                      resend |-> ctx[h].wasFiring]
    BY <1>2, GrantedTo
  <2>2. Granted[h] # Ledger!NoGrant
    BY <1>2, <1>3, GrantedTo
  <2> QED  BY <2>1, <2>2
<1>5. Granted'[h] = Ledger!NoGrant
  BY <1>2 DEF Granted, Ledger!NoGrant
<1>6. Granted' = [Granted EXCEPT ![h] = Ledger!NoGrant]
  BY <1>5, GrantedUpdate DEF Disturbs
<1>7. rec' = [rec EXCEPT ![Granted[h].notification] =
                Ledger!AfterSend(rec[Granted[h].notification], ctx[h].sent, now)]
  BY <1>1, <1>3, <1>4, SameOperators DEF Write, Outcome
<1>8. Granted[h].firing /\ Granted[h].resend => ctx[h].sent
  BY <1>1, <1>4 DEF ToRecord
<1> QED
  BY <1>1, <1>4, <1>6, <1>7, <1>8 DEF Ledger!RecordSend

\* Every step of the webhook is a step of the ledger, or none.
LEMMA StepsImplement == Inv /\ [Next]_vars => [Ledger!Next]_(Ledger!vars)
<1> SUFFICES ASSUME Inv, [Next]_vars
             PROVE  Ledger!Next \/ UNCHANGED <<now, rec, Granted>>
  BY DEF Ledger!vars
<1>1. CASE Tick
  <2>1. Granted' = Granted
    BY <1>1 DEF Tick, agent, Granted, Sending, Notification
  <2> QED  BY <1>1, <2>1 DEF Tick, Ledger!Tick, Ledger!Next
<1>2. CASE Crash
  <2>1. Granted' = [h \in Handlers |-> Ledger!NoGrant]
    BY <1>2 DEF Crash, Granted, Sending, Ledger!NoGrant
  <2> QED  BY <1>2, <2>1, Zenon DEF Crash, Ledger!Crash, Ledger!Next
<1>3. CASE UNCHANGED vars
  BY <1>3 DEF vars, agent, Granted, Sending, Notification
<1>4. ASSUME NEW h \in Handlers, Step(h) \/ \E request \in Requests : Receive(h, request)
      PROVE  Ledger!Next \/ UNCHANGED <<now, rec, Granted>>
  <2>1. Disturbs(h) /\ DOMAIN pc = Handlers
    BY <1>4, StepDisturbs DEF Inv, TypeOK
  <2>2. ASSUME UNCHANGED <<now, rec>>, ~Sending(h), ~Sending(h)'
        PROVE  UNCHANGED <<now, rec, Granted>>
    BY <2>1, <2>2, NotSending
  <2>3. ASSUME NEW request \in Requests, Receive(h, request)
        PROVE  UNCHANGED <<now, rec, Granted>>
    BY <2>1, <2>2, <2>3 DEF Receive, Sending
  <2>4. ASSUME NEW a \in Alerts, NEW f \in BOOLEAN, Reject(h, a, f) \/ Begin(h, a, f)
        PROVE  UNCHANGED <<now, rec, Granted>>
    <3>1. pc[h] = "next" /\ UNCHANGED <<now, rec>> /\ pc'[h] \in {"next", "retrieve"}
      BY <2>1, <2>4, Zenon DEF Reject, Begin, Take
    <3> QED  BY <2>2, <3>1 DEF Sending
  <2>5. CASE Retrieve(h)
    <3>1. pc[h] = "retrieve" /\ UNCHANGED <<now, rec>> /\ pc'[h] = "update"
      BY <2>1, <2>5, Zenon DEF Retrieve
    <3> QED  BY <2>2, <3>1 DEF Sending
  <2>6. CASE Claim(h)
    BY <2>1, <2>6, ClaimGrants, ObservedInLedger, Zenon DEF Claim, Ledger!Next
  <2>7. CASE Decline(h)
    <3>1. /\ pc[h] = "update" /\ UpToDate(h) /\ Write(h, Observed(h)) /\ ~Decision(h)
          /\ Leave(h) /\ now' = now
      BY <2>7 DEF Decline
    <3>2. Granted' = Granted
      BY <2>1, <3>1, LeaveNotSending, NotSending DEF Sending
    <3>3. Ledger!Refuse(h, Notification(h), job[h].firing)
      BY <3>1, <3>2, ObservedInLedger DEF Ledger!Refuse
    <3> QED  BY <3>1, <3>3, ObservedInLedger, Zenon DEF Ledger!Next
  <2>8. CASE Conflict(h)
    <3>1. pc[h] = "update" /\ UNCHANGED <<now, rec>> /\ ~Sending(h)'
      BY <2>1, <2>8, ConflictCases, LeaveNotSending DEF Sending
    <3> QED  BY <2>2, <3>1 DEF Sending
  <2>9. CASE GiveUp(h)
    <3>1. pc[h] \in {"retrieve", "update"} /\ Leave(h) /\ now' = now
      BY <2>9 DEF GiveUp
    <3>2. ~Sending(h) /\ ~Sending(h)' /\ Granted' = Granted
      BY <2>1, <3>1, LeaveNotSending, NotSending DEF Sending
    <3>3. CASE UNCHANGED rec
      BY <3>1, <3>2, <3>3
    <3>4. CASE /\ "lostResponse" \in Faults
               /\ pc[h] = "update" /\ UpToDate(h) /\ Write(h, Observed(h))
      <4>1. Ledger!ObserveLost(h, Notification(h), job[h].firing)
        BY <3>1, <3>2, <3>4, ObservedInLedger DEF Ledger!ObserveLost
      <4> QED  BY <3>4, <4>1, ObservedInLedger, Zenon DEF Ledger!Next
    <3> QED  BY <2>9, <3>3, <3>4 DEF GiveUp
  <2>10. ASSUME NEW sent \in BOOLEAN, Send(h, sent)
         PROVE  UNCHANGED <<now, rec, Granted>>
    <3>1. /\ pc[h] = "send" /\ pc'[h] = "record" /\ job' = job
          /\ UNCHANGED <<now, rec>>
      BY <2>1, <2>10, Zenon DEF Send
    <3>2. ctx'[h].wasFiring = ctx[h].wasFiring
      <4>1. ctx \in [Handlers -> Context]
        BY DEF Inv, TypeOK
      <4> QED  BY <2>10, <4>1, Zenon DEF Send, Context
    <3>3. Granted'[h] = Granted[h]
      BY <3>1, <3>2 DEF Granted, Sending, Notification
    <3>4. Granted' = [Granted EXCEPT ![h] = Granted[h]]
      BY <2>1, <3>3, GrantedUpdate DEF Disturbs
    <3> QED  BY <3>1, <3>4 DEF Granted
  <2>11. CASE RecordSent(h)
    <3>1. ctx[h].sent \in BOOLEAN
      BY DEF Inv, TypeOK, Context
    <3> QED  BY <2>1, <2>11, <3>1, RecordIsLedger, Zenon DEF Ledger!Next
  <2>12. CASE SkipRecord(h)
    <3>1. Leave(h) /\ UNCHANGED <<now, rec>>
      BY <2>12 DEF SkipRecord
    <3>2. Granted'[h] = Ledger!NoGrant
      BY <3>1, LeaveNotSending DEF Granted, Ledger!NoGrant
    <3>3. Granted' = [Granted EXCEPT ![h] = Ledger!NoGrant]
      BY <2>1, <3>2, GrantedUpdate DEF Disturbs
    <3>4. Ledger!Drop(h)
      BY <3>1, <3>3 DEF Ledger!Drop
    <3> QED  BY <3>4, Zenon DEF Ledger!Next
  <2>13. CASE Reply(h)
    BY <2>1, <2>2, <2>13 DEF Reply, Sending
  <2> QED
    BY <1>4, <2>3, <2>4, <2>5, <2>6, <2>7, <2>8, <2>9, <2>10, <2>11, <2>12, <2>13 DEF Step
<1> QED
  BY <1>1, <1>2, <1>3, <1>4 DEF Next

\* The optimistic updates and their retries, with any faults, amount to one atomic observation
\* per alert and one atomic outcome per send (see ImplementsLedger).
THEOREM Refinement == Spec => ImplementsLedger
<1>1. Init => Ledger!Init
  BY SameOperators DEF Init, Ledger!Init, Granted, Sending, Ledger!NoGrant
<1> QED
  BY <1>1, StepsImplement, Invariance, PTL DEF Spec, ImplementsLedger, Ledger!Spec
=============================================================================
