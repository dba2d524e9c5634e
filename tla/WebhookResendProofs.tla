------------------------- MODULE WebhookResendProofs -------------------------
(***************************************************************************)
(* What WebhookReceiver keeps of its two windows, the resend window and    *)
(* the three minutes of a service log in flight, and what a resolution     *)
(* answers, for every value of the constants.                              *)
(***************************************************************************)
EXTENDS MCWebhookHistory, WebhookReceiverProofs

-----------------------------------------------------------------------------
\* Which steps start and end a send.

\* Only Claim takes a handler from "update" to "send".
LEMMA ClaimsByClaim ==
  ASSUME Inv, [Next]_vars, NEW h \in Handlers, Claims(h)
  PROVE  Claim(h)
<1>1. DOMAIN pc = Handlers /\ pc[h] = "update" /\ pc'[h] = "send"
  BY DEF Inv, TypeOK, Claims
<1>2. ~Tick /\ ~Crash /\ ~UNCHANGED vars
  BY <1>1, Zenon DEF Tick, Crash, vars, agent
<1>3. PICK g \in Handlers : Step(g) \/ \E request \in Requests : Receive(g, request)
  BY <1>2, Zenon DEF Next
<1>4. g = h
  BY <1>1, <1>3, StepDisturbs, Zenon DEF Disturbs
<1>5. ~Leave(h)
  BY <1>1 DEF Leave
<1>6. pc[h] = "update" /\ \A p \in {"next", "retrieve", "update", "record", "idle"} :
         pc' # [pc EXCEPT ![h] = p]
  BY <1>1
<1> QED
  BY <1>3, <1>4, <1>5, <1>6, <1>1, Zenon DEF Step, Receive, Reject, Begin, Retrieve, Decline, Conflict, GiveUp,
      Send, RecordSent, SkipRecord, Reply

\* Whatever copy a handler decides on, and whoever writes in between, no firing claim is made
\* while the stored record is inside the resend window (see RespectsResendWait).
THEOREM ResendWaitRespected == Spec => RespectsResendWait
<1>1. ASSUME Inv, [Next]_vars, NEW h \in Handlers, ClaimsFiring(h)
      PROVE  ~WithinResendWait(Notification(h), rec[Notification(h)], now)
  <2>1. Claim(h) /\ job[h].firing
    BY <1>1, ClaimsByClaim DEF ClaimsFiring
  <2>2. ctx[h].rec = rec[Notification(h)] /\ Decision(h)
    BY <1>1, <2>1, Zenon DEF Claim, UpToDate, Inv, CopyOK, HasCopy
  <2> QED
    BY <2>1, <2>2 DEF Decision, CanSend, CanSendFiring, WithinResendWait, Present, Holds
<1>2. Inv /\ [Next]_vars =>
        [\A h \in Handlers : ClaimsFiring(h) =>
           ~WithinResendWait(Notification(h), rec[Notification(h)], now)]_vars
  BY <1>1
<1> QED
  BY <1>2, Invariance, PTL DEF Spec, RespectsResendWait

-----------------------------------------------------------------------------
\* The three minute window.

\* While a handler sends for a firing alert, the time of AlertResolved is at least that of its
\* claim, which is not long ago: so any other call is still "recent".
InFlight(h) ==
  Sending(h) /\ job[h].firing =>
    /\ Present(rec[Notification(h)].resolved)
    /\ ctx[h].claimedAt <= rec[Notification(h)].resolved.at
    /\ now <= ctx[h].claimedAt + MaxSendTime

InFlightOK == \A h \in Handlers : InFlight(h)

\* The memory of the last call to r is not lost in s.
Remembers(s, r) ==
  /\ Present(r.resolved) => Present(s.resolved)
  /\ r.resolved.at <= s.resolved.at

\* Observing an alert or recording an outcome never forgets the last call.
LEMMA OperatorsRemember ==
  ASSUME now \in Nat, NEW r \in Record, NEW b \in BOOLEAN, Ordered(r)
  PROVE  /\ Remembers(AfterAlert(r, b, now), r)
         /\ Remembers(AfterSend(r, b, now), r)
         /\ b => /\ Present(AfterAlert(r, b, now).resolved)
                 /\ AfterAlert(r, b, now).resolved.at = now
BY DEF Remembers, Ordered, AfterAlert, AfterSend, SetCondition, Record, Condition, Status, Present

\* What a handler with a current copy writes remembers what is stored.
LEMMA WrittenRemembers ==
  ASSUME Inv, NEW h \in Handlers, UpToDate(h)
  PROVE  /\ Notification(h) \in Notifications
         /\ Remembers(Observed(h), rec[Notification(h)])
         /\ Remembers(Outcome(h), rec[Notification(h)])
         /\ job[h].firing => /\ Present(Observed(h).resolved)
                             /\ Observed(h).resolved.at = now
<1>1. /\ pc[h] \in {"update", "send", "record"} /\ ctx[h].rec = rec[Notification(h)]
      /\ Notification(h) \in Notifications /\ job[h].firing \in BOOLEAN
  BY DEF Inv, CopyOK, HasCopy, JobOK, UpToDate
<1>2. /\ ctx[h].rec \in Record /\ Ordered(ctx[h].rec) /\ now \in Nat
      /\ ctx[h].sent \in BOOLEAN
  BY <1>1, ReceiverAssumption DEF Inv, TypeOK, RecordsOrdered, Context
<1> QED
  BY <1>1, <1>2, OperatorsRemember DEF Observed, Outcome

\* No step forgets the last call of a notification.
LEMMA StepRemembers ==
  ASSUME Inv, [Next]_vars, NEW n \in Notifications
  PROVE  Remembers(rec'[n], rec[n])
<1>1. rec \in [Notifications -> Record] /\ rec[n].resolved.at \in Nat
  BY ReceiverAssumption DEF Inv, TypeOK, Record, Condition
<1>2. CASE rec' = rec
  BY <1>1, <1>2 DEF Remembers
<1>3. ASSUME NEW h \in Handlers, UpToDate(h), Write(h, Observed(h)) \/ Write(h, Outcome(h))
      PROVE  Remembers(rec'[n], rec[n])
  BY <1>1, <1>3, WrittenRemembers DEF Write, Remembers
<1>4. \/ rec' = rec
      \/ \E h \in Handlers : UpToDate(h) /\ (Write(h, Observed(h)) \/ Write(h, Outcome(h)))
  BY Zenon DEF Next, Step, Tick, Crash, Receive, Reject, Begin, Retrieve, Claim, Decline,
      Conflict, GiveUp, Send, RecordSent, SkipRecord, Reply, vars
<1> QED
  BY <1>2, <1>3, <1>4

\* A handler that sends after a step has just claimed, or was sending already.
LEMMA SendersStep ==
  ASSUME Inv, NEW h \in Handlers, Sending(h)',
         Step(h) \/ \E request \in Requests : Receive(h, request)
  PROVE  Claim(h) \/ \E sent \in BOOLEAN : Send(h, sent)
<1>1. DOMAIN pc = Handlers /\ pc'[h] \in {"send", "record"}
  BY DEF Inv, TypeOK, Sending
<1>2. \A p \in {"next", "retrieve", "update", "idle"} : pc' # [pc EXCEPT ![h] = p]
  BY <1>1
<1>3. ~Leave(h)
  BY <1>2 DEF Leave
<1>4. ~Conflict(h)
  BY <1>2, <1>3, ConflictCases
<1>5. \A a \in Alerts, f \in BOOLEAN : ~Reject(h, a, f)
  BY <1>1, Zenon DEF Reject, Take
<1> QED
  BY <1>2, <1>3, <1>4, <1>5, Zenon
  DEF Step, Receive, Begin, Retrieve, Decline, GiveUp, RecordSent, SkipRecord, Reply

\* A step keeps what is known of the service logs in flight.
LEMMA InFlightStep == Inv /\ InFlightOK /\ [Next]_vars => InFlightOK'
<1> SUFFICES ASSUME Inv, InFlightOK, [Next]_vars, NEW g \in Handlers
             PROVE  InFlight(g)'
  BY DEF InFlightOK
<1>1. InFlight(g) /\ ctx[g].claimedAt \in Nat /\ now \in Nat /\ MaxSendTime \in Nat
  BY ReceiverAssumption DEF InFlightOK, Inv, TypeOK, Context
<1>2. CASE Tick
  BY <1>1, <1>2 DEF Tick, agent, InFlight, Sending, Notification
<1>3. CASE Crash
  BY <1>3 DEF Crash, InFlight, Sending
<1>4. CASE UNCHANGED vars
  BY <1>1, <1>4 DEF vars, agent, InFlight, Sending, Notification
<1>5. ASSUME NEW h \in Handlers, Step(h) \/ \E request \in Requests : Receive(h, request)
      PROVE  InFlight(g)'
  <2>1. Disturbs(h)
    BY <1>5, StepDisturbs
  <2>2. CASE g # h
    <3>1. pc'[g] = pc[g] /\ job'[g] = job[g] /\ ctx'[g] = ctx[g] /\ now' = now
      BY <2>1, <2>2 DEF Disturbs
    <3>2. ASSUME Sending(g)
          PROVE  /\ Notification(g) \in Notifications
                 /\ Remembers(rec'[Notification(g)], rec[Notification(g)])
      <4>1. Notification(g) \in Notifications
        BY <3>2 DEF Inv, JobOK, Sending
      <4> QED  BY <4>1, StepRemembers
    <3>3. ASSUME Sending(g)
          PROVE  /\ rec[Notification(g)].resolved.at \in Nat
                 /\ rec'[Notification(g)].resolved.at \in Nat
      <4>1. rec' \in [Notifications -> Record] /\ rec \in [Notifications -> Record]
        BY TypeStep DEF Inv, TypeOK
      <4> QED  BY <3>2, <3>3, <4>1, ReceiverAssumption DEF Record, Condition
    <3> QED
      BY <1>1, <3>1, <3>2, <3>3 DEF InFlight, Sending, Notification, Remembers
  <2>3. CASE g = h /\ Claim(h)
    <3>1. /\ UpToDate(h) /\ Write(h, Observed(h)) /\ job' = job /\ now' = now
      BY <2>3, Zenon DEF Claim
    <3>2. ctx'[h].claimedAt = now
      <4>1. ctx \in [Handlers -> Context]
        BY DEF Inv, TypeOK
      <4> QED  BY <2>3, <4>1, Zenon DEF Claim, Context
    <3>3. rec'[Notification(h)] = Observed(h)
      BY <3>1, WrittenRemembers DEF Inv, TypeOK, Write
    <3> QED
      BY <1>1, <2>3, <3>1, <3>2, <3>3, WrittenRemembers DEF InFlight, Notification
  <2>4. ASSUME g = h, NEW sent \in BOOLEAN, Send(h, sent)
        PROVE  InFlight(g)'
    <3>1. Sending(h) /\ UNCHANGED <<now, rec, job>>
      BY <2>4, Zenon DEF Send, Sending
    <3>2. ctx'[h].claimedAt = ctx[h].claimedAt
      <4>1. ctx \in [Handlers -> Context]
        BY DEF Inv, TypeOK
      <4> QED  BY <2>4, <4>1, Zenon DEF Send, Context
    <3> QED
      BY <1>1, <2>4, <3>1, <3>2 DEF InFlight, Notification
  <2>5. CASE ~Sending(h)' /\ g = h
    BY <2>5 DEF InFlight
  <2> QED
    BY <1>5, <2>2, <2>3, <2>4, <2>5, SendersStep
<1> QED
  BY <1>2, <1>3, <1>4, <1>5 DEF Next

\* A service log in flight keeps the records recent, in every reachable state.
THEOREM InFlightRecent == Spec => []InFlightOK
<1>1. Init => InFlightOK
  BY DEF Init, InFlightOK, InFlight, Sending
<1> QED
  BY <1>1, InFlightStep, Invariance, PTL DEF Spec

\* The three minute window does its job: no handler claims a resend while another is sending
\* a service log for the same firing notification, provided that a send takes less than the
\* window (see ResendsAlone; MaxSendTime < InFlightWindow is part of ReceiverAssumption).
THEOREM ResendsAreAlone == Spec => ResendsAlone
<1> DEFINE Alone(h) ==
      ClaimsFiring(h) /\ ctx[h].wasFiring /\ Present(ctx[h].rec.slSent) =>
        \A g \in Handlers \ {h} :
          ~(Sending(g) /\ job[g].firing /\ Notification(g) = Notification(h))
<1>1. ASSUME Inv, InFlightOK, [Next]_vars, NEW h \in Handlers, NEW g \in Handlers,
             ClaimsFiring(h), ctx[h].wasFiring, Present(ctx[h].rec.slSent),
             Sending(g), job[g].firing, Notification(g) = Notification(h)
      PROVE  FALSE
  <2> DEFINE r == rec[Notification(h)]
  <2>1. Claim(h) /\ job[h].firing
    BY <1>1, ClaimsByClaim DEF ClaimsFiring
  <2>2. Decision(h) /\ ctx[h].rec = r /\ Holds(r.firing)
    <3>1. Decision(h) /\ UpToDate(h) /\ pc[h] = "update"
      BY <2>1, Zenon DEF Claim
    <3> QED  BY <1>1, <3>1 DEF Inv, CopyOK, HasCopy, UpToDate
  <2>3. ~CalledRecently(r, now)
    BY <1>1, <2>1, <2>2 DEF Decision, CanSend, CanSendFiring
  <2>4. /\ Present(r.resolved)
        /\ ctx[g].claimedAt <= r.resolved.at
        /\ now <= ctx[g].claimedAt + MaxSendTime
    BY <1>1 DEF InFlightOK, InFlight
  <2>5. r.resolved.at \in Nat /\ ctx[g].claimedAt \in Nat /\ now \in Nat
    <3>1. rec \in [Notifications -> Record] /\ Notification(h) \in Notifications
      BY <1>1 DEF Inv, TypeOK, JobOK, Sending
    <3>2. ctx[g].claimedAt \in Nat /\ now \in Nat
      BY ReceiverAssumption, <1>1 DEF Inv, TypeOK, Context
    <3> QED  BY <3>1, <3>2, ReceiverAssumption DEF Record, Condition
  <2> QED
    BY <2>3, <2>4, <2>5, ReceiverAssumption, RecordAssumption DEF CalledRecently
<1>2. Inv /\ InFlightOK /\ [Next]_vars => [\A h \in Handlers : Alone(h)]_vars
  BY <1>1
<1> QED
  BY <1>2, Invariance, InFlightRecent, PTL DEF Spec, ResendsAlone

-----------------------------------------------------------------------------
\* What a resolution answers.

\* A handler with a service log in hand has noted in its copy whether the alert fires.
NotedOK ==
  \A h \in Handlers : Sending(h) => (Holds(ctx[h].rec.firing) <=> job[h].firing)

\* A service log that is about to be recorded as sent, for an alert that still fires, is unanswered.
PendingOK ==
  \A h \in current :
    pc[h] = "record" /\ ctx[h].sent /\ job[h].firing => announced[Notification(h)]

\* A firing alert whose service log came after its firing has a service log unanswered.
RecordedOK ==
  \A n \in Notifications :
    /\ Holds(rec[n].firing) /\ Holds(rec[n].slSent)
    /\ rec[n].slSent.at > rec[n].firing.at
    => announced[n]

AnsweringInv == NotedOK /\ PendingOK /\ RecordedOK

\* What the operators on records do to the conditions that count here.
LEMMA OperatorsAnswer ==
  ASSUME now \in Nat, NEW r \in Record, Ordered(r), NEW b \in BOOLEAN
  PROVE  /\ Holds(AfterAlert(r, b, now).firing) <=> b
         /\ AfterAlert(r, b, now).slSent = r.slSent
         /\ b /\ r.slSent.at > AfterAlert(r, b, now).firing.at =>
              /\ Holds(r.firing)
              /\ r.firing.at = AfterAlert(r, b, now).firing.at
         /\ AfterSend(r, b, now).firing = r.firing
         /\ Holds(AfterSend(r, b, now).slSent) <=> b
BY DEF Ordered, AfterAlert, AfterSend, SetCondition, Record, Condition, Status, Holds, Present

\* A record changes by an update from a current copy: the first of an alert, or its outcome.
LEMMA WritersUpdate ==
  ASSUME Inv, [Next]_vars, NEW n \in Notifications, rec'[n] # rec[n]
  PROVE  \E h \in Handlers :
           /\ UpToDate(h) /\ Notification(h) = n
           /\ \/ rec'[n] = Observed(h)
              \/ rec'[n] = Outcome(h) /\ pc[h] = "record"
<1>1. PICK h \in Handlers :
        /\ UpToDate(h)
        /\ Write(h, Observed(h)) \/ (Write(h, Outcome(h)) /\ pc[h] = "record")
  BY Zenon DEF Next, Step, Tick, Crash, Receive, Reject, Begin, Retrieve, Claim, Decline,
      Conflict, GiveUp, Send, RecordSent, SkipRecord, Reply, vars
<1> QED BY <1>1 DEF Write, Inv, TypeOK

\* What a handler with a current copy decides on and writes.
LEMMA CopyAnswers ==
  ASSUME Inv, NEW h \in Handlers, UpToDate(h)
  PROVE  LET r == rec[Notification(h)]
         IN  /\ r \in Record /\ Ordered(r) /\ ctx[h].rec = r /\ job[h].firing \in BOOLEAN
             /\ Holds(Observed(h).firing) <=> job[h].firing
             /\ Observed(h).slSent = r.slSent
             /\ job[h].firing /\ r.slSent.at > Observed(h).firing.at =>
                  Holds(r.firing) /\ r.firing.at = Observed(h).firing.at
             /\ Outcome(h).firing = r.firing
             /\ Holds(Outcome(h).slSent) <=> ctx[h].sent
<1>1. /\ pc[h] \in {"update", "send", "record"} /\ ctx[h].rec = rec[Notification(h)]
      /\ Notification(h) \in Notifications /\ job[h].firing \in BOOLEAN
  BY DEF Inv, CopyOK, HasCopy, JobOK, UpToDate
<1>2. /\ ctx[h].rec \in Record /\ Ordered(ctx[h].rec) /\ now \in Nat
      /\ ctx[h].sent \in BOOLEAN
  BY <1>1, ReceiverAssumption DEF Inv, TypeOK, RecordsOrdered, Context
<1> QED BY <1>1, <1>2, OperatorsAnswer DEF Observed, Outcome

\* A claimed resolution leaves an alert that does not fire.
LEMMA ResolvedIsStored ==
  ASSUME Inv, [Next]_vars, NEW h \in Handlers, ClaimsResolved(h)
  PROVE  ~Holds(rec'[Notification(h)].firing)
<1>1. Claim(h) /\ ~job[h].firing
  BY ClaimsByClaim DEF ClaimsResolved
<1>2. UpToDate(h) /\ rec' = [rec EXCEPT ![Notification(h)] = Observed(h)]
  BY <1>1, Zenon DEF Claim, Write
<1>3. Notification(h) \in Notifications /\ rec \in [Notifications -> Record]
  BY <1>2, WrittenOrdered DEF Inv, TypeOK
<1> QED BY <1>1, <1>2, <1>3, CopyAnswers

\* Only a resolution makes an announcement answered.
LEMMA AnnouncedKept ==
  ASSUME Inv, [HNext]_hvars, NEW n \in Notifications, announced[n], Holds(rec'[n].firing)
  PROVE  announced'[n]
<1>1. CASE UNCHANGED hvars
  BY <1>1 DEF hvars
<1>2. CASE HNext
  <2>1. [Next]_vars
    BY <1>2 DEF HNext
  <2>2. ~\E h \in Handlers : ClaimsResolved(h) /\ Notification(h) = n
    BY <2>1, ResolvedIsStored
  <2> QED BY <1>2, <2>2 DEF HNext
<1> QED BY <1>1, <1>2

\* Whatever moves, a handler that sends has noted whether its alert fires.
LEMMA NotedStep ==
  ASSUME Inv, NotedOK, [Next]_vars
  PROVE  NotedOK'
<1> SUFFICES ASSUME NEW g \in Handlers, Sending(g)'
             PROVE  Holds(ctx'[g].rec.firing) <=> job'[g].firing
  BY DEF NotedOK
<1>1. ctx \in [Handlers -> Context]
  BY DEF Inv, TypeOK
<1>2. CASE Tick \/ UNCHANGED vars
  BY <1>2 DEF Tick, vars, agent, NotedOK, Sending
<1>3. CASE Crash
  BY <1>3 DEF Crash, Sending
<1>4. ASSUME NEW h \in Handlers, Step(h) \/ \E request \in Requests : Receive(h, request)
      PROVE  Holds(ctx'[g].rec.firing) <=> job'[g].firing
  <2>1. CASE g # h
    BY <1>4, <2>1, StepDisturbs DEF Disturbs, NotedOK, Sending
  <2>2. CASE g = h /\ Claim(h)
    <3>1. UpToDate(h) /\ job' = job
      BY <2>2, Zenon DEF Claim
    <3>2. ctx'[h].rec = Observed(h)
      BY <1>1, <2>2, Zenon DEF Claim, Context
    <3> QED BY <2>2, <3>1, <3>2, CopyAnswers
  <2>3. ASSUME g = h, NEW sent \in BOOLEAN, Send(h, sent)
        PROVE  Holds(ctx'[g].rec.firing) <=> job'[g].firing
    <3>1. Sending(h) /\ job' = job
      BY <2>3, Zenon DEF Send, Sending
    <3>2. ctx'[h].rec = ctx[h].rec
      BY <1>1, <2>3, Zenon DEF Send, Context
    <3> QED BY <2>3, <3>1, <3>2 DEF NotedOK
  <2> QED BY <1>4, <2>1, <2>2, <2>3, SendersStep
<1> QED BY <1>2, <1>3, <1>4 DEF Next

\* A service log that OCM accepted stays unanswered until it is recorded, or its copy is stale.
LEMMA PendingStep ==
  ASSUME Inv, NotedOK, PendingOK, [HNext]_hvars
  PROVE  PendingOK'
<1> SUFFICES ASSUME NEW g \in current', pc'[g] = "record", ctx'[g].sent, job'[g].firing
             PROVE  announced'[Notification(g)']
  BY DEF PendingOK
<1>1. ctx \in [Handlers -> Context] /\ [Next]_vars /\ g \in Handlers
  <2>1. [Next]_vars
    BY DEF HNext, hvars
  <2> QED BY <2>1, TypeStep DEF Inv, TypeOK
<1>2. ASSUME g \in current, pc[g] = "record", UNCHANGED <<pc[g], job[g], ctx[g]>>,
             rec'[Notification(g)] = rec[Notification(g)]
      PROVE  announced'[Notification(g)']
  <2>1. /\ announced[Notification(g)] /\ Notification(g)' = Notification(g)
        /\ ctx[g].rec = rec[Notification(g)]
    BY <1>2 DEF PendingOK, Notification, Inv, CopyOK, HasCopy
  <2>2. Holds(ctx[g].rec.firing) /\ Notification(g) \in Notifications
    BY <1>1, <1>2 DEF NotedOK, Sending, Inv, JobOK
  <2> QED BY <1>2, <2>1, <2>2, AnnouncedKept
<1>3. CASE Tick \/ UNCHANGED vars
  <2>1. UNCHANGED <<pc, job, ctx, rec, current>>
    BY <1>3 DEF Tick, vars, agent
  <2> QED BY <1>2, <2>1
<1>4. CASE Crash
  BY <1>4 DEF Crash
<1>5. ASSUME NEW h \in Handlers, Step(h) \/ \E request \in Requests : Receive(h, request)
      PROVE  announced'[Notification(g)']
  <2>1. CASE g # h
    <3>1. /\ pc'[g] = pc[g] /\ job'[g] = job[g] /\ ctx'[g] = ctx[g]
          /\ g \in current /\ rec'[Notification(g)] = rec[Notification(g)]
      BY <1>1, <1>5, <2>1, StepDisturbs DEF Disturbs
    <3> QED BY <1>2, <3>1
  <2>2. CASE g = h
    <3>1. ~Claim(h)
      <4>1. Claim(h) => pc'[h] = "send"
        BY Zenon DEF Claim, Inv, TypeOK
      <4> QED BY <2>2, <4>1
    <3>2. PICK sent \in BOOLEAN : Send(h, sent)
      BY <1>5, <2>2, <3>1, SendersStep DEF Sending
    <3>3. pc[h] = "send" /\ job' = job
      BY <3>2, Zenon DEF Send
    <3>4. Accepts(h, Notification(h)) /\ Notification(h) \in Notifications
      BY <2>2, <3>3 DEF Accepts, Inv, JobOK
    <3>5. HNext
      <4>1. pc' # pc
        BY <2>2, <3>3
      <4> QED BY <4>1 DEF hvars, vars, agent
    <3>6. announced'[Notification(h)]
      BY <3>4, <3>5 DEF HNext
    <3> QED BY <2>2, <3>3, <3>6 DEF Notification
  <2> QED BY <2>1, <2>2
<1> QED BY <1>1, <1>3, <1>4, <1>5 DEF Next

\* What is recorded as sent for a firing alert is unanswered.
LEMMA RecordedStep ==
  ASSUME Inv, NotedOK, PendingOK, RecordedOK, [HNext]_hvars
  PROVE  RecordedOK'
<1> SUFFICES ASSUME NEW n \in Notifications, Holds(rec'[n].firing), Holds(rec'[n].slSent),
                    rec'[n].slSent.at > rec'[n].firing.at
             PROVE  announced[n]
  BY AnnouncedKept DEF RecordedOK
<1>1. [Next]_vars
  BY DEF HNext, hvars
<1>2. CASE rec'[n] = rec[n]
  BY <1>2 DEF RecordedOK
<1>3. CASE rec'[n] # rec[n]
  <2>1. PICK h \in Handlers :
          /\ UpToDate(h) /\ Notification(h) = n
          /\ \/ rec'[n] = Observed(h)
             \/ rec'[n] = Outcome(h) /\ pc[h] = "record"
    BY <1>1, <1>3, WritersUpdate
  <2>2. CASE rec'[n] = Observed(h)
    BY <2>1, <2>2, CopyAnswers DEF RecordedOK
  <2>3. CASE rec'[n] = Outcome(h) /\ pc[h] = "record"
    <3>1. ctx[h].sent /\ Holds(ctx[h].rec.firing)
      BY <2>1, <2>3, CopyAnswers
    <3>2. job[h].firing
      BY <2>3, <3>1 DEF NotedOK, Sending
    <3> QED BY <2>1, <2>3, <3>1, <3>2 DEF PendingOK, UpToDate
  <2> QED BY <2>1, <2>2, <2>3
<1> QED BY <1>2, <1>3

\* The history variable only watches.
LEMMA AnnouncedWatches == HSpec => Spec
<1>1. HInit => Init
  BY DEF HInit
<1>2. [HNext]_hvars => [Next]_vars
  BY DEF HNext, hvars
<1> QED BY <1>1, <1>2, PTL DEF HSpec, Spec

\* A resolution is announced only in answer to a service log that OCM accepted for the firing,
\* and that no other resolution has answered: whatever copy it is decided on, whatever of the
\* recording failed, and whoever was sending meanwhile (see AnswersAnnouncement).
THEOREM ResolutionsAnswer == HSpec => AnswersAnnouncement
<1> DEFINE Answers(h) ==
      LET r == rec[Notification(h)]
      IN  ClaimsResolved(h) /\ r.slSent.at > r.firing.at => announced[Notification(h)]
<1>1. HInit => AnsweringInv
  <2> SUFFICES ASSUME HInit PROVE AnsweringInv
    OBVIOUS
  <2>1. /\ \A h \in Handlers : pc[h] = "idle"
        /\ current = {}
        /\ \A n \in Notifications : rec[n] = NewRecord
    BY DEF HInit, Init
  <2>2. ~Holds(NewRecord.firing)
    BY DEF NewRecord, Absent, Holds
  <2> QED BY <2>1, <2>2 DEF AnsweringInv, NotedOK, PendingOK, RecordedOK, Sending
<1>2. Inv /\ AnsweringInv /\ [HNext]_hvars => AnsweringInv'
  <2>1. [HNext]_hvars => [Next]_vars
    BY DEF HNext, hvars
  <2> QED BY <2>1, NotedStep, PendingStep, RecordedStep DEF AnsweringInv
<1>3. ASSUME Inv, RecordedOK, [Next]_vars, NEW h \in Handlers
      PROVE  Answers(h)
  <2> SUFFICES ASSUME ClaimsResolved(h),
                      rec[Notification(h)].slSent.at > rec[Notification(h)].firing.at
               PROVE  announced[Notification(h)]
    OBVIOUS
  <2>1. Claim(h) /\ ~job[h].firing
    BY <1>3, ClaimsByClaim DEF ClaimsResolved
  <2>2. UpToDate(h) /\ Decision(h)
    BY <2>1, Zenon DEF Claim
  <2>3. Notification(h) \in Notifications /\ ctx[h].rec = rec[Notification(h)]
    BY <1>3, <2>2, WrittenOrdered, CopyAnswers
  <2>4. CanSendResolved(Notification(h), rec[Notification(h)])
    BY <2>1, <2>2, <2>3 DEF Decision, CanSend
  <2> QED BY <1>3, <2>3, <2>4 DEF CanSendResolved, SentSinceFiring, RecordedOK
<1>4. Inv /\ AnsweringInv /\ [HNext]_hvars => [\A h \in Handlers : Answers(h)]_hvars
  <2>1. [HNext]_hvars => [Next]_vars
    BY DEF HNext, hvars
  <2> QED BY <1>3, <2>1 DEF AnsweringInv
<1>5. HSpec => [][\A h \in Handlers : Answers(h)]_hvars
  BY <1>1, <1>2, <1>4, AnnouncedWatches, Invariance, PTL DEF HSpec
<1> QED BY <1>5 DEF AnswersAnnouncement
=============================================================================
