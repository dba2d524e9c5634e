------------------------ MODULE WebhookReceiverProofs ------------------------
(***************************************************************************)
(* Proofs about WebhookReceiver, for any number of requests, notifications *)
(* and objects, any windows and any combination of faults.                 *)
(***************************************************************************)
EXTENDS WebhookReceiver, TLAPS

\* A handler past "next" has an alert of a known notification in hand.
JobOK ==
  \A h \in Handlers : pc[h] \in {"retrieve", "update", "send", "record"} =>
    /\ job[h] \in [alert : Alerts, firing : BOOLEAN]
    /\ Notification(h) \in Notifications

\* Only a handler between its Get and the end of processAlert has a current copy, and what
\* it noted on reading is what that copy said.
HasCopy(h) ==
  /\ pc[h] \in {"update", "send", "record"}
  /\ ctx[h].rec = rec[Notification(h)]
  /\ pc[h] = "update" => ctx[h].wasFiring = Holds(ctx[h].rec.firing)

CopyOK == \A h \in current : HasCopy(h)

\* The inductive invariant: RecordsOrdered needs CopyOK (an update is computed from the copy),
\* CopyOK needs to know where handlers are, all need the types.
Inv == TypeOK /\ JobOK /\ CopyOK /\ RecordsOrdered

-----------------------------------------------------------------------------
\* What the operators on records return.

\* Setting a condition yields a condition.
LEMMA SetConditionType ==
  ASSUME NEW c \in Condition, NEW v \in BOOLEAN, NEW u \in BOOLEAN, NEW t \in Nat
  PROVE  SetCondition(c, v, u, t) \in Condition
BY DEF SetCondition, Condition, Status, Present

\* Observing an alert yields a record.
LEMMA AfterAlertType ==
  ASSUME NEW r \in Record, NEW b \in BOOLEAN, NEW t \in Nat
  PROVE  AfterAlert(r, b, t) \in Record
BY SetConditionType DEF AfterAlert, Record, Holds

\* Recording an outcome yields a record.
LEMMA AfterSendType ==
  ASSUME NEW r \in Record, NEW b \in BOOLEAN, NEW t \in Nat
  PROVE  AfterSend(r, b, t) \in Record
BY SetConditionType DEF AfterSend, Record

\* A fresh record is one.
LEMMA NewRecordType == NewRecord \in Record
BY DEF NewRecord, Record, Absent, Condition, Status
-----------------------------------------------------------------------------
\* Types, and where a handler is.

\* A step changes the context of one handler at most, and keeps its type.
LEMMA ContextStep ==
  ASSUME TypeOK, JobOK, NEW h \in Handlers
  PROVE  /\ Retrieve(h) => ctx' \in [Handlers -> Context]
         /\ Claim(h) => ctx' \in [Handlers -> Context]
         /\ Conflict(h) => ctx' \in [Handlers -> Context]
         /\ \A a \in Alerts, f \in BOOLEAN : Begin(h, a, f) => ctx' \in [Handlers -> Context]
         /\ \A sent \in BOOLEAN : Send(h, sent) => ctx' \in [Handlers -> Context]
         /\ Leave(h) => ctx' \in [Handlers -> Context]
<1>1. ctx \in [Handlers -> Context] /\ ctx[h] \in Context
  BY DEF TypeOK
<1>2. ASSUME NEW c \in Context
      PROVE  [ctx EXCEPT ![h] = c] \in [Handlers -> Context]
  BY <1>1
<1>3. ASSUME Retrieve(h)
      PROVE  ctx' \in [Handlers -> Context]
  <2> DEFINE r == rec[Notification(h)]
  <2>1. r \in Record /\ Holds(r.firing) \in BOOLEAN
    BY <1>3 DEF Retrieve, TypeOK, JobOK, Holds
  <2>2. [ctx[h] EXCEPT !.rec = r, !.wasFiring = Holds(r.firing)] \in Context
    BY <1>1, <2>1, Zenon DEF Context
  <2> QED  BY <1>2, <1>3, <2>2 DEF Retrieve
<1>4. ASSUME Claim(h)
      PROVE  ctx' \in [Handlers -> Context]
  <2>1. Observed(h) \in Record /\ now \in 0 .. MaxTime /\ 0 \in 0 .. Steps
    <3>1. pc[h] = "update"
      BY <1>4 DEF Claim
    <3>2. ctx[h].rec \in Record /\ job[h].firing \in BOOLEAN /\ now \in 0 .. MaxTime
      BY <1>1, <3>1 DEF TypeOK, JobOK, Context
    <3> QED  BY <3>2, AfterAlertType, ReceiverAssumption DEF Observed
  <2>2. [ctx[h] EXCEPT !.rec = Observed(h), !.tries = 0, !.claimedAt = now] \in Context
    BY <1>1, <2>1, Zenon DEF Context
  <2> QED  BY <1>2, <1>4, <2>2 DEF Claim
<1>5. ASSUME NEW t \in 0 .. Steps
      PROVE  [ctx EXCEPT ![h].tries = t] \in [Handlers -> Context]
  <2>1. [ctx[h] EXCEPT !.tries = t] \in Context
    BY <1>1, Zenon DEF Context
  <2> QED  BY <1>2, <2>1
<1>6. Leave(h) => ctx' \in [Handlers -> Context]
  <2>1. NoCtx \in Context
    BY NewRecordType, ReceiverAssumption DEF NoCtx, Context
  <2> QED  BY <1>2, <2>1 DEF Leave
<1>7. ASSUME Conflict(h)
      PROVE  ctx' \in [Handlers -> Context]
  <2>1. CASE ctx[h].tries > 1
    <3>1. ctx[h].tries - 1 \in 0 .. Steps
      <4>1. ctx[h].tries \in 0 .. Steps /\ Steps \in Nat
        BY <1>1, ReceiverAssumption DEF Context
      <4> QED  BY <2>1, <4>1
    <3>2. ctx' = [ctx EXCEPT ![h].tries = ctx[h].tries - 1]
      BY <1>7, <2>1 DEF Conflict
    <3> QED  BY <1>5, <3>1, <3>2
  <2>2. CASE ~(ctx[h].tries > 1)
    BY <1>6, <1>7, <2>2 DEF Conflict
  <2> QED  BY <2>1, <2>2
<1>8. ASSUME NEW a \in Alerts, NEW f \in BOOLEAN, Begin(h, a, f)
      PROVE  ctx' \in [Handlers -> Context]
  <2>1. Steps \in 0 .. Steps
    BY ReceiverAssumption
  <2> QED  BY <1>5, <1>8, <2>1 DEF Begin
<1>9. ASSUME NEW sent \in BOOLEAN, Send(h, sent)
      PROVE  ctx' \in [Handlers -> Context]
  <2>1. [ctx[h] EXCEPT !.sent = sent] \in Context
    BY <1>1, Zenon DEF Context
  <2> QED  BY <1>2, <1>9, <2>1 DEF Send
<1> QED
  BY <1>3, <1>4, <1>6, <1>7, <1>8, <1>9

\* A conflict sends the handler back to read, or out of processAlert.
LEMMA ConflictCases ==
  ASSUME NEW h \in Handlers, Conflict(h)
  PROVE  /\ pc[h] = "update"
         /\ UNCHANGED <<now, rec, current, failing>>
         /\ \/ Leave(h)
            \/ pc' = [pc EXCEPT ![h] = "retrieve"] /\ todo' = todo /\ job' = job
<1>1. pc[h] = "update"
  BY Zenon DEF Conflict
<1>2. UNCHANGED <<now, rec, current, failing>>
  BY Zenon DEF Conflict
<1>3. ASSUME ctx[h].tries > 1
      PROVE  pc' = [pc EXCEPT ![h] = "retrieve"] /\ todo' = todo /\ job' = job
  BY <1>3, Zenon DEF Conflict
<1>4. ASSUME ~(ctx[h].tries > 1)
      PROVE  Leave(h)
  BY <1>4, Zenon DEF Conflict
<1> QED
  BY <1>1, <1>2, <1>3, <1>4

\* Taking an alert leaves a batch of alerts.
LEMMA TakeType ==
  ASSUME TypeOK, NEW h \in Handlers, NEW a \in Alerts, NEW f \in BOOLEAN, Take(h, a, f)
  PROVE  todo' \in [Handlers -> [firing : SUBSET Alerts, resolved : SUBSET Alerts]]
<1> DEFINE Batch == [firing : SUBSET Alerts, resolved : SUBSET Alerts]
<1>1. todo \in [Handlers -> Batch] /\ todo[h] \in Batch
  BY DEF TypeOK
<1>2. ASSUME NEW b \in Batch
      PROVE  [todo EXCEPT ![h] = b] \in [Handlers -> Batch]
  BY <1>1
<1>3. todo[h].firing \ {a} \in SUBSET Alerts /\ todo[h].resolved \ {a} \in SUBSET Alerts
  BY <1>1
<1>4. CASE f
  <2>1. [todo[h] EXCEPT !.firing = todo[h].firing \ {a}] \in Batch
    BY <1>1, <1>3, Zenon
  <2>2. todo' = [todo EXCEPT ![h].firing = todo[h].firing \ {a}]
    BY <1>4, Zenon DEF Take
  <2> QED  BY <1>2, <2>1, <2>2
<1>5. CASE ~f
  <2>1. [todo[h] EXCEPT !.resolved = todo[h].resolved \ {a}] \in Batch
    BY <1>1, <1>3, Zenon
  <2>2. todo' = [todo EXCEPT ![h].resolved = todo[h].resolved \ {a}]
    BY <1>5, Zenon DEF Take
  <2> QED  BY <1>2, <2>1, <2>2
<1> QED
  BY <1>4, <1>5

\* A step keeps the types and what is known of the alert in hand.
LEMMA TypeStep == TypeOK /\ JobOK /\ [Next]_vars => TypeOK' /\ JobOK'
<1> SUFFICES ASSUME TypeOK, JobOK, [Next]_vars
             PROVE  TypeOK' /\ JobOK'
  OBVIOUS
<1> USE ReceiverAssumption
<1> USE DEF TypeOK, JobOK, Notification, vars, agent
<1>1. CASE Tick
  BY <1>1 DEF Tick
<1>2. CASE Crash
  BY <1>2, NewRecordType DEF Crash, NoTodo, NoJob, NoCtx, Context
<1>3. ASSUME NEW h \in Handlers, NEW request \in Requests, Receive(h, request)
      PROVE  TypeOK' /\ JobOK'
  BY <1>3 DEF Receive
<1>4. ASSUME NEW h \in Handlers, NEW a \in Alerts, NEW f \in BOOLEAN,
             Reject(h, a, f) \/ Begin(h, a, f)
      PROVE  TypeOK' /\ JobOK'
  <2>1. todo' \in [Handlers -> [firing : SUBSET Alerts, resolved : SUBSET Alerts]]
    BY <1>4, TakeType DEF Reject, Begin
  <2>2. CASE Reject(h, a, f)
    BY <2>1, <2>2 DEF Reject
  <2>3. CASE Begin(h, a, f)
    <3>1. /\ NotificationOf[a] \in Notifications
          /\ pc' = [pc EXCEPT ![h] = "retrieve"]
          /\ job' = [job EXCEPT ![h] = [alert |-> a, firing |-> f]]
          /\ UNCHANGED <<now, rec, current, failing>>
      BY <2>3 DEF Begin
    <3> QED  BY <2>1, <2>3, <3>1, ContextStep
  <2> QED  BY <1>4, <2>2, <2>3
<1>5. ASSUME NEW h \in Handlers, Retrieve(h)
      PROVE  TypeOK' /\ JobOK'
  <2>1. /\ pc[h] = "retrieve"
        /\ current' = current \cup {h}
        /\ pc' = [pc EXCEPT ![h] = "update"]
        /\ UNCHANGED <<now, rec, failing, todo, job>>
    BY <1>5 DEF Retrieve
  <2> QED  BY <1>5, <2>1, ContextStep
<1>6. ASSUME NEW h \in Handlers, pc[h] \in {"update", "record"}
      PROVE  Observed(h) \in Record /\ Outcome(h) \in Record
  <2>1. ctx[h].rec \in Record /\ ctx[h].sent \in BOOLEAN /\ job[h].firing \in BOOLEAN
    BY <1>6 DEF Context
  <2> QED  BY <2>1, AfterAlertType, AfterSendType DEF Observed, Outcome
<1>6a. ASSUME NEW h \in Handlers, pc[h] \in {"update", "record"},
              Write(h, Observed(h)) \/ Write(h, Outcome(h))
       PROVE  rec' \in [Notifications -> Record]
  <2>1. PICK r \in Record : rec' = [rec EXCEPT ![Notification(h)] = r]
    BY <1>6, <1>6a, Zenon DEF Write
  <2> QED  BY <2>1
<1>7. ASSUME NEW h \in Handlers, Leave(h)
      PROVE  /\ pc' \in [Handlers -> {"idle", "next", "retrieve", "update", "send", "record"}]
             /\ job' \in [Handlers -> [alert : Alerts, firing : BOOLEAN] \cup {NoJob}]
             /\ ctx' \in [Handlers -> Context]
             /\ todo' = todo
             /\ JobOK'
  <2>1. /\ pc' = [pc EXCEPT ![h] = "next"]
        /\ job' = [job EXCEPT ![h] = NoJob]
        /\ todo' = todo
    BY <1>7 DEF Leave
  <2>2. pc' \in [Handlers -> {"idle", "next", "retrieve", "update", "send", "record"}]
    BY <2>1
  <2>3. job' \in [Handlers -> [alert : Alerts, firing : BOOLEAN] \cup {NoJob}]
    BY <2>1
  <2>4. \A g \in Handlers \ {h} : pc'[g] = pc[g] /\ job'[g] = job[g]
    BY <2>1
  <2>5. JobOK'
    BY <2>1, <2>4
  <2> QED  BY <1>7, <2>1, <2>2, <2>3, <2>5, ContextStep
<1>8. ASSUME NEW h \in Handlers, Claim(h)
      PROVE  TypeOK' /\ JobOK'
  <2>1. /\ pc[h] = "update"
        /\ rec' = [rec EXCEPT ![Notification(h)] = Observed(h)]
        /\ current' \subseteq current
        /\ pc' = [pc EXCEPT ![h] = "send"]
        /\ UNCHANGED <<now, failing, todo, job>>
    BY <1>8 DEF Claim, Write
  <2> QED  BY <1>6, <1>8, <2>1, ContextStep
<1>9. ASSUME NEW h \in Handlers, Decline(h)
      PROVE  TypeOK' /\ JobOK'
  <2>1. /\ pc[h] = "update" /\ Leave(h) /\ Write(h, Observed(h))
        /\ current' \subseteq Handlers /\ failing' \subseteq Alerts /\ now' = now
    BY <1>9 DEF Decline
  <2>2. rec' \in [Notifications -> Record]
    BY <1>6a, <2>1
  <2> QED  BY <1>7, <2>1, <2>2
<1>10. ASSUME NEW h \in Handlers, Conflict(h)
       PROVE  TypeOK' /\ JobOK'
  <2>1. /\ pc[h] = "update"
        /\ UNCHANGED <<now, rec, current, failing>>
        /\ \/ Leave(h)
           \/ pc' = [pc EXCEPT ![h] = "retrieve"] /\ todo' = todo /\ job' = job
    BY <1>10, ConflictCases
  <2> QED  BY <1>7, <1>10, <2>1, ContextStep
<1>11. ASSUME NEW h \in Handlers, GiveUp(h)
       PROVE  TypeOK' /\ JobOK'
  <2>1. /\ Leave(h)
        /\ current' \subseteq Handlers
        /\ UNCHANGED <<now, failing>>
    BY <1>11 DEF GiveUp
  <2>2. rec' \in [Notifications -> Record]
    <3>1. CASE UNCHANGED rec
      BY <3>1
    <3>2. CASE pc[h] = "update" /\ Write(h, Observed(h))
      BY <1>6a, <3>2
    <3> QED  BY <1>11, <3>1, <3>2 DEF GiveUp
  <2> QED  BY <1>7, <2>1, <2>2
<1>12. ASSUME NEW h \in Handlers, NEW sent \in BOOLEAN, Send(h, sent)
       PROVE  TypeOK' /\ JobOK'
  <2>1. /\ pc[h] = "send"
        /\ pc' = [pc EXCEPT ![h] = "record"]
        /\ UNCHANGED <<now, rec, current, failing, todo, job>>
    BY <1>12 DEF Send
  <2> QED  BY <1>12, <2>1, ContextStep
<1>13. ASSUME NEW h \in Handlers, RecordSent(h) \/ SkipRecord(h)
       PROVE  TypeOK' /\ JobOK'
  <2>1. pc[h] = "record" /\ Leave(h) /\ Measure(h) /\ current' \subseteq Handlers
    BY <1>13 DEF RecordSent, SkipRecord
  <2>2. failing' \subseteq Alerts
    BY <2>1 DEF Measure
  <2>3. now' \in 0 .. MaxTime /\ rec' \in [Notifications -> Record]
    <3>1. now' = now /\ (rec' = rec \/ Write(h, Outcome(h)))
      BY <1>13, Zenon DEF RecordSent, SkipRecord
    <3>2. CASE rec' = rec
      BY <3>1, <3>2
    <3>3. CASE Write(h, Outcome(h))
      BY <1>6a, <2>1, <3>1, <3>3
    <3> QED  BY <3>1, <3>2, <3>3
  <2> QED  BY <1>7, <2>1, <2>2, <2>3
<1>14. ASSUME NEW h \in Handlers, Reply(h)
       PROVE  TypeOK' /\ JobOK'
  BY <1>14 DEF Reply
<1>15. CASE UNCHANGED vars
  BY <1>15
<1> QED
  BY <1>1, <1>2, <1>3, <1>4, <1>5, <1>8, <1>9, <1>10, <1>11, <1>12, <1>13, <1>14, <1>15
  DEF Next, Step

-----------------------------------------------------------------------------
\* The copies and the conditions.

\* Observing an alert now keeps a record ordered.
LEMMA AfterAlertOrdered ==
  ASSUME now \in Nat, NEW r \in Record, NEW b \in BOOLEAN, Ordered(r)
  PROVE  Ordered(AfterAlert(r, b, now))
BY DEF Ordered, AfterAlert, SetCondition, Record, Condition, Status, Holds, Present

\* Recording an outcome now keeps a record ordered.
LEMMA AfterSendOrdered ==
  ASSUME now \in Nat, NEW r \in Record, NEW b \in BOOLEAN, Ordered(r)
  PROVE  Ordered(AfterSend(r, b, now))
BY DEF Ordered, AfterSend, SetCondition, Record, Condition, Status, Holds, Present

\* What a handler with a current copy is about to write is an ordered record.
LEMMA WrittenOrdered ==
  ASSUME Inv, NEW h \in Handlers, UpToDate(h)
  PROVE  /\ Notification(h) \in Notifications
         /\ Ordered(Observed(h))
         /\ Ordered(Outcome(h))
<1> USE DEF Inv, UpToDate
<1>1. pc[h] \in {"update", "send", "record"} /\ ctx[h].rec = rec[Notification(h)]
  BY DEF CopyOK, HasCopy
<1>2. Notification(h) \in Notifications /\ job[h].firing \in BOOLEAN
  BY <1>1 DEF JobOK
<1>3. ctx[h].rec \in Record /\ Ordered(ctx[h].rec) /\ now \in Nat /\ ctx[h].sent \in BOOLEAN
  BY <1>1, <1>2, ReceiverAssumption DEF TypeOK, RecordsOrdered, Context
<1> QED
  BY <1>2, <1>3, AfterAlertOrdered, AfterSendOrdered DEF Observed, Outcome

\* Records stay ordered when the clock does not run backwards.
LEMMA OrderedLater ==
  ASSUME now \in Nat, now' \in Nat, now <= now', NEW r \in Record, Ordered(r)
  PROVE  Ordered(r)'
BY DEF Ordered, Record, Condition

\* What h may change: its own handler state, whose copies it outdates, and one record, which
\* it leaves ordered.
Disturbs(h) ==
  /\ now' = now
  /\ \A g \in Handlers \ {h} : pc'[g] = pc[g] /\ job'[g] = job[g] /\ ctx'[g] = ctx[g]
  /\ \A g \in current' \ {h} : g \in current /\ rec'[Notification(g)] = rec[Notification(g)]
  /\ \A n \in Notifications : Ordered(rec'[n])

\* A write spares the copies it does not outdate, and an ordered record keeps all ordered.
LEMMA WriteDisturbs ==
  ASSUME Inv, NEW h \in Handlers, UpToDate(h), NEW r, Ordered(r), Write(h, r)
  PROVE  /\ \A g \in (current \ Outdated(h, r)) \ {h} :
              rec'[Notification(g)] = rec[Notification(g)]
         /\ \A n \in Notifications : Ordered(rec'[n])
<1> USE DEF Inv
<1>1. Notification(h) \in Notifications /\ rec \in [Notifications -> Record]
  BY WrittenOrdered DEF TypeOK
<1>2. rec' = [rec EXCEPT ![Notification(h)] = r]
  BY DEF Write
<1>3. ASSUME NEW g \in (current \ Outdated(h, r)) \ {h}
      PROVE  rec'[Notification(g)] = rec[Notification(g)]
  <2>1. r = rec[Notification(h)] \/ Notification(g) # Notification(h)
    BY <1>3 DEF Outdated
  <2>2. Notification(g) \in Notifications
    BY <1>3 DEF CopyOK, HasCopy, JobOK, TypeOK
  <2> QED  BY <1>1, <1>2, <2>1, <2>2
<1>4. \A n \in Notifications : Ordered(rec'[n])
  BY <1>1, <1>2 DEF RecordsOrdered
<1> QED  BY <1>3, <1>4

\* Every step of a handler is confined so.
LEMMA StepDisturbs ==
  ASSUME Inv, NEW h \in Handlers, Step(h) \/ \E request \in Requests : Receive(h, request)
  PROVE  Disturbs(h)
<1> USE DEF Disturbs
<1>1. /\ \A n \in Notifications : Ordered(rec[n])
      /\ DOMAIN pc = Handlers /\ DOMAIN job = Handlers /\ ctx \in [Handlers -> Context]
  BY DEF Inv, RecordsOrdered, TypeOK
<1>2. Leave(h) => \A g \in Handlers \ {h} : pc'[g] = pc[g] /\ job'[g] = job[g] /\ ctx'[g] = ctx[g]
  BY <1>1 DEF Leave
<1>3. ASSUME NEW request \in Requests, Receive(h, request)
      PROVE  Disturbs(h)
  BY <1>1, <1>3 DEF Receive
<1>4. ASSUME NEW a \in Alerts, NEW f \in BOOLEAN, Reject(h, a, f) \/ Begin(h, a, f)
      PROVE  Disturbs(h)
  BY <1>1, <1>4, Zenon DEF Reject, Begin
<1>5. CASE Retrieve(h)
  BY <1>1, <1>5, Zenon DEF Retrieve
<1>6. CASE Claim(h)
  <2>1. UpToDate(h) /\ Write(h, Observed(h))
    BY <1>6, Zenon DEF Claim
  <2> QED  BY <1>1, <1>6, <2>1, WrittenOrdered, WriteDisturbs, Zenon DEF Claim
<1>7. CASE Decline(h)
  <2>1. UpToDate(h) /\ Write(h, Observed(h))
    BY <1>7 DEF Decline
  <2> QED  BY <1>2, <1>7, <2>1, WrittenOrdered, WriteDisturbs DEF Decline
<1>8. CASE Conflict(h)
  <2>1. CASE ctx[h].tries > 1
    BY <1>1, <1>8, <2>1, Zenon DEF Conflict
  <2>2. CASE ~(ctx[h].tries > 1)
    BY <1>1, <1>2, <1>8, <2>2, Zenon DEF Conflict
  <2> QED  BY <2>1, <2>2
<1>9. CASE GiveUp(h)
  <2>1. Leave(h) /\ now' = now
    BY <1>9 DEF GiveUp
  <2>2. CASE UNCHANGED rec /\ current' = current \ {h}
    BY <1>1, <1>2, <2>1, <2>2
  <2>3. CASE /\ UpToDate(h) /\ Write(h, Observed(h))
             /\ current' = (current \ Outdated(h, Observed(h))) \ {h}
    BY <1>2, <2>1, <2>3, WrittenOrdered, WriteDisturbs
  <2> QED  BY <1>9, <2>2, <2>3 DEF GiveUp
<1>10. ASSUME NEW sent \in BOOLEAN, Send(h, sent)
       PROVE  Disturbs(h)
  BY <1>1, <1>10, Zenon DEF Send
<1>11. CASE RecordSent(h)
  <2>1. UpToDate(h) /\ Write(h, Outcome(h))
    BY <1>11 DEF RecordSent
  <2> QED  BY <1>2, <1>11, <2>1, WrittenOrdered, WriteDisturbs DEF RecordSent
<1>12. CASE SkipRecord(h)
  BY <1>1, <1>2, <1>12 DEF SkipRecord
<1>13. CASE Reply(h)
  BY <1>1, <1>13 DEF Reply
<1> QED
  BY <1>3, <1>4, <1>5, <1>6, <1>7, <1>8, <1>9, <1>10, <1>11, <1>12, <1>13 DEF Step

\* The handler that made the step has a current copy only if it has just read or written it.
LEMMA OwnCopy ==
  ASSUME Inv, NEW h \in Handlers, Step(h) \/ \E request \in Requests : Receive(h, request),
         h \in current'
  PROVE  HasCopy(h)'
<1>1. /\ h \in current => HasCopy(h)
      /\ ctx \in [Handlers -> Context] /\ DOMAIN pc = Handlers
      /\ rec \in [Notifications -> Record]
  BY DEF Inv, CopyOK, TypeOK
<1>2. CASE Retrieve(h)
  <2>1. /\ pc[h] = "retrieve" /\ job' = job /\ rec' = rec
        /\ pc' = [pc EXCEPT ![h] = "update"]
    BY <1>2, Zenon DEF Retrieve
  <2>2. /\ ctx'[h].rec = rec[Notification(h)]
        /\ ctx'[h].wasFiring = Holds(rec[Notification(h)].firing)
    BY <1>1, <1>2, Zenon DEF Retrieve, Context
  <2> QED  BY <1>1, <2>1, <2>2 DEF HasCopy, Notification
<1>3. CASE Claim(h)
  <2>1. /\ UpToDate(h) /\ job' = job /\ pc' = [pc EXCEPT ![h] = "send"]
        /\ rec' = [rec EXCEPT ![Notification(h)] = Observed(h)]
    BY <1>3, Zenon DEF Claim, Write
  <2>2. ctx'[h].rec = Observed(h)
    BY <1>1, <1>3, Zenon DEF Claim, Context
  <2> QED  BY <1>1, <2>1, <2>2, WrittenOrdered DEF HasCopy, Notification
<1>4. ASSUME NEW sent \in BOOLEAN, Send(h, sent)
      PROVE  HasCopy(h)'
  <2>1. /\ pc[h] = "send" /\ pc' = [pc EXCEPT ![h] = "record"]
        /\ UNCHANGED <<rec, current, job>>
    BY <1>4, Zenon DEF Send
  <2>2. ctx'[h].rec = ctx[h].rec
    BY <1>1, <1>4, Zenon DEF Send, Context
  <2> QED  BY <1>1, <2>1, <2>2 DEF HasCopy, Notification
<1>5. ASSUME ~Retrieve(h), ~Claim(h), \A sent \in BOOLEAN : ~Send(h, sent)
      PROVE  FALSE
  <2>1. h \in current /\ pc[h] \notin {"update", "send", "record"}
    BY <1>5, Zenon DEF Step, Receive, Reject, Begin, Take, Decline, Conflict, UpToDate, GiveUp,
                RecordSent, SkipRecord, Reply
  <2> QED  BY <1>1, <2>1 DEF HasCopy
<1> QED
  BY <1>2, <1>3, <1>4, <1>5

\* A step keeps the copies and the order.
LEMMA CopyStep == Inv /\ [Next]_vars => CopyOK' /\ RecordsOrdered'
<1> SUFFICES ASSUME Inv, [Next]_vars
             PROVE  CopyOK' /\ RecordsOrdered'
  OBVIOUS
<1>1. TypeOK /\ CopyOK /\ RecordsOrdered /\ TypeOK'
  BY TypeStep DEF Inv
<1>2. now \in Nat /\ now' \in Nat /\ rec \in [Notifications -> Record]
  BY <1>1, ReceiverAssumption DEF TypeOK
<1>3. CASE Tick
  <2>1. CopyOK'
    BY <1>1, <1>3 DEF Tick, agent, CopyOK, HasCopy, Notification
  <2>2. ASSUME NEW n \in Notifications
        PROVE  Ordered(rec[n])'
    <3>1. now <= now' /\ rec' = rec
      BY <1>2, <1>3 DEF Tick
    <3> QED  BY <1>1, <1>2, <3>1, OrderedLater DEF RecordsOrdered
  <2> QED  BY <2>1, <2>2 DEF RecordsOrdered
<1>4. CASE Crash
  BY <1>1, <1>4 DEF Crash, CopyOK, RecordsOrdered, Ordered
<1>5. ASSUME NEW h \in Handlers, Step(h) \/ \E request \in Requests : Receive(h, request)
      PROVE  CopyOK' /\ RecordsOrdered'
  <2>1. Disturbs(h)
    BY <1>5, StepDisturbs
  <2>2. RecordsOrdered'
    BY <2>1 DEF Disturbs, RecordsOrdered, Ordered
  <2>3. ASSUME NEW g \in current'
        PROVE  HasCopy(g)'
    <3>1. CASE g = h
      BY <1>5, <2>3, <3>1, OwnCopy
    <3>2. CASE g # h
      <4>1. g \in current /\ g \in Handlers
        BY <1>1, <2>1, <2>3, <3>2 DEF Disturbs, TypeOK
      <4> QED  BY <1>1, <2>1, <2>3, <3>2, <4>1 DEF Disturbs, CopyOK, HasCopy, Notification
    <3> QED  BY <3>1, <3>2
  <2> QED  BY <2>2, <2>3 DEF CopyOK
<1>6. CASE UNCHANGED vars
  BY <1>1, <1>6 DEF vars, agent, CopyOK, HasCopy, Notification, RecordsOrdered, Ordered
<1> QED
  BY <1>3, <1>4, <1>5, <1>6 DEF Next

-----------------------------------------------------------------------------

\* Init starts in the invariant.
LEMMA InitInv == Init => Inv
<1> SUFFICES ASSUME Init
             PROVE  Inv
  OBVIOUS
<1>1. TypeOK
  BY NewRecordType, ReceiverAssumption DEF Init, TypeOK, NoTodo, NoJob, NoCtx, Context
<1>2. JobOK /\ CopyOK
  BY DEF Init, JobOK, CopyOK
<1>3. RecordsOrdered
  <2>1. now = 0 /\ \A n \in Notifications : rec[n] = NewRecord
    BY DEF Init
  <2>2. Ordered(NewRecord)
    BY <2>1 DEF Ordered, NewRecord, Absent, Present, Holds
  <2> QED  BY <2>1, <2>2 DEF RecordsOrdered
<1> QED  BY <1>1, <1>2, <1>3 DEF Inv

\* Inv holds in every reachable state.
THEOREM Invariance == Spec => []Inv
<1>1. Inv /\ [Next]_vars => Inv'
  BY TypeStep, CopyStep DEF Inv
<1> QED  BY InitInv, <1>1, PTL DEF Spec

\* Every variable keeps its type (see TypeOK).
THEOREM TypeCorrect == Spec => []TypeOK
BY Invariance, PTL DEF Inv

\* However many requests interleave and whatever fails, the conditions of a record are
\* consistent with each other and with the clock (see RecordsOrdered).
THEOREM ConditionsOrdered == Spec => []RecordsOrdered
BY Invariance, PTL DEF Inv

\* A handler whose next update the API server would accept holds the stored record.
THEOREM CopiesCurrent == Spec => []CopyIsCurrent
<1>1. Inv => CopyIsCurrent
  BY DEF Inv, CopyOK, HasCopy, CopyIsCurrent
<1> QED  BY <1>1, Invariance, PTL

-----------------------------------------------------------------------------
\* The steps of a request run out.

\* Taking an alert leaves a smaller batch.
LEMMA TakeShrinks ==
  ASSUME TypeOK, NEW h \in Handlers, NEW a \in Alerts, NEW f \in BOOLEAN, Take(h, a, f)
  PROVE  /\ todo'[h] # todo[h]
         /\ todo'[h].firing \subseteq todo[h].firing
         /\ todo'[h].resolved \subseteq todo[h].resolved
<1>1. todo[h] \in [firing : SUBSET Alerts, resolved : SUBSET Alerts] /\ DOMAIN todo = Handlers
  BY DEF TypeOK
<1>2. CASE f
  <2> DEFINE b == [todo[h] EXCEPT !.firing = todo[h].firing \ {a}]
  <2>1. a \in todo[h].firing /\ todo' = [todo EXCEPT ![h] = b]
    BY <1>2, Zenon DEF Take
  <2>2. b.firing = todo[h].firing \ {a} /\ b.resolved = todo[h].resolved
    BY <1>1
  <2>3. todo'[h] = b
    BY <1>1, <2>1
  <2> QED BY <2>1, <2>2, <2>3
<1>3. CASE ~f
  <2> DEFINE b == [todo[h] EXCEPT !.resolved = todo[h].resolved \ {a}]
  <2>1. a \in todo[h].resolved /\ todo' = [todo EXCEPT ![h] = b]
    BY <1>3, Zenon DEF Take
  <2>2. b.firing = todo[h].firing /\ b.resolved = todo[h].resolved \ {a}
    BY <1>1
  <2>3. todo'[h] = b
    BY <1>1, <2>1
  <2> QED BY <2>1, <2>2, <2>3
<1> QED BY <1>2, <1>3

\* What a handler that keeps its batch has ahead.
LEMMA AheadStep ==
  ASSUME TypeOK, NEW h \in Handlers, Step(h),
         \A a \in Alerts, f \in BOOLEAN : ~(Reject(h, a, f) \/ Begin(h, a, f))
  PROVE  todo'[h] = todo[h] /\ Ahead(h)' < Ahead(h)
<1>1. ctx \in [Handlers -> Context] /\ DOMAIN pc = Handlers /\ ctx[h].tries \in Nat
  BY ReceiverAssumption DEF TypeOK, Context
<1>2. ASSUME NEW p, NEW q, NEW t \in Nat, pc[h] = p, pc'[h] = q, ctx'[h].tries = t,
             \/ /\ t = ctx[h].tries
                /\ <<p, q>> \in {<<"retrieve", "update">>, <<"send", "record">>,
                                 <<"next", "idle">>}
             \/ p = "update" /\ q = "retrieve" /\ t = ctx[h].tries - 1
             \/ p = "update" /\ q = "send" /\ t = 0
             \/ p \in {"retrieve", "update", "record"} /\ q = "next" /\ t = 0
      PROVE  Ahead(h)' < Ahead(h)
  BY <1>1, <1>2 DEF Ahead
<1>3. Leave(h) => pc'[h] = "next" /\ ctx'[h].tries = 0 /\ todo' = todo
  <2>1. NoCtx.tries = 0
    BY DEF NoCtx
  <2> QED BY <1>1, <2>1 DEF Leave
<1>4. CASE Retrieve(h)
  <2>1. pc[h] = "retrieve" /\ pc'[h] = "update" /\ todo' = todo
    BY <1>1, <1>4, Zenon DEF Retrieve
  <2>2. ctx'[h].tries = ctx[h].tries
    BY <1>1, <1>4, Zenon DEF Retrieve, Context
  <2> QED BY <1>1, <1>2, <2>1, <2>2
<1>5. CASE Claim(h)
  <2>1. pc[h] = "update" /\ pc'[h] = "send" /\ todo' = todo
    BY <1>1, <1>5, Zenon DEF Claim
  <2>2. ctx'[h].tries = 0
    BY <1>1, <1>5, Zenon DEF Claim, Context
  <2> QED BY <1>2, <2>1, <2>2
<1>6. CASE Decline(h) \/ GiveUp(h) \/ RecordSent(h) \/ SkipRecord(h)
  <2>1. Leave(h) /\ pc[h] \in {"retrieve", "update", "record"}
    BY <1>6, Zenon DEF Decline, GiveUp, RecordSent, SkipRecord
  <2> QED BY <1>2, <1>3, <2>1
<1>7. CASE Conflict(h)
  <2>1. pc[h] = "update"
    BY <1>7, ConflictCases
  <2>2. CASE ~(ctx[h].tries > 1)
    <3>1. Leave(h)
      BY <1>7, <2>2, Zenon DEF Conflict
    <3> QED BY <1>2, <1>3, <2>1, <3>1
  <2>3. CASE ctx[h].tries > 1
    <3>1. pc' = [pc EXCEPT ![h] = "retrieve"] /\ todo' = todo
      BY <1>7, <2>3, Zenon DEF Conflict
    <3>2. ctx' = [ctx EXCEPT ![h].tries = ctx[h].tries - 1]
      BY <1>7, <2>3, Zenon DEF Conflict
    <3>3. ctx'[h].tries = ctx[h].tries - 1
      BY <1>1, <3>2 DEF Context
    <3> QED BY <1>1, <1>2, <2>1, <2>3, <3>1, <3>3
  <2> QED BY <2>2, <2>3
<1>8. ASSUME NEW sent \in BOOLEAN, Send(h, sent)
      PROVE  todo'[h] = todo[h] /\ Ahead(h)' < Ahead(h)
  <2>1. pc[h] = "send" /\ pc'[h] = "record" /\ todo' = todo
    BY <1>1, <1>8, Zenon DEF Send
  <2>2. ctx'[h].tries = ctx[h].tries
    BY <1>1, <1>8, Zenon DEF Send, Context
  <2> QED BY <1>1, <1>2, <2>1, <2>2
<1>9. CASE Reply(h)
  <2>1. pc[h] = "next" /\ pc'[h] = "idle" /\ todo' = todo /\ ctx' = ctx
    BY <1>1, <1>9, Zenon DEF Reply
  <2> QED BY <1>1, <1>2, <2>1
<1> QED BY <1>4, <1>5, <1>6, <1>7, <1>8, <1>9, Zenon DEF Step

\* Whatever conflicts, and whoever else is at work, the steps of a request run out: the safety
\* that RequestCompletes rests on.
THEOREM RequestStepsRunOut == Spec => StepsRunOut
<1> DEFINE Closer(h) ==
      \/ /\ todo'[h] # todo[h]
         /\ todo'[h].firing \subseteq todo[h].firing
         /\ todo'[h].resolved \subseteq todo[h].resolved
      \/ todo'[h] = todo[h] /\ Ahead(h)' < Ahead(h)
<1>1. ASSUME TypeOK, NEW h \in Handlers, Step(h)
      PROVE  Closer(h)
  <2>1. ASSUME NEW a \in Alerts, NEW f \in BOOLEAN, Reject(h, a, f) \/ Begin(h, a, f)
        PROVE  Closer(h)
    <3>1. Take(h, a, f)
      BY <2>1, Zenon DEF Reject, Begin
    <3> QED BY <1>1, <3>1, TakeShrinks
  <2> QED BY <1>1, <2>1, AheadStep
<1>2. TypeOK /\ [Next]_vars => [\A h \in Handlers : Step(h) => Closer(h)]_vars
  BY <1>1
<1>3. Spec => [][\A h \in Handlers : Step(h) => Closer(h)]_vars
  BY <1>2, TypeCorrect, PTL DEF Spec
<1> QED BY <1>3 DEF StepsRunOut
=============================================================================
