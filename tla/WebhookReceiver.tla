--------------------------- MODULE WebhookReceiver ---------------------------
(***************************************************************************)
(* The classic (single cluster) webhook of pkg/handlers/webhookreceiver.go *)
(* One handler per Alertmanager request in flight; handlers share nothing  *)
(* but the ManagedNotification objects of the API server, each of which    *)
(* bundles the records of several notifications, and the OCM service.      *)
(*                                                                         *)
(* Every Get and Status().Update is one step, and so is the OCM call, for  *)
(* steps of other handlers fall between them.  A resourceVersion is        *)
(* abstracted by the set `current' of the handlers whose copy of the       *)
(* object is still its latest version.                                     *)
(***************************************************************************)
EXTENDS NotificationRecord

CONSTANTS
  Handlers,        \* the requests that may be in flight at once
  Alerts,          \* alerts Alertmanager may deliver
  NotificationOf,  \* the template an alert names; outside Notifications when it
                   \* is invalid, or no ManagedNotification has that template
  BundleOf,        \* the ManagedNotification object that holds a template
  Requests,        \* the batches [firing, resolved] of alerts a request may carry
  Steps,           \* attempts of retry.RetryOnConflict (5 in retry.DefaultRetry)
  MaxSendTime,     \* the longest a service log may take, claim to record
  MaxTime,         \* bound on the clock
  Faults           \* what may go wrong: "apiError", "ocmError", "lostResponse", "crash"

ASSUME ReceiverAssumption ==
  /\ Requests \subseteq [firing : SUBSET Alerts, resolved : SUBSET Alerts]
  /\ NotificationOf \in [Alerts -> Notifications \cup {"unmapped"}]
  /\ {"none", "unmapped"} \cap Notifications = {}
  /\ DOMAIN BundleOf = Notifications
  /\ Steps \in Nat \ {0}
  /\ MaxTime \in Nat
  /\ MaxSendTime \in Nat /\ MaxSendTime < InFlightWindow

VARIABLES
  now,      \* the wall clock
  rec,      \* the record of each notification, as the API server holds it
  current,  \* the handlers whose copy has the latest resourceVersion
  failing,  \* the alerts whose ocm_agent_response_failure gauge is 1
  pc, todo, job, ctx  \* per handler: where it is, alerts left, alert in hand,
                      \* and its notificationContext

agent == <<current, pc, todo, job, ctx>>
vars == <<now, rec, failing, agent>>

NoJob == [alert |-> "none", firing |-> FALSE]
NoCtx == [rec |-> NewRecord, wasFiring |-> FALSE, tries |-> 0,
          claimedAt |-> 0, sent |-> FALSE]
NoTodo == [firing |-> {}, resolved |-> {}]

Notification(h) == NotificationOf[job[h].alert]

Init ==
  /\ now = 0
  /\ rec = [n \in Notifications |-> NewRecord]
  /\ current = {}
  /\ failing = {}
  /\ pc = [h \in Handlers |-> "idle"]
  /\ todo = [h \in Handlers |-> NoTodo]
  /\ job = [h \in Handlers |-> NoJob]
  /\ ctx = [h \in Handlers |-> NoCtx]

-----------------------------------------------------------------------------
\* The request: a batch of alerts, the firing ones first.

\* A request whose ManagedNotification list fails is answered 500 and leaves no
\* trace, so only the others are steps.
Receive(h, request) ==
  /\ pc[h] = "idle"
  /\ pc' = [pc EXCEPT ![h] = "next"]
  /\ todo' = [todo EXCEPT ![h] = request]
  /\ UNCHANGED <<now, rec, current, failing, job, ctx>>

Take(h, a, isFiring) ==
  /\ pc[h] = "next"
  /\ IF isFiring
     THEN /\ a \in todo[h].firing
          /\ todo' = [todo EXCEPT ![h].firing = @ \ {a}]
     ELSE /\ todo[h].firing = {}
          /\ a \in todo[h].resolved
          /\ todo' = [todo EXCEPT ![h].resolved = @ \ {a}]

Reject(h, a, isFiring) ==
  /\ Take(h, a, isFiring)
  /\ NotificationOf[a] \notin Notifications
  /\ UNCHANGED <<now, rec, current, failing, pc, job, ctx>>

Begin(h, a, isFiring) ==
  /\ Take(h, a, isFiring)
  /\ NotificationOf[a] \in Notifications
  /\ pc' = [pc EXCEPT ![h] = "retrieve"]
  /\ job' = [job EXCEPT ![h] = [alert |-> a, firing |-> isFiring]]
  /\ ctx' = [ctx EXCEPT ![h].tries = Steps]
  /\ UNCHANGED <<now, rec, current, failing>>

\* The answer is 200 whatever became of the alerts.
Reply(h) ==
  /\ pc[h] = "next"
  /\ todo[h] = NoTodo
  /\ pc' = [pc EXCEPT ![h] = "idle"]
  /\ UNCHANGED <<now, rec, current, failing, todo, job, ctx>>

\* processAlert returns.
Leave(h) ==
  /\ pc' = [pc EXCEPT ![h] = "next"]
  /\ job' = [job EXCEPT ![h] = NoJob]
  /\ ctx' = [ctx EXCEPT ![h] = NoCtx]
  /\ UNCHANGED todo

-----------------------------------------------------------------------------
\* The critical section: read the record, decide, update it; on conflict, again.

Retrieve(h) ==
  /\ pc[h] = "retrieve"
  /\ ctx' = [ctx EXCEPT ![h].rec = rec[Notification(h)],
                        ![h].wasFiring = Holds(rec[Notification(h)].firing)]
  /\ current' = current \cup {h}
  /\ pc' = [pc EXCEPT ![h] = "update"]
  /\ UNCHANGED <<now, rec, failing, todo, job>>

\* Mutant: the updates are not conditional on the resourceVersion that was read.
NeverStale(h) == TRUE

\* The API server accepts an update of the latest version only.
UpToDate(h) == h \in current

\* Status().Update writes the object the handler read, with r as the record of its own
\* notification.  A write that changes something outdates every other copy of the object.
Outdated(h, r) ==
  IF r = rec[Notification(h)] THEN {}
  ELSE {g \in current \ {h} : BundleOf[Notification(g)] = BundleOf[Notification(h)]}

Write(h, r) == rec' = [rec EXCEPT ![Notification(h)] = r]

Decision(h) == CanSend(Notification(h), ctx[h].rec, job[h].firing, now)
Observed(h) == AfterAlert(ctx[h].rec, job[h].firing, now)

\* Mutant: the record that is stored does not reach the handler's own copy.
ClaimKeepsCopy(h) ==
  /\ pc[h] = "update"
  /\ UpToDate(h)
  /\ Decision(h)
  /\ Write(h, Observed(h))
  /\ current' = current \ Outdated(h, Observed(h))
  /\ pc' = [pc EXCEPT ![h] = "send"]
  /\ ctx' = [ctx EXCEPT ![h].tries = 0, ![h].claimedAt = now]
  /\ UNCHANGED <<now, failing, todo, job>>

Claim(h) ==
  /\ pc[h] = "update"
  /\ UpToDate(h)
  /\ Decision(h)
  /\ Write(h, Observed(h))
  /\ current' = current \ Outdated(h, Observed(h))
  /\ pc' = [pc EXCEPT ![h] = "send"]
  /\ ctx' = [ctx EXCEPT ![h].rec = Observed(h), ![h].tries = 0, ![h].claimedAt = now]
  /\ UNCHANGED <<now, failing, todo, job>>

Decline(h) ==
  /\ pc[h] = "update"
  /\ UpToDate(h)
  /\ ~Decision(h)
  /\ Write(h, Observed(h))
  /\ current' = (current \ Outdated(h, Observed(h))) \ {h}
  /\ failing' = failing \ (IF job[h].firing THEN {job[h].alert} ELSE {})
  /\ Leave(h)
  /\ UNCHANGED now

\* Mutant: the last attempt is not the last.
ConflictOnceMore(h) ==
  /\ pc[h] = "update"
  /\ ~UpToDate(h)
  /\ pc' = [pc EXCEPT ![h] = "retrieve"]
  /\ ctx' = [ctx EXCEPT ![h].tries = @ - 1]
  /\ UNCHANGED <<now, rec, current, failing, todo, job>>

\* Mutant: a conflict does not use up an attempt.
ConflictForever(h) ==
  /\ pc[h] = "update"
  /\ ~UpToDate(h)
  /\ pc' = [pc EXCEPT ![h] = "retrieve"]
  /\ UNCHANGED <<now, rec, current, failing, todo, job, ctx>>

\* The copy is stale: another attempt, or the error of the last one.
Conflict(h) ==
  /\ pc[h] = "update"
  /\ ~UpToDate(h)
  /\ IF ctx[h].tries > 1
     THEN /\ pc' = [pc EXCEPT ![h] = "retrieve"]
          /\ ctx' = [ctx EXCEPT ![h].tries = @ - 1]
          /\ UNCHANGED <<todo, job>>
     ELSE Leave(h)
  /\ UNCHANGED <<now, rec, current, failing>>

\* Any other error of the API server ends the processing of the alert, also when the
\* request was cancelled by its client; an update may have been applied all the same.
GiveUp(h) ==
  /\ pc[h] \in {"retrieve", "update"}
  /\ \/ /\ "apiError" \in Faults
        /\ UNCHANGED rec
        /\ current' = current \ {h}
     \/ /\ "lostResponse" \in Faults
        /\ pc[h] = "update" /\ UpToDate(h)
        /\ Write(h, Observed(h))
        /\ current' = (current \ Outdated(h, Observed(h))) \ {h}
  /\ Leave(h)
  /\ UNCHANGED <<now, failing>>

-----------------------------------------------------------------------------
\* The service log, and its outcome in ServiceLogSent.

\* The service log cannot be built, OCM refuses it, or the answer of OCM is lost: all the
\* same to the handler.
Send(h, sent) ==
  /\ pc[h] = "send"
  /\ sent \/ Faults \cap {"ocmError", "lostResponse"} # {}
  /\ ctx' = [ctx EXCEPT ![h].sent = sent]
  /\ pc' = [pc EXCEPT ![h] = "record"]
  /\ UNCHANGED <<now, rec, current, failing, todo, job>>

\* A failed resend is not recorded.
ToRecord(h) == ctx[h].sent \/ ~job[h].firing \/ ~ctx[h].wasFiring

Outcome(h) == AfterSend(ctx[h].rec, ctx[h].sent, now)

Measure(h) ==
  failing' = IF ctx[h].sent THEN failing \ {job[h].alert}
             ELSE failing \cup {job[h].alert}

RecordSent(h) ==
  /\ pc[h] = "record"
  /\ ToRecord(h)
  /\ UpToDate(h)
  /\ Write(h, Outcome(h))
  /\ current' = (current \ Outdated(h, Outcome(h))) \ {h}
  /\ Measure(h)
  /\ Leave(h)
  /\ UNCHANGED now

\* There is nothing to record, or the update conflicts or fails: it is only logged.
SkipRecord(h) ==
  /\ pc[h] = "record"
  /\ ~ToRecord(h) \/ ~UpToDate(h) \/ "apiError" \in Faults
  /\ current' = current \ {h}
  /\ Measure(h)
  /\ Leave(h)
  /\ UNCHANGED <<now, rec>>

-----------------------------------------------------------------------------

\* A service log does not take longer than MaxSendTime, as the 3 minute window assumes.
Tick ==
  /\ now < MaxTime
  /\ \A h \in Handlers : pc[h] \in {"send", "record"} => now < ctx[h].claimedAt + MaxSendTime
  /\ now' = now + 1
  /\ UNCHANGED <<rec, failing, agent>>

\* The pod dies: the records survive, its requests and metrics do not.
Crash ==
  /\ "crash" \in Faults
  /\ current' = {}
  /\ failing' = {}
  /\ pc' = [h \in Handlers |-> "idle"]
  /\ todo' = [h \in Handlers |-> NoTodo]
  /\ job' = [h \in Handlers |-> NoJob]
  /\ ctx' = [h \in Handlers |-> NoCtx]
  /\ UNCHANGED <<now, rec>>

Step(h) ==
  \/ \E a \in Alerts, isFiring \in BOOLEAN : Reject(h, a, isFiring) \/ Begin(h, a, isFiring)
  \/ Retrieve(h)
  \/ Claim(h)
  \/ Decline(h)
  \/ Conflict(h)
  \/ GiveUp(h)
  \/ \E sent \in BOOLEAN : Send(h, sent)
  \/ RecordSent(h)
  \/ SkipRecord(h)
  \/ Reply(h)

Next ==
  \/ Tick
  \/ Crash
  \/ \E h \in Handlers : Step(h) \/ \E request \in Requests : Receive(h, request)

Spec == Init /\ [][Next]_vars

\* Go runs every goroutine, and the API and OCM clients answer or time out.
FairSpec == Spec /\ \A h \in Handlers : WF_vars(Step(h))

-----------------------------------------------------------------------------

Sending(h) == pc[h] \in {"send", "record"}

Context == [rec : Record, wasFiring : BOOLEAN, tries : 0 .. Steps,
            claimedAt : 0 .. MaxTime, sent : BOOLEAN]

\* Every variable has its type; times lie on the clock.
TypeOK ==
  /\ now \in 0 .. MaxTime
  /\ rec \in [Notifications -> Record]
  /\ current \subseteq Handlers
  /\ failing \subseteq Alerts
  /\ pc \in [Handlers -> {"idle", "next", "retrieve", "update", "send", "record"}]
  /\ todo \in [Handlers -> [firing : SUBSET Alerts, resolved : SUBSET Alerts]]
  /\ job \in [Handlers -> [alert : Alerts, firing : BOOLEAN] \cup {NoJob}]
  /\ ctx \in [Handlers -> Context]

\* Of one record: the two conditions are complementary, AlertFiring toggled no later than
\* the last call AlertResolved remembers, and nothing is stamped in the future.
Ordered(r) ==
  /\ Present(r.firing) <=> Present(r.resolved)
  /\ Present(r.firing) => Holds(r.firing) # Holds(r.resolved)
  /\ r.firing.at <= r.resolved.at
  /\ r.resolved.at <= now
  /\ r.slSent.at <= now

\* However handlers interleave and whatever fails, the two conditions that
\* updateFiringAndResolvedConditions writes together stay consistent: it computes both, with the
\* times of their transitions, from what an earlier request has stored.
RecordsOrdered == \A n \in Notifications : Ordered(rec[n])

\* The optimistic lock works: a handler whose update would be accepted holds the record that
\* is stored, also between its two updates, though other notifications share the object.
CopyIsCurrent == \A h \in current : ctx[h].rec = rec[Notification(h)]

\* The critical section of processAlert is atomic: the two updates and the retries around
\* them implement the ledger that observes an alert, decides and records in one step each.
Granted ==
  [h \in Handlers |->
     IF Sending(h)
     THEN [notification |-> Notification(h), firing |-> job[h].firing, resend |-> ctx[h].wasFiring]
     ELSE [notification |-> "none", firing |-> FALSE, resend |-> FALSE]]

Ledger == INSTANCE AlertLedger WITH grant <- Granted

ImplementsLedger == Ledger!Spec

Claims(h) == pc[h] = "update" /\ pc'[h] = "send"
ClaimsFiring(h) == Claims(h) /\ job[h].firing

\* No handler gets to send for a firing alert while the STORED record says one was sent
\* within resendWait, whenever it read its own copy.
RespectsResendWait ==
  [][\A h \in Handlers : ClaimsFiring(h) =>
       ~WithinResendWait(Notification(h), rec[Notification(h)], now)]_vars

\* A resend is claimed only while no other handler is sending a service log for the same
\* firing notification: what the 3 minute window is for.
ResendsAlone ==
  [][\A h \in Handlers :
       ClaimsFiring(h) /\ ctx[h].wasFiring /\ Present(ctx[h].rec.slSent) =>
         \A g \in Handlers \ {h} :
           ~(Sending(g) /\ job[g].firing /\ Notification(g) = Notification(h))]_vars

\* The steps that h may still take for the alert in hand.
Ahead(h) ==
  2 * ctx[h].tries +
    CASE pc[h] = "retrieve" -> 5
      [] pc[h] = "update" -> 4
      [] pc[h] = "send" -> 3
      [] pc[h] = "record" -> 2
      [] pc[h] = "next" -> 1
      [] pc[h] = "idle" -> 0

\* No request is retried or handed around for ever, were every update to conflict: each step
\* takes an alert off the batch, or leaves fewer ahead for the one in hand.
StepsRunOut ==
  [][\A h \in Handlers : Step(h) =>
       \/ /\ todo'[h] # todo[h]
          /\ todo'[h].firing \subseteq todo[h].firing
          /\ todo'[h].resolved \subseteq todo[h].resolved
       \/ todo'[h] = todo[h] /\ Ahead(h)' < Ahead(h)]_vars

\* Every request is answered: retries are bounded and nothing waits on another handler.
RequestCompletes == \A h \in Handlers : pc[h] # "idle" ~> pc[h] = "idle"
=============================================================================
