------------------------- MODULE WebhookRHOBSReceiver ------------------------
(***************************************************************************)
(* The fleet webhook of pkg/handlers/webhookrhobsreceiver.go: alerts of    *)
(* many hosted clusters, each answered with a service log or with a        *)
(* limited support reason, depending on the template.                      *)
(*                                                                         *)
(* An item is a (management cluster, template, hosted cluster).  Its       *)
(* counters live in the ManagedFleetNotificationRecord of the management   *)
(* cluster and are updated BEFORE the notification is sent; a failed send  *)
(* puts the former values back.  The handlers of a process also share the  *)
(* map rateLimitBackoffs.  As in WebhookReceiver, `current' abstracts the  *)
(* resourceVersions.                                                       *)
(***************************************************************************)
EXTENDS FleetRecord

CONSTANTS
  Handlers,         \* the alerts that may be in processing at once
  RecordOf,         \* the ManagedFleetNotificationRecord that holds an item
  KeyOf,            \* "template:hosted cluster", the key of backoffs and of reasons
  BackoffInterval,  \* rateLimitRetryInterval
  MaxSendTime,      \* the longest a claim stays unsettled (see Tick)
  Steps,            \* attempts of retryConfig (5 in the code)
  MaxTime,          \* bound on the clock
  MaxReasons,       \* bound on the identifiers of limited support reasons
  Faults            \* "apiError", "ocmError", "rateLimit", "lostResponse", "crash"

Records == {RecordOf[i] : i \in Items}
Keys == {KeyOf[i] : i \in Items}

ASSUME FleetAssumption ==
  /\ BackoffInterval \in Nat /\ MaxSendTime \in Nat
  /\ Steps \in Nat \ {0}
  /\ MaxTime \in Nat \ {0} /\ MaxReasons \in Nat
  /\ "none" \notin Items

VARIABLES
  now,      \* the wall clock; 0 is a nil time, so it starts at 1
  rec,      \* the record items, as the API server holds them
  created,  \* the records that exist
  current,  \* the handlers whose copy has the latest resourceVersion
  backoff,  \* rateLimitBackoffs: per key the time of the last 429, 0 if none
  reasons,  \* per key, the limited support reasons OCM holds
  failing,  \* the templates whose ocm_agent_response_failure gauge is 1
  pc, job, ctx  \* per handler: where it is, its alert, its fleetNotificationContext

agent == <<current, backoff, failing, pc, job, ctx>>
vars == <<now, rec, created, reasons, agent>>

NoJob == [item |-> "none", firing |-> FALSE]
NoCtx == [item |-> NoItem, initial |-> NoItem, wasLS |-> FALSE, tries |-> 0,
          start |-> 0, listed |-> {}]

ItemIn(h) == job[h].item
Key(h) == KeyOf[ItemIn(h)]
Template(h) == TemplateOf[ItemIn(h)]

Init ==
  /\ now = 1
  /\ rec = [i \in Items |-> NoItem]
  /\ created = {}
  /\ current = {}
  /\ backoff = [k \in Keys |-> 0]
  /\ reasons = [k \in Keys |-> {}]
  /\ failing = {}
  /\ pc = [h \in Handlers |-> "idle"]
  /\ job = [h \in Handlers |-> NoJob]
  /\ ctx = [h \in Handlers |-> NoCtx]

-----------------------------------------------------------------------------
\* processAlert up to the critical section.  The alerts of a batch are processed one after
\* the other and share nothing, so a request is a sequence of Receive steps; an alert that
\* is invalid or whose template does not exist has no effect.

BackedOff(k) == backoff[k] > 0 /\ now < backoff[k] + BackoffInterval

Begin(h, i, isFiring) ==
  /\ pc' = [pc EXCEPT ![h] = "retrieve"]
  /\ job' = [job EXCEPT ![h] = [item |-> i, firing |-> isFiring]]
  /\ ctx' = [ctx EXCEPT ![h].tries = Steps]

\* A firing alert within its backoff is skipped.
ReceiveFiring(h, i) ==
  /\ pc[h] = "idle"
  /\ ~BackedOff(KeyOf[i])
  /\ Begin(h, i, TRUE)
  /\ UNCHANGED <<now, rec, created, current, backoff, reasons, failing>>

\* A resolved alert clears the backoff; there is more to do for limited support only.
ReceiveResolved(h, i) ==
  /\ pc[h] = "idle"
  /\ backoff' = [backoff EXCEPT ![KeyOf[i]] = 0]
  /\ IF IsLS(i)
     THEN Begin(h, i, FALSE) /\ UNCHANGED failing
     ELSE failing' = failing \ {TemplateOf[i]} /\ UNCHANGED <<pc, job, ctx>>
  /\ UNCHANGED <<now, rec, created, current, reasons>>

\* processAlert returns.
Leave(h) ==
  /\ pc' = [pc EXCEPT ![h] = "idle"]
  /\ job' = [job EXCEPT ![h] = NoJob]
  /\ ctx' = [ctx EXCEPT ![h] = NoCtx]

Goto(h, label) == pc' = [pc EXCEPT ![h] = label] /\ UNCHANGED job

GaugeSet(h) == failing' = failing \cup {Template(h)}
GaugeReset(h) == failing' = failing \ {Template(h)}

-----------------------------------------------------------------------------
\* The critical section: read (or create) the record, decide, update it.

\* The context of a record just read.
Context(h) ==
  LET item == Found(rec[ItemIn(h)])
  IN  [ctx[h] EXCEPT !.item = item, !.initial = item,
                     !.wasLS = IsLS(ItemIn(h)) /\ item.fired > item.resolved]

Retrieve(h) ==
  /\ pc[h] = "retrieve"
  /\ IF RecordOf[ItemIn(h)] \in created
     THEN /\ ctx' = [ctx EXCEPT ![h] = Context(h)]
          /\ current' = current \cup {h}
          /\ Goto(h, "update")
     ELSE Goto(h, "create") /\ UNCHANGED <<ctx, current>>
  /\ UNCHANGED <<now, rec, created, backoff, reasons, failing>>

Create(h) ==
  /\ pc[h] = "create"
  /\ RecordOf[ItemIn(h)] \notin created
  /\ created' = created \cup {RecordOf[ItemIn(h)]}
  /\ ctx' = [ctx EXCEPT ![h] = Context(h)]
  /\ current' = current \cup {h}
  /\ Goto(h, "update")
  /\ UNCHANGED <<now, rec, backoff, reasons, failing>>

\* Mutant: an item in limited support is notified again once the window has passed.
CanSendWhateverSupport(h) ==
  ctx[h].item.last = 0 \/ now > ctx[h].item.last + DontResend(ItemIn(h))

\* Mutant: a notification is due as soon as the cluster is not in limited support.
CanSendAnyTime(h) == ~ctx[h].wasLS

\* canSendNotification, asked for firing alerts only.
CanSend(h) ==
  /\ ~ctx[h].wasLS
  /\ ctx[h].item.last = 0 \/ now > ctx[h].item.last + DontResend(ItemIn(h))

\* Mutant: the updates are not conditional on the resourceVersion that was read.
NeverStale(h) == TRUE

UpToDate(h) == h \in current

\* A write that changes something outdates every other copy of the record.
Outdated(h, item) ==
  IF item = rec[ItemIn(h)] THEN {}
  ELSE {g \in current \ {h} : RecordOf[ItemIn(g)] = RecordOf[ItemIn(h)]}

Write(h, item) == rec' = [rec EXCEPT ![ItemIn(h)] = item]

\* updateNotificationStatus: what the update in hand stores.
Updated(h) ==
  IF ~job[h].firing THEN Levelled(ctx[h].item)
  ELSE IF CanSend(h) THEN Counted(ctx[h].item, now) ELSE ctx[h].item

Claim(h) ==
  /\ pc[h] = "update" /\ job[h].firing
  /\ UpToDate(h)
  /\ CanSend(h)
  /\ Write(h, Updated(h))
  /\ current' = (current \ Outdated(h, Updated(h))) \ {h}
  /\ ctx' = [ctx EXCEPT ![h].item = Updated(h), ![h].tries = 0, ![h].start = now]
  /\ Goto(h, "send")
  /\ UNCHANGED <<now, created, backoff, reasons, failing>>

Decline(h) ==
  /\ pc[h] = "update" /\ job[h].firing
  /\ UpToDate(h)
  /\ ~CanSend(h)
  /\ Write(h, Updated(h))
  /\ current' = (current \ Outdated(h, Updated(h))) \ {h}
  /\ GaugeReset(h)
  /\ Leave(h)
  /\ UNCHANGED <<now, created, backoff, reasons>>

Resolve(h) ==
  /\ pc[h] = "update" /\ ~job[h].firing
  /\ UpToDate(h)
  /\ Write(h, Updated(h))
  /\ current' = (current \ Outdated(h, Updated(h))) \ {h}
  /\ IF ctx[h].wasLS
     THEN /\ ctx' = [ctx EXCEPT ![h].item = Updated(h), ![h].tries = 0]
          /\ Goto(h, "list")
     ELSE Leave(h)
  /\ UNCHANGED <<now, created, backoff, reasons, failing>>

\* Mutant: a conflict does not use up an attempt.
ConflictForever(h) ==
  /\ \/ pc[h] = "update" /\ ~UpToDate(h)
     \/ pc[h] = "create" /\ RecordOf[ItemIn(h)] \in created
  /\ Goto(h, "retrieve")
  /\ UNCHANGED <<now, rec, created, current, backoff, reasons, failing, ctx>>

\* Mutant: the last attempt is not the last.
ConflictOnceMore(h) ==
  /\ \/ pc[h] = "update" /\ ~UpToDate(h)
     \/ pc[h] = "create" /\ RecordOf[ItemIn(h)] \in created
  /\ Goto(h, "retrieve")
  /\ ctx' = [ctx EXCEPT ![h].tries = @ - 1]
  /\ UNCHANGED <<now, rec, created, current, backoff, reasons, failing>>

\* Either 409, Conflict or AlreadyExists, is tried again while attempts are left.
Conflict(h) ==
  /\ \/ pc[h] = "update" /\ ~UpToDate(h)
     \/ pc[h] = "create" /\ RecordOf[ItemIn(h)] \in created
  /\ IF ctx[h].tries > 1
     THEN Goto(h, "retrieve") /\ ctx' = [ctx EXCEPT ![h].tries = @ - 1]
     ELSE Leave(h)
  /\ UNCHANGED <<now, rec, created, current, backoff, reasons, failing>>

\* Another error of the API server ends the processing of the alert, without sending and
\* without restoring, although the update may have been applied.
GiveUp(h) ==
  /\ \/ /\ "apiError" \in Faults
        /\ pc[h] \in {"retrieve", "create", "update"}
        /\ UNCHANGED rec
        /\ current' = current \ {h}
     \/ /\ "lostResponse" \in Faults
        /\ pc[h] = "update" /\ UpToDate(h)
        /\ Write(h, Updated(h))
        /\ current' = (current \ Outdated(h, Updated(h))) \ {h}
  /\ Leave(h)
  /\ UNCHANGED <<now, created, backoff, reasons, failing>>

-----------------------------------------------------------------------------
\* Sending, and what follows a success or a failure.

FreeIds(k) == (1 .. MaxReasons) \ (reasons[k] \cup UNION {ctx[g].listed : g \in Handlers})

\* OCM takes the notification: a limited support reason gets an identifier of its own.
Accepted(h) ==
  IF IsLS(ItemIn(h))
  THEN \E id \in FreeIds(Key(h)) :
         /\ \A other \in FreeIds(Key(h)) : id <= other
         /\ reasons' = [reasons EXCEPT ![Key(h)] = @ \cup {id}]
  ELSE UNCHANGED reasons

SendOK(h) ==
  /\ pc[h] = "send"
  /\ Accepted(h)
  /\ Goto(h, "load")
  /\ UNCHANGED <<now, rec, created, current, backoff, failing, ctx>>

\* Only the service log client reports a 429 as a RateLimitError.
SendRateLimited(h) ==
  /\ "rateLimit" \in Faults
  /\ pc[h] = "send" /\ ~IsLS(ItemIn(h))
  /\ backoff' = [backoff EXCEPT ![Key(h)] = now]
  /\ GaugeSet(h)
  /\ Goto(h, "restore")
  /\ UNCHANGED <<now, rec, created, current, reasons, ctx>>

SendFails(h) ==
  /\ pc[h] = "send"
  /\ \/ "ocmError" \in Faults /\ UNCHANGED reasons
     \/ "lostResponse" \in Faults /\ Accepted(h)
  /\ GaugeSet(h)
  /\ Goto(h, "restore")
  /\ UNCHANGED <<now, rec, created, current, backoff, ctx>>

\* Mutant: a backoff is cleared however recent it is.
IsOlderAny(h) == backoff[Key(h)] > 0

IsOlder(h) == backoff[Key(h)] > 0 /\ backoff[Key(h)] < ctx[h].start

\* rateLimitBackoffs.Load finds no backoff older than this send, or finds one and ...
KeepBackoff(h) ==
  /\ pc[h] = "load"
  /\ ~IsOlder(h)
  /\ GaugeReset(h)
  /\ Leave(h)
  /\ UNCHANGED <<now, rec, created, current, backoff, reasons>>

FindBackoff(h) ==
  /\ pc[h] = "load"
  /\ IsOlder(h)
  /\ Goto(h, "delete")
  /\ UNCHANGED <<now, rec, created, current, backoff, reasons, failing, ctx>>

\* ... rateLimitBackoffs.Delete removes whatever is there by then.
DeleteBackoff(h) ==
  /\ pc[h] = "delete"
  /\ backoff' = [backoff EXCEPT ![Key(h)] = 0]
  /\ GaugeReset(h)
  /\ Leave(h)
  /\ UNCHANGED <<now, rec, created, current, reasons>>

-----------------------------------------------------------------------------
\* removeLimitedSupport: list the reasons, delete them one by one, stop at an error.

List(h) ==
  /\ pc[h] = "list"
  /\ ctx' = [ctx EXCEPT ![h].listed = reasons[Key(h)]]
  /\ Goto(h, "remove")
  /\ UNCHANGED <<now, rec, created, current, backoff, reasons, failing>>

Remove(h, id) ==
  /\ pc[h] = "remove"
  /\ id \in ctx[h].listed \cap reasons[Key(h)]
  /\ reasons' = [reasons EXCEPT ![Key(h)] = @ \ {id}]
  /\ ctx' = [ctx EXCEPT ![h].listed = @ \ {id}]
  /\ UNCHANGED <<now, rec, created, current, backoff, failing, pc, job>>

\* The service is out, an answer is lost, or another handler has deleted the reason.
RemoveFails(h) ==
  /\ \/ /\ pc[h] = "list" /\ "ocmError" \in Faults
        /\ UNCHANGED reasons
     \/ /\ pc[h] = "remove"
        /\ \E id \in ctx[h].listed :
             \/ /\ id \notin reasons[Key(h)] \/ "ocmError" \in Faults
                /\ UNCHANGED reasons
             \/ /\ "lostResponse" \in Faults
                /\ reasons' = [reasons EXCEPT ![Key(h)] = @ \ {id}]
  /\ GaugeSet(h)
  /\ ctx' = [ctx EXCEPT ![h].listed = {}]
  /\ Goto(h, "restore")
  /\ UNCHANGED <<now, rec, created, current, backoff>>

Removed(h) ==
  /\ pc[h] = "remove"
  /\ ctx[h].listed = {}
  /\ GaugeReset(h)
  /\ Leave(h)
  /\ UNCHANGED <<now, rec, created, current, backoff, reasons>>

-----------------------------------------------------------------------------
\* restoreNotificationStatus: read the record again, write the former item into it, once.
\* Its test compares the handler's own two copies, which are equal.

RestoreGet(h) ==
  /\ pc[h] = "restore"
  /\ current' = current \cup {h}
  /\ Goto(h, "restorePut")
  /\ UNCHANGED <<now, rec, created, backoff, reasons, failing, ctx>>

\* Mutant: the item as it was claimed is written back.
RestoreClaimed(h) == ctx[h].item

Restored(h) == ctx[h].initial

RestorePut(h) ==
  /\ pc[h] = "restorePut"
  /\ UpToDate(h)
  /\ Write(h, Restored(h))
  /\ current' = (current \ Outdated(h, Restored(h))) \ {h}
  /\ Leave(h)
  /\ UNCHANGED <<now, created, backoff, reasons, failing>>

\* A conflict or another error is ignored.
RestoreFails(h) ==
  /\ \/ pc[h] = "restorePut" /\ ~UpToDate(h)
     \/ pc[h] \in {"restore", "restorePut"} /\ "apiError" \in Faults
  /\ current' = current \ {h}
  /\ Leave(h)
  /\ UNCHANGED <<now, rec, created, backoff, reasons, failing>>

-----------------------------------------------------------------------------

\* From the claim of a firing alert to its end.
Unsettled(h) == job[h].firing /\ pc[h] \in {"send", "load", "delete", "restore", "restorePut"}

\* Nothing bounds a send in the code; the clock waits for one longer than MaxSendTime.
Tick ==
  /\ now < MaxTime
  /\ \A h \in Handlers : Unsettled(h) => now < ctx[h].start + MaxSendTime
  /\ now' = now + 1
  /\ UNCHANGED <<rec, created, reasons, agent>>

\* The pod dies: requests, metrics and backoffs are lost, records and reasons are not.
Crash ==
  /\ "crash" \in Faults
  /\ current' = {}
  /\ backoff' = [k \in Keys |-> 0]
  /\ failing' = {}
  /\ pc' = [h \in Handlers |-> "idle"]
  /\ job' = [h \in Handlers |-> NoJob]
  /\ ctx' = [h \in Handlers |-> NoCtx]
  /\ UNCHANGED <<now, rec, created, reasons>>

Step(h) ==
  \/ Retrieve(h) \/ Create(h) \/ Claim(h) \/ Decline(h) \/ Resolve(h)
  \/ Conflict(h) \/ GiveUp(h)
  \/ SendOK(h) \/ SendRateLimited(h) \/ SendFails(h)
  \/ KeepBackoff(h) \/ FindBackoff(h) \/ DeleteBackoff(h)
  \/ List(h) \/ (\E id \in 1 .. MaxReasons : Remove(h, id)) \/ RemoveFails(h) \/ Removed(h)
  \/ RestoreGet(h) \/ RestorePut(h) \/ RestoreFails(h)

Receive(h, i) == ReceiveFiring(h, i) \/ ReceiveResolved(h, i)

Next ==
  \/ Tick
  \/ Crash
  \/ \E h \in Handlers : Step(h) \/ \E i \in Items : Receive(h, i)

Spec == Init /\ [][Next]_vars

\* Go runs every goroutine, and the API and OCM clients answer or time out.
FairSpec == Spec /\ \A h \in Handlers : WF_vars(Step(h))

-----------------------------------------------------------------------------

\* Every variable has its type; times lie on the clock.
TypeOK ==
  /\ now \in 1 .. MaxTime
  /\ rec \in [Items -> Item]
  /\ created \subseteq Records
  /\ current \subseteq Handlers
  /\ backoff \in [Keys -> 0 .. MaxTime]
  /\ reasons \in [Keys -> SUBSET (1 .. MaxReasons)]
  /\ failing \subseteq Templates
  /\ pc \in [Handlers -> {"idle", "retrieve", "create", "update", "send", "load", "delete",
                          "list", "remove", "restore", "restorePut"}]
  /\ job \in [Handlers -> [item : Items, firing : BOOLEAN] \cup {NoJob}]
  /\ ctx \in [Handlers -> [item : Item, initial : Item, wasLS : BOOLEAN, tries : 0 .. Steps,
                           start : 0 .. MaxTime, listed : SUBSET (1 .. MaxReasons)]]

Gap(item) == item.resolved <= item.fired /\ item.fired <= item.resolved + 1

\* "Counters are identical when no limited support is active; Sent counter is higher than
\* resolved counter by 1 when limited support is active": whatever fails or is restored, the
\* counters never drift further apart, nor the wrong way round.
CounterGap == \A i \in Items : IsLS(i) => Gap(rec[i])

Claims(h) == pc[h] = "update" /\ pc'[h] = "send"

\* A notification is claimed only if the STORED record allows it: no limited support active,
\* and the resend window of the last claim is over.
RespectsResendWindow ==
  [][\A h \in Handlers : Claims(h) =>
       LET item == rec[ItemIn(h)]
       IN  /\ IsLS(ItemIn(h)) => item.fired = item.resolved
           /\ item.last = 0 \/ now > item.last + DontResend(ItemIn(h))]_vars

SameItemUnsettled(g, h) ==
  g # h /\ Unsettled(g) /\ Unsettled(h) /\ ItemIn(g) = ItemIn(h)

\* What keeps senders apart if it holds, and nothing in the code makes it hold: a claim is
\* settled within the resend window.
SendsFitWindow == \A i \in Items : MaxSendTime <= DontResend(i)

\* Two handlers never send a service log for the same item at once, under SendsFitWindow: the
\* stamp of the first claim keeps the others out while its outcome is open, and no restore
\* removes it early.
OneSenderPerItem ==
  \A g, h \in Handlers : SameItemUnsettled(g, h) => IsLS(ItemIn(h))

\* restoreNotificationStatus undoes the handler's own update and nothing else: the item is
\* "read and set/updated in an atomic way", and only while it has the value this handler left.
RestoresOwnUpdate ==
  [][\A h \in Handlers :
       pc[h] = "restorePut" /\ rec'[ItemIn(h)] # rec[ItemIn(h)] /\ pc'[h] = "idle" =>
         rec[ItemIn(h)] = ctx[h].item]_vars

\* A handler's notification is open from the update that counts it to the end.
Opened == [h \in Handlers |->
  IF pc[h] \in {"idle", "retrieve", "create", "update"} THEN [item |-> "none", initial |-> NoItem]
  ELSE [item |-> ItemIn(h), initial |-> ctx[h].initial]]

Ledger == INSTANCE FleetLedger WITH open <- Opened

\* Whatever conflicts and fails, the records change as if each alert were observed in one
\* step, by the stored item, and nothing is written but that and an item put back.
ImplementsFleetLedger == Ledger!Spec

\* The steps that h may still take, besides the removal of listed reasons.
Ahead(h) ==
  3 * ctx[h].tries +
    CASE pc[h] = "retrieve" -> 7
      [] pc[h] = "create" -> 6
      [] pc[h] = "update" -> 5
      [] pc[h] = "list" -> 4
      [] pc[h] \in {"send", "remove"} -> 3
      [] pc[h] \in {"load", "restore"} -> 2
      [] pc[h] \in {"delete", "restorePut"} -> 1
      [] pc[h] = "idle" -> 0

\* No alert is retried for ever, were every creation and update to conflict: each step leaves
\* fewer ahead, or fewer of the reasons listed.
StepsRunOut ==
  [][\A h \in Handlers : Step(h) =>
       \/ Ahead(h)' < Ahead(h)
       \/ /\ Ahead(h)' = Ahead(h)
          /\ ctx'[h].listed \subseteq ctx[h].listed /\ ctx'[h].listed # ctx[h].listed]_vars

\* Every alert is processed to its end.
AlertCompletes == \A h \in Handlers : pc[h] # "idle" ~> pc[h] = "idle"

\* No service log is claimed within the backoff that follows a 429 ("Skip firing alerts that
\* are within the rate-limit backoff window").
BacksOff ==
  [][\A h \in Handlers : Claims(h) => ~BackedOff(Key(h))]_vars

Quiet(k) == \A h \in Handlers : job[h] = NoJob \/ Key(h) # k

\* What the counters are for: when no alert of a cluster and template is in processing, they
\* say whether OCM holds a limited support reason for it.
LedgerMatchesOCM ==
  \A i \in Items :
    IsLS(i) /\ Quiet(KeyOf[i]) => (rec[i].fired > rec[i].resolved <=> reasons[KeyOf[i]] # {})
=============================================================================
