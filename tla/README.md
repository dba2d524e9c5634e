# A verification model of ocm-agent

ocm-agent receives Alertmanager webhooks on an OpenShift cluster and tells the
customer about them through OCM: with service logs, or by putting a hosted
cluster into limited support. What it has told, and when, it remembers in the
status of custom resources, which several requests read and write at once. This
directory holds TLA+ models of that logic, TLC configurations that check them on
small instances, and TLAPS proofs of the main results for any instance.

Paths below are relative to `src/`; `webhookreceiver.go` and
`webhookrhobsreceiver.go` are in `pkg/handlers`.

## 1. Inventory

| component | state | operations | models |
|---|---|---|---|
| Classic webhook, `webhookreceiver.go` | ManagedNotification status: per template the conditions AlertFiring, AlertResolved, ServiceLogSent; one object bundles several templates | `ServeHTTP`, `processAlert`, `retrieveNotificationContext`, `canSendServiceLog`, `updateFiringAndResolvedConditions`, `sendServiceLog` | `NotificationRecord`, `WebhookReceiver`, `AlertLedger` |
| Fleet webhook, `webhookrhobsreceiver.go` | ManagedFleetNotificationRecord status: per template and hosted cluster two counters and a time; the map `rateLimitBackoffs` of the process | `processAlert`, `canSendNotification`, `updateNotificationStatus`, `restoreNotificationStatus`, `sendNotification`, `removeLimitedSupport` | `FleetRecord`, `WebhookRHOBSReceiver`, `FleetLedger` |
| OCM client, `pkg/ocm/ocm.go` | none here; OCM holds service logs, limited support reasons and upgrade policies | `SendServiceLog` (a 429 becomes `RateLimitError`), `SendLimitedSupport`, `RemoveLimitedSupport`, `GetLimitedSupportReasons`; `GetCluster`, `GetUpgradePolicies`, `GetUpgradePolicy`, `GetUpgradePolicyState`, `UpdateUpgradePolicyState` | the first four by their outcomes in the webhooks; `UpgradePolicies` |
| Metrics, `pkg/metrics` | counters and gauges of the process | `Set`/`ResetResponseMetricFailure`; the wrapped `ResponseWriter`, `PrometheusMiddleware`, `SetRequestMetricFailure`, `ResetMetric`; counters | the response failure gauge in both webhooks; `RequestMetrics` |
| Upgrade policy and cluster proxies, `upgrade_policies.go`, `cluster.go` | none | one OCM call per request, a loop of them for the list | `UpgradePolicies` |
| Server and CLI, `pkg/cli` | the mode, fixed at start-up | flags, connection to OCM, routes and middleware by mode and service | `Serve` |
| OCM connection and its monitor, `connection.go`, `serve.go:231` | the gauge `ocm_agent_pull_secret_invalid` | `Build`, `GetInternalIDByExternalID`, a goroutine that asks OCM about the token for ever | `Serve` |
| Health probes, `livez.go`, `readyz.go` | none | a constant answer | `Serve` |
| `pkg/httpchecker` | none | `Reattempt`, a URL check; called by nothing | no |
| Kubernetes client, constants, configuration, logging | none | | no |

How they interact. Alertmanager posts batches of alerts; every request is a
goroutine of `net/http`. Handlers never talk to each other. They meet in the
API server (optimistic concurrency on the `resourceVersion` of an object, which
holds more than one template or cluster), in OCM, and, in fleet mode, in
`rateLimitBackoffs` and in the metrics. The proxies share nothing with the webhooks
but the metrics, and one gauge is set by all of them. `processAlert` always goes the same way: read
the record, decide, write the decision down, *then* call OCM, then write the
outcome down. Everything hard happens between those steps.

What is hard, and what makes each part correct:

- *Classic webhook.* Deciding and writing must be one atomic step for everybody
  else, although it is a read, an update and up to five retries; conditions must
  stay consistent with each other under retries, lost answers and crashes; a
  service log must not be sent again within `resendWait`, nor beside another one
  that is in flight (the three minute window); a resolution is announced only
  if the firing was.
- *Fleet webhook.* Counters are incremented before the send, for they also say
  whether limited support is active; a failed send must take that back; counters
  must agree with OCM; one 429 must silence a template and cluster for 30 minutes,
  however many sends are in flight.
- *OCM client.* An answer may be lost after OCM has done what it was asked; a list
  is read page by page while others change it.
- *Requests and their gauge.* The middleware judges a request by the last status
  written, the client by the first; the webhooks reset the gauge of all paths.
- *Server.* The agent exits when OCM does not know its cluster and is started
  again, until it is accepted; the pull secret gauge follows OCM's opinion.
- *All of it.* Retries end, and each request is answered.

`PROJECT.json` lists the hazards line by line with the properties that watch them.

## 2. Modules

| module | what it is |
|---|---|
| `NotificationRecord` | The pure decisions on one classic record: `CanSend` (`canSendServiceLog`), `AfterAlert` (`updateFiringAndResolvedConditions`), `AfterSend` (`updateServiceLogSentCondition`). |
| `AlertLedger` | Abstract specification of the classic webhook: an alert is observed, tested and granted in one atomic step; the outcome of a grant touches ServiceLogSent only. |
| `WebhookReceiver` | The classic webhook, one step per API call and OCM call of every handler. Contains the refinement `Ledger == INSTANCE AlertLedger WITH grant <- Granted`. |
| `FleetRecord` | What is decided on one fleet item: when it may be sent again, how its counters move. |
| `FleetLedger` | Abstract specification of the fleet webhook: an alert is noted, or a notification opened, in one atomic step on the stored item; an open one is settled, restored, or lost in a crash. |
| `WebhookRHOBSReceiver` | The fleet webhook in the same grain as the classic one, with records, backoffs, and the reasons OCM holds. Contains the refinement `Ledger == INSTANCE FleetLedger WITH open <- Opened`. |
| `RequestMetrics` | The wrapped `ResponseWriter` and the request failure gauge. |
| `UpgradePolicies` | The proxies: handlers and OCM calls, while upgrade policies come and go in OCM and its treatment of the agent changes. |
| `Serve` | The process: flags, start-up, the monitor of the connection, routes and middleware, all of it composed with the proxies, the probes, and the webhooks as seen by their clients. |
| `MCWebhookReceiver`, `MCWebhookRHOBSReceiver` | Values of the constants for TLC. |
| `MCFleetHistory` | The fleet webhook with a history variable `disturbed`: the records on which alerts overlapped, or a handler ended without knowing or taking back what it did. |
| `MCFleetBackoff` | The fleet webhook with a history variable `limited`: the handlers beside whose send another send of the same key met a 429. |
| `MCServe` | Deployments and traffic for `Serve`, with a history of the policies a list request could have seen. |
| `MCWebhookHistory`, `MCWebhookPosted` | The classic webhook with a history variable (what OCM accepted), for properties that relate records to service logs. |
| `WebhookReceiverProofs`, `WebhookLedgerProofs`, `WebhookResendProofs` | TLAPS proofs about the classic webhook: the optimistic lock and the end of retries; the refinement; the windows, and what a resolution answers. |
| `FleetReceiverProofs`, `FleetLedgerProofs`, `FleetSenderProofs`, `FleetHistoryProofs` | TLAPS proofs about the fleet webhook: the optimistic lock and the end of retries; counters, windows and the refinement; sends in flight and backoffs; the agreement of counters with OCM. |
| `ServeProofs` | TLAPS proofs about the agent's process. |

### Correspondence with the code

- `Handlers` are the requests in flight; `pc`, `job`, `ctx` are where a goroutine
  is, its alert, and its `notificationContext` (`fleetNotificationContext`).
  `todo` is the rest of a classic batch. In fleet mode a batch is a sequence of `Receive` steps,
  since its alerts share nothing, not even the request's context
  (`context.Background()`, line 382).
- `rec` is the status in the API server. A `resourceVersion` is abstracted by
  `current`, the handlers whose copy of the object is the latest: a write that
  changes something (`Outdated`) removes every other handler with a copy of the
  *same object* from it, whichever template or cluster it wrote; an update is
  accepted exactly from handlers in `current`. A write that changes nothing leaves the version
  alone, as the API server does.
- A condition is its status and the time of its last transition; a missing
  condition is status `None`. A fleet item is its two counters and its time; a nil time is 0.
- `now` is the wall clock in ticks. A handler's decision (`canSendServiceLog`)
  and its update read the same tick: what may pass between them is
  covered by the update failing when anybody else wrote. `start` (`sendStartTime`, line 436)
  is that tick too.
- The classic send and the recording of its outcome are three steps (`Claim`,
  `Send`, `RecordSent` or `SkipRecord`), so that crashes, lost answers and
  conflicting writes fall between them. `restoreNotificationStatus` is two steps,
  the clearing of a backoff is `Load` and `Delete`, limited support reasons are
  removed one by one.
- `Faults` says what may go wrong in an instance: errors of the API server or of
  OCM, a 429, answers lost after the request was carried out, crashes of the pod (records
  survive; requests, gauges and backoffs do not).
- An alert that is invalid or names no template is a `Reject` step (classic), or
  no step at all (fleet). A classic request whose list of ManagedNotifications
  fails is answered 500 and changes nothing: not a step either.

- `Serve`: `config` is the command line, one that `NewServeCmd` lets pass
  (`Accepted`); `Traffic` says, per command line, what the requests of an instance
  may ask for. `account` is how OCM treats the agent: it answers, says 401, or is
  not reached. A handler is one step per OCM call, then `Return` to the
  middleware. A status is ok (200) or an error, all the middleware tells
  apart; `reply.sent` is what the client gets, `reply.recorded` what the wrapper
  remembers. `page` is counted modulo 2 only, for nothing reads it.
  Sleeps are steps of others. An exit (`LookupFails`) or a `Crash` loses all of the
  memory; Kubernetes starts the process again.
- A webhook request in `Serve` is seen from outside: what it answers, and that it
  may set or reset the gauge. What it does with its alerts is the other modules'
  subject, and influences neither: errors of alerts are only logged.

Left out: texts, counters of sent and failed notifications, changes of the templates while a request runs (the specs of the custom
resources are constants), and the matching of limited support reasons by their text: a reason
belongs to the template and cluster it was set for.

Some definitions stand in two forms, the second marked *Mutant*: the way a
plausible slip would have it. They are used by no specification; `PROJECT.json`
pairs them with the property that notices.

## 3. Runs

| run | properties | shows |
|---|---|---|
| `receiver_safety` | `TypeOK`, `RecordsOrdered`, `CopyIsCurrent`, `ImplementsLedger`, `RespectsResendWait`, `ResendsAlone` | With every fault, two requests on one template: the optimistic updates are atomic, and both windows hold. |
| `receiver_fair` | `AnswersAnnouncement`, `StepsRunOut`, `RequestCompletes` | A resolution answers an announcement OCM accepted. Each step of a request takes an alert off its batch, or leaves fewer steps ahead (`Ahead`) for the one in hand, and so every request is answered. |
| `fleet_safety` | `TypeOK`, `CounterGap`, `OneSenderPerItem`, `LedgerKept`, `RespectsResendWindow`, `ImplementsFleetLedger` | With every fault, two alerts at a time on two items of one record: claims are atomic on the stored item, and, unless alerts overlap or a handler ends in ignorance, the counters agree with OCM whenever nothing is in processing, whatever OCM and the API server refuse. |
| `fleet_fair` | `ConcurrentBackoffKept`, `StepsRunOut`, `AlertCompletes` | Sends that outlast the resend window overlap: a send that succeeds beside one that met a 429 leaves the backoff in place. Each step of an alert leaves fewer steps ahead, or fewer of the listed reasons, and so every alert is processed to its end, or dies with the pod, whatever OCM and the API server refuse. |
| `agent` | `TypeOK`, `ListWhole`, `FailureShown`, `GaugeClears`, `AnsweredUnlessFull`, `SecretNoticed`, `ComesUp` | Four deployments, two requests at a time, OCM and its policies changing at will, crashes and clients that go away: an error that was answered is on the gauge when its handler is through, the gauge clears once nothing fails, a list lacks nothing that was there all the time, requests end, the pull secret gauge settles on OCM's opinion, and an accepted agent comes up. |

Seven runs are expected to end in a violation. Each states what a comment of
the code says, and TLC finds the schedule in which the code does otherwise.

| run | refuted | the schedule |
|---|---|---|
| `receiver_window` | `HonoursResendWindow` | OCM accepts a service log; before ServiceLogSent is stored, a call for *another template of the same object* writes; the single, unretried update (line 304) conflicts and is logged. A later call announces the alert again, inside `resendWait`; at once if this was the first service log, for then there is no ServiceLogSent at all (line 189). No fault is needed. |
| `receiver_sender` | `OneSenderPerFiring` | Two overlapping calls of a new firing alert: without ServiceLogSent the answer is true (line 189) before the three minute window is looked at. No fault is needed. |
| `fleet_overtaken` | `LedgerMatchesOCM` | While limited support is being set, the resolved alert levels the counters and finds no reason to remove. The reason then appears, with level counters, and stays. No fault is needed. |
| `fleet_unrestored` | `LedgerMatchesOCM` | OCM refuses; the restore conflicts with a write for another cluster of the same record and is given up (line 460). Firing alerts are skipped from then on. |
| `fleet_restore` | `RestoresOwnUpdate` | The test of line 304 compares the handler's copies with each other; a restore overwrites what another handler stored. |
| `fleet_backoff` | `BacksOff` | The backoff is tested before the retried critical section (lines 399-410), and not again before the send. |
| `policies_list` | `ListAnswered` | OCM answers, and the cluster has a page of policies: `GetUpgradePolicies` counts `page` (`ocm.go:232`) and never sends it, so the same full page comes for ever. |

### Bounds, and why they are enough

Two handlers: every race in the code is between one handler's pair of steps and
one intervening write, and a third adds no new kind of conflict; symmetry in the
handlers is used for safety only. `Steps` = 2 attempts in place of five: a retry that succeeds,
and the last one that fails, both occur. Classic windows are two ticks each with
`MaxTime` = 4 in `receiver_safety`, so both windows open, pass, and open again
within a run; `MaxSendTime` = 1. The fair and the refuting runs take the shortest clock
in which both happen. Fleet: a resend wait of 0 (three minutes, one tick), a
backoff of two ticks, `MaxTime` 3. In `fleet_fair` the three minutes take no tick, a send up to one, and
the clock ends at 2: the longest sends outlast the window of the service log item, and two
handlers send for it at once, so one may succeed beside the other's 429. The limited support item
waits one tick (`MCShortWait`): its sends meet no 429, and their overlaps are in other runs. `MaxReasons` bounds the
identifiers of reasons (2 in the safety run, 3 elsewhere); a send waits when
none is free, which the fair run is small enough never to meet. `fleet_safety` and `fleet_fair` tell states
apart by all variables but the gauge `failing` (`VIEW WithoutGauge`), which no guard, no other variable
and no property but `TypeOK` reads, and which no `Step` changes alone; its type is proved in section 4. One template
or two: items and templates interact only by sharing an object, or a handler.
In `Serve`, a page of two policies: one, two (a page) and none of them exist, and
lists see a policy go and another come between two pages. Two requests, in each
deployment of those kinds that race there: a webhook with a list, an update, or
another webhook. `MCTraffic` spreads the handlers over the deployments, for they
differ in nothing but their call.

`MaxSendTime` is an assumption about the environment, not a bound of the model:
the three minute window presumes that a service log takes less ("that's the max
allowed time to send a SL", line 210), and the code enforces it nowhere.
`Tick` waits for a send that old. `ResendsAlone` and `OneSenderPerItem` hold while a send is
shorter than the window (the classic module assumes so in `ReceiverAssumption`; in fleet mode it is
the hypothesis `SendsFitWindow` of one theorem, and `fleet_safety` meets it). What `fleet_fair` checks
holds without it.

### Fairness

`FairSpec` (with a history: `HFairSpec`, `LFairSpec`) is weak fairness of each handler's `Step`: the Go scheduler runs
every goroutine, and calls of the API server and of OCM return or time out. No
fairness is assumed of the clock, of requests, of crashes, nor of any
particular outcome of a call: OCM may refuse forever. Conflicts may hit every attempt.

In `Serve`, `Start` (the main goroutine, and Kubernetes, which restarts it),
`CheckConnection` and each request's `Handle` are fair in the same sense. OCM, its
policies and the network owe nothing; what a liveness property needs of them it
says in its premise (`<>[](account = "ok")`, a list shorter than a page, no more
crashes, webhook calls that keep succeeding). The premises are met:
the mutants of the run break each conclusion.

## 4. Proofs

### The classic webhook

For any set of handlers, templates, objects, any windows and faults, from
`RecordAssumption` and `ReceiverAssumption`:

| theorem | module | states |
|---|---|---|
| `Invariance` | `WebhookReceiverProofs` | `Spec => []Inv` |
| `TypeCorrect`, `ConditionsOrdered`, `CopiesCurrent` | `WebhookReceiverProofs` | `[]TypeOK`, `[]RecordsOrdered`, `[]CopyIsCurrent` |
| `Refinement` | `WebhookLedgerProofs` | `Spec => ImplementsLedger` |
| `ResendWaitRespected` | `WebhookResendProofs` | `Spec => RespectsResendWait` |
| `InFlightRecent`, `ResendsAreAlone` | `WebhookResendProofs` | `[]InFlightOK`, `Spec => ResendsAlone` |
| `ResolutionsAnswer` | `WebhookResendProofs` | `HSpec => AnswersAnnouncement`, of `MCWebhookHistory` |
| `RequestStepsRunOut` | `WebhookReceiverProofs` | `Spec => StepsRunOut` |

*The inductive invariant* `Inv` is `TypeOK /\ JobOK /\ CopyOK /\ RecordsOrdered`.
`RecordsOrdered` alone is not inductive: an update is computed from a handler's
copy, which is known to be ordered only because it is the stored record, and that
is `CopyOK`: a handler in `current` is past its read and holds what is
stored, and before its claim `wasFiring` is what the copy says. `CopyOK` in turn needs `JobOK`, that
a handler past "next" has an alert of a known template. The step lemma is cut in
two: `StepDisturbs` says what one handler's step does to everybody else (only
`current` shrinks, and the one record it writes stays ordered), `OwnCopy` what it does to the handler itself.

*Refinement.* `Claim` is `Grant`, `Decline` is `Refuse`, `RecordSent` is
`RecordSend`, `SkipRecord` is `Drop`, an update whose answer is lost is `ObserveLost`; everything else stutters. The
decision taken on the copy is the decision on the stored record, by `CopyOK`.

*Windows.* `ResendsAlone` needs `InFlightOK`: while a handler sends for a firing
alert, AlertResolved carries a time no older than its claim, and the claim is at
most `MaxSendTime` old. It is kept because no write forgets the last call
(`StepRemembers`). `MaxSendTime < InFlightWindow` then contradicts a resend.

*What a resolution answers.* `announced`, the history, says that OCM has accepted a
firing service log of a template since the last resolution was claimed. A resolution is
claimed on the strength of times in the record, so `RecordedOK` must relate the two: an alert
recorded as firing, and as sent after it began to fire, is announced. Two more facts make
that inductive (`AnsweringInv`). A claimed resolution stores that the alert does not fire, and whoever
makes it fire again stores a time no earlier than the last ServiceLogSent, so a service log
that is answered does not count for the next firing.
And ServiceLogSent may be stored late: `PendingOK` says that a handler
about to do so from a current copy has an unanswered announcement, because any resolution
claimed in between has written the record and so outdated that copy.

*Retries.* `Ahead` counts the steps a handler can still make for its alert: two for each attempt left,
five at most for the way on. It is at most `2 * Steps + 5`, positive while the handler
is busy (`AheadOf` in the fleet proofs), and each step that does not take an alert off the batch
leaves it smaller. The theorem is the part of `RequestCompletes` that can be proved
here: given it, all that is missing is that a busy handler is scheduled again.

### The fleet webhook

For any set of handlers, items, records, keys, any windows and faults, from `ItemAssumption`
and `FleetAssumption`:

| theorem | module | states |
|---|---|---|
| `FleetInvariance`, `FleetTypeCorrect` | `FleetReceiverProofs` | `[]Inv`, `[]TypeOK` |
| `CountersKept` | `FleetLedgerProofs` | `[]CounterGap` |
| `ResendWindowRespected` | `FleetLedgerProofs` | `Spec => RespectsResendWindow` |
| `FleetRefinement` | `FleetLedgerProofs` | `Spec => ImplementsFleetLedger` |
| `OneSender` | `FleetSenderProofs` | `[]OneSenderPerItem`, if a send ends within the resend window (`SendsFitWindow`) |
| `ConcurrentBackoffSurvives` | `FleetSenderProofs` | `LSpec => ConcurrentBackoffKept`, of `MCFleetBackoff` |
| `CountersTellOCM` | `FleetHistoryProofs` | `HSpec => []LedgerKept`, of `MCFleetHistory`, if no hosted cluster has two management clusters |
| `FleetStepsRunOut` | `FleetReceiverProofs` | `Spec => StepsRunOut` |

*The lock.* `Inv` is `TypeOK /\ JobOK /\ CopyOK`; by `CopyOK` a handler in `current` that is
about to update holds the stored item, as `item` and as `initial`. Two lemmas carry all
proofs: `StepGoes` lists the ways of one handler through `processAlert`, and `StepWrites`
says that its step either keeps the records or stores one item from an accepted
update. `CopyDecides` then turns every decision on the copy into the ledger's decision.

*Counters.* `CounterGap` is not inductive: a restore writes an item that was read long
before, whatever has been stored since. `InitialGap` says that such an item had no gap
either when it was read. So the overwriting that `fleet_restore` shows can lose an update, and
never makes the counters inconsistent.

*Refinement.* `Claim` and `Resolve` of an item in limited support are `Open`;
`Decline`, the other `Resolve` and an update whose answer is lost are `Note`; `RestorePut` is
`Restore`; whatever else ends an alert after its claim is `Settle`; the rest stutters.
`InitialOK` (what may be put back was read from a record) makes an open notification
differ from none.

*One sender.* `StampOK`: while a handler's claim is open, the stored item carries the time
of that claim, which is at most `MaxSendTime` old. The stamp is within the resend window
then, so nobody else claims; no restore can remove it, for the only handler with a claim
on the item is this one. `StampOK` and `OneSenderPerItem` are inductive together, not
alone.

*Backoffs.* Two sends of a key overlap when one outlasts the resend window, or when a
hosted cluster has two management clusters, for the code's key does not name those (line 401); the
theorem covers both. Once a send has met a 429 beside another that has not yet called `Load`,
`LimitedOK` holds of that other one: its key has no backoff, or one no older than its own send.
A resolved alert, or the success of a third handler, may remove the backoff, and a later 429 may renew
it; neither makes it older than the send, because claims are made at the present (`StartOK`). So
`Load` never leads to `Delete`. A 429 that arrives *between* `Load` and `Delete`, after `Load`
has found an older backoff, is deleted with it: the comment at lines 466-467 speaks of one that
arrived while the send was in flight, and nothing here says more.

*Counters and OCM.* `LedgerKept` speaks of an item nobody is working on; the invariant
(`HistoryInv`) has to say what holds while somebody is. On an undisturbed record that is one handler
alone (`AloneOK`), and `Place` says at each of its labels where the counters are
ahead of OCM or behind it: ahead before a send, and then the item it can put back had no gap;
behind before a removal, and then that item had one; before a restore it is that item
which agrees with OCM; everywhere else the stored one does. A removal that got only part of the
reasons goes to the restore with some of them left (`RemoveInPlace`), and the restore
makes the record agree again (`RestoreInPlace`). Where a handler cannot know (a crash or a
lost answer), gives its send or its restore up, or is not alone, `disturbed` takes the record out, by definition of the property; every other
refusal of OCM or of the API server is covered. The hypothesis on keys is needed because
OCM's reasons belong to the hosted cluster, the counters to one management cluster of it.

*Retries.* `Ahead` is at most `3 * Steps + 7`, for an attempt may read, create and
update; the removals of listed reasons come on top, and are finitely many. A creation
that meets `AlreadyExists` and an update that conflicts both cost an attempt.

### The server

For any deployment and traffic, from `PoliciesAssumption` and `ServeAssumption`, about the
specification `HSpec` of `MCServe`, that is `Serve` with its history:

| theorem | module | states |
|---|---|---|
| `AgentInvariance`, `AgentTypeCorrect` | `ServeProofs` | the inductive invariant, `[]TypeOK` |
| `FailuresShown` | `ServeProofs` | `[]FailureShown` |
| `ListsWhole` | `ServeProofs` | `[]ListWhole` |

*Failures.* A reply whose sent status is an error has recorded an error: the first
status sent is never followed by a better one on the same request. The middleware, which
looks at the recorded one, then sets the gauge before the handler is through.

*Lists.* A list that ends on a short page has got that page, and all pages before it were
the first one, full: by the cardinality of a subset of the policies that exist,
a page that is not full lacks none of them.

### Only model-checked

Liveness (`RequestCompletes`, `AlertCompletes`, `GaugeClears`, `AnsweredUnlessFull`,
`SecretNoticed`, `ComesUp`), which the prover does not treat. Of the first two, `StepsRunOut` proves the part
that is not about scheduling. Every other property of the passing runs has a theorem.

## 5. Not modelled

- `pkg/httpchecker`, and `responseChecker` of `helper.go`: nothing in the agent
  calls them.
- `pkg/k8s`: builds a client once; that it fails is a `Crash`.
- Counters of metrics: nothing reads them back.
- Texts: placeholders of service logs, matching of limited support reasons by their
  text, JSON. A text that cannot be built is a send that fails.
- Values of flags read from files (`Complete`), ports, timeouts of `net/http`.
- Duplicates in a list of upgrade policies: what a list has got (`got`) is a set.
- The request failure gauge is reset by webhook calls only, and for all paths; docs/metrics.md:36
  says the next request that succeeds resets it. `FailureShown` and `GaugeClears` state what
  the code does keep.
- After a crash in the middle of a send, or a lost answer of OCM, the fleet counters
  may disagree with OCM; `LedgerKept` excludes those records through `disturbed`. The
  code keeps nothing that could tell the cases apart.

## 6. Plan

1. Done: the classic webhook, the fleet webhook and the server with its proxies,
   their abstract specifications, and the proofs of section 4.
2. Done: the proofs that relate records to what OCM holds (`CountersTellOCM`, `ResolutionsAnswer`),
   and that retries run out.
3. What remains true where a run refutes a comment: that a restore overwrites
   nothing on an undisturbed record, that a backoff holds for alerts whose test was not
   overtaken.
4. Variants for the requests and the lookup of `Serve`.
