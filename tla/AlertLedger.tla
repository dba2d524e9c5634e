----------------------------- MODULE AlertLedger -----------------------------
(***************************************************************************)
(* What the classic webhook promises about its records, whatever the       *)
(* number of requests in flight: an alert is observed in ONE step, which   *)
(* tests the record, sets AlertFiring and AlertResolved, and grants the    *)
(* handler permission to send or refuses it ("AlertFiring and              *)
(* AlertResolved conditions are read and set/updated in an atomic way").   *)
(* The outcome of a granted send touches ServiceLogSent and nothing else.  *)
(* WebhookReceiver implements it with optimistic concurrency.              *)
(***************************************************************************)
EXTENDS NotificationRecord

CONSTANTS Handlers, Faults

VARIABLES now, rec, grant

NoGrant == [notification |-> "none", firing |-> FALSE, resend |-> FALSE]

Init ==
  /\ now = 0
  /\ rec = [n \in Notifications |-> NewRecord]
  /\ grant = [h \in Handlers |-> NoGrant]

Tick == now' = now + 1 /\ UNCHANGED <<rec, grant>>

Observed(n, isFiring) ==
  rec' = [rec EXCEPT ![n] = AfterAlert(@, isFiring, now)]

Grant(h, n, isFiring) ==
  /\ grant[h] = NoGrant
  /\ CanSend(n, rec[n], isFiring, now)
  /\ Observed(n, isFiring)
  /\ grant' = [grant EXCEPT ![h] = [notification |-> n, firing |-> isFiring,
                                    resend |-> Holds(rec[n].firing)]]
  /\ UNCHANGED now

Refuse(h, n, isFiring) ==
  /\ grant[h] = NoGrant
  /\ ~CanSend(n, rec[n], isFiring, now)
  /\ Observed(n, isFiring)
  /\ UNCHANGED <<now, grant>>

\* The API server applied the update, the handler saw an error: nobody may send.
ObserveLost(h, n, isFiring) ==
  /\ "lostResponse" \in Faults
  /\ grant[h] = NoGrant
  /\ Observed(n, isFiring)
  /\ UNCHANGED <<now, grant>>

\* The outcome is recorded; a failed resend leaves the record as it was.
RecordSend(h, sent) ==
  /\ grant[h] # NoGrant
  /\ grant[h].firing /\ grant[h].resend => sent
  /\ rec' = [rec EXCEPT ![grant[h].notification] = AfterSend(@, sent, now)]
  /\ grant' = [grant EXCEPT ![h] = NoGrant]
  /\ UNCHANGED now

\* The outcome goes unrecorded: the update conflicted or failed.
Drop(h) ==
  /\ grant' = [grant EXCEPT ![h] = NoGrant]
  /\ UNCHANGED <<now, rec>>

Crash ==
  /\ "crash" \in Faults
  /\ grant' = [h \in Handlers |-> NoGrant]
  /\ UNCHANGED <<now, rec>>

Next ==
  \/ Tick
  \/ Crash
  \/ \E h \in Handlers :
       \/ Drop(h)
       \/ \E sent \in BOOLEAN : RecordSend(h, sent)
       \/ \E n \in Notifications, isFiring \in BOOLEAN :
            \/ Grant(h, n, isFiring)
            \/ Refuse(h, n, isFiring)
            \/ ObserveLost(h, n, isFiring)

vars == <<now, rec, grant>>
Spec == Init /\ [][Next]_vars
=============================================================================
