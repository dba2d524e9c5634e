------------------------------ MODULE FleetLedger -----------------------------
(***************************************************************************)
(* What the fleet webhook promises about its records: each alert is        *)
(* observed in ONE step, which tests the item, updates its counters, and   *)
(* opens a notification (or its removal) for the handler, or does not      *)
(* ("determining this state needs to be done in an atomic way to avoid     *)
(* race conditions").  An open one ends with the item as it is, or with    *)
(* the item put back to what it was.  WebhookRHOBSReceiver implements it.  *)
(***************************************************************************)
EXTENDS FleetRecord

CONSTANTS Handlers, Faults

VARIABLES
  now, rec,
  open   \* per handler: the item it notifies about, and what to put back on failure

vars == <<now, rec, open>>

None == [item |-> "none", initial |-> NoItem]

Init ==
  /\ now = 1
  /\ rec = [i \in Items |-> NoItem]
  /\ open = [h \in Handlers |-> None]

Tick == now' = now + 1 /\ UNCHANGED <<rec, open>>

InSupport(i) == IsLS(i) /\ rec[i].fired > rec[i].resolved

MayNotify(i) ==
  /\ ~InSupport(i)
  /\ rec[i].last = 0 \/ now > rec[i].last + DontResend(i)

\* Whether the alert calls for a notification, or for the removal of limited support.
Due(i, isFiring) == IF isFiring THEN MayNotify(i) ELSE InSupport(i)

Observed(i, isFiring) ==
  IF ~isFiring THEN Levelled(Found(rec[i]))
  ELSE IF MayNotify(i) THEN Counted(Found(rec[i]), now) ELSE Found(rec[i])

Observe(i, isFiring) ==
  /\ isFiring \/ IsLS(i)
  /\ rec' = [rec EXCEPT ![i] = Observed(i, isFiring)]
  /\ UNCHANGED now

Open(h, i, isFiring) ==
  /\ open[h] = None
  /\ Due(i, isFiring)
  /\ Observe(i, isFiring)
  /\ open' = [open EXCEPT ![h] = [item |-> i, initial |-> Found(rec[i])]]

\* Nothing is due, or the handler does not learn that its update was applied.
Note(i, isFiring) ==
  /\ ~Due(i, isFiring) \/ "lostResponse" \in Faults
  /\ Observe(i, isFiring)
  /\ UNCHANGED open

\* OCM took it, or the item could not be put back.
Settle(h) ==
  /\ open' = [open EXCEPT ![h] = None]
  /\ UNCHANGED <<now, rec>>

\* Whatever the item has become meanwhile, it is what it was before Open.
Restore(h) ==
  /\ open[h] # None
  /\ rec' = [rec EXCEPT ![open[h].item] = open[h].initial]
  /\ open' = [open EXCEPT ![h] = None]
  /\ UNCHANGED now

Crash ==
  /\ "crash" \in Faults
  /\ open' = [h \in Handlers |-> None]
  /\ UNCHANGED <<now, rec>>

Next ==
  \/ Tick
  \/ Crash
  \/ \E h \in Handlers :
       \/ Settle(h)
       \/ Restore(h)
       \/ \E i \in Items, isFiring \in BOOLEAN : Open(h, i, isFiring) \/ Note(i, isFiring)

Spec == Init /\ [][Next]_vars
=============================================================================
