----------------------------- MODULE MCFleetHistory ----------------------------
(***************************************************************************)
(* WebhookRHOBSReceiver with a history variable: the records on which two  *)
(* alerts have been in processing at once, or a handler has ended without  *)
(* being able to say or to take back what it did.                          *)
(***************************************************************************)
EXTENDS MCWebhookRHOBSReceiver

VARIABLE disturbed

Busy(r) == {h \in Handlers : job'[h] # NoJob /\ RecordOf[job'[h].item] = r}

\* The send or the removal is abandoned, the restore fails, or the answer to an update, a
\* send or a removal is lost.
Abandons(h) ==
  \/ /\ pc'[h] = "idle"
     /\ \/ pc[h] \in {"send", "list"}
        \/ pc[h] = "remove" /\ ctx[h].listed # {}
        \/ pc[h] \in {"restore", "restorePut"} /\ rec'[ItemIn(h)] # Restored(h)
        \/ /\ pc[h] = "update"
           /\ [rec'[ItemIn(h)] EXCEPT !.stored = FALSE] # [rec[ItemIn(h)] EXCEPT !.stored = FALSE]
  \/ pc'[h] = "restore" /\ reasons' # reasons

HInit == Init /\ disturbed = {}
HNext ==
  /\ Next
  /\ disturbed' = disturbed \cup {r \in Records : \E g, h \in Busy(r) : g # h}
                            \cup {RecordOf[ItemIn(h)] : h \in {g \in Handlers : Abandons(g)}}
HSpec == HInit /\ [][HNext]_<<vars, disturbed>>

\* What TLC tells states apart by: the gauge is set and reset, and read by nothing here.
WithoutGauge == <<now, rec, created, reasons, current, backoff, pc, job, ctx, disturbed>>

\* What the counters are for: unless alerts overlap on a record or a handler ends in
\* ignorance, whatever OCM and the API server refuse, the counters say whether OCM holds a
\* limited support reason, whenever nothing of the cluster and template is in processing.
LedgerKept ==
  \A i \in Items :
    IsLS(i) /\ Quiet(KeyOf[i]) /\ RecordOf[i] \notin disturbed =>
      (rec[i].fired > rec[i].resolved <=> reasons[KeyOf[i]] # {})
=============================================================================
