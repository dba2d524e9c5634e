----------------------------- MODULE MCFleetBackoff ----------------------------
(***************************************************************************)
(* WebhookRHOBSReceiver with a history variable: the handlers whose key    *)
(* another handler has found rate limited since they began to send.        *)
(***************************************************************************)
EXTENDS MCWebhookRHOBSReceiver

\* Service logs are due again while one is in flight, limited support is not.
MCShortWait == sl :> 0 @@ ls :> 1

VARIABLE limited

\* While h is sending, or is about to look for a backoff, another send of its key gets a 429.
LimitedBeside(h) ==
  /\ pc[h] \in {"send", "load"}
  /\ \E g \in Handlers \ {h} : SendRateLimited(g) /\ Key(g) = Key(h)

LInit == Init /\ limited = {}
LNext ==
  /\ Next
  /\ limited' = {h \in Handlers : /\ pc'[h] \in {"send", "load", "delete"}
                                  /\ h \in limited \/ LimitedBeside(h)}
LSpec == LInit /\ [][LNext]_<<vars, limited>>

LFairSpec == LSpec /\ \A h \in Handlers : WF_vars(Step(h))

\* What TLC tells states apart by: the gauge is set and reset, and read by nothing here.
WithoutGauge == <<now, rec, created, reasons, current, backoff, pc, job, ctx, limited>>

\* "Only delete if the stored timestamp predates this send attempt, so a concurrent 429 that
\* arrived while we were sending is preserved": a send that succeeds beside one that met a 429
\* leaves the backoffs alone, whatever has been sent, refused and cleared in between.
ConcurrentBackoffKept ==
  [][\A h \in limited : pc[h] \in {"load", "delete"} /\ Step(h) => UNCHANGED backoff
    ]_<<vars, limited>>
=============================================================================
