-------------------------- MODULE MCWebhookHistory ---------------------------
(***************************************************************************)
(* WebhookReceiver with a history variable that remembers what OCM got,   *)
(* for the property that relates the records to the service logs posted,   *)
(* and the fair specification for liveness.                                *)
(***************************************************************************)
EXTENDS MCWebhookReceiver

VARIABLE
  announced  \* per notification: OCM got a firing service log after the last time a
             \* resolution was claimed

hvars == <<vars, announced>>

Accepts(h, n) ==
  pc[h] = "send" /\ pc'[h] = "record" /\ ctx'[h].sent /\ job[h].firing /\ Notification(h) = n

ClaimsResolved(h) == Claims(h) /\ ~job[h].firing

HInit ==
  /\ Init
  /\ announced = [n \in Notifications |-> FALSE]

HNext ==
  /\ Next
  /\ announced' = [n \in Notifications |->
       \/ \E h \in Handlers : Accepts(h, n)
       \/ announced[n] /\ ~\E h \in Handlers : ClaimsResolved(h) /\ Notification(h) = n]

HSpec == HInit /\ [][HNext]_hvars
HFairSpec == HSpec /\ \A h \in Handlers : WF_vars(Step(h))

-----------------------------------------------------------------------------

\* A resolution is announced only in answer to a firing service log that OCM accepted and
\* that no other resolution has answered (canSendServiceLog, "No SL sent when the alert was
\* firing -> nothing to do").  Stated where the times tell the order of the two events.
AnswersAnnouncement ==
  [][\A h \in Handlers :
       LET r == rec[Notification(h)]
       IN  ClaimsResolved(h) /\ r.slSent.at > r.firing.at => announced[Notification(h)]]_hvars
=============================================================================
