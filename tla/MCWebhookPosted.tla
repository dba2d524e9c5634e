-------------------------- MODULE MCWebhookPosted ----------------------------
(***************************************************************************)
(* WebhookReceiver with a history variable that remembers when OCM last    *)
(* accepted a firing service log of each notification.                     *)
(***************************************************************************)
EXTENDS MCWebhookReceiver

VARIABLE postedAt

pvars == <<vars, postedAt>>
Never == MaxTime + 1

Posts(h, n) ==
  pc[h] = "send" /\ pc'[h] = "record" /\ ctx'[h].sent /\ job[h].firing /\ Notification(h) = n

PInit == Init /\ postedAt = [n \in Notifications |-> Never]

PNext ==
  /\ Next
  /\ postedAt' = [n \in Notifications |->
       IF \E h \in Handlers : Posts(h, n) THEN now ELSE postedAt[n]]

PSpec == PInit /\ [][PNext]_pvars

\* The first of processAlert's questions, "Has a servicelog already been sent and we are
\* within the notification's do-not-resend window?", is answered by what was sent: with
\* nobody else sending, no firing claim comes within resendWait of an accepted service log.
HonoursResendWindow ==
  [][\A h \in Handlers :
       LET n == Notification(h)
       IN  /\ ClaimsFiring(h)
           /\ \A g \in Handlers \ {h} : Sending(g) => Notification(g) # n
           => postedAt[n] = Never \/ now >= postedAt[n] + ResendWait[n]]_pvars
=============================================================================
