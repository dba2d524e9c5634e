-------------------------- MODULE MCWebhookReceiver --------------------------
(***************************************************************************)
(* Small instances of WebhookReceiver for TLC.                             *)
(***************************************************************************)
EXTENDS WebhookReceiver, TLC

CONSTANTS n1, n2, a1, a2, junk, mn

\* Two templates in one ManagedNotification object, and an alert that names no template.
MCNotificationOf == (a1 :> n1 @@ a2 :> n2 @@ junk :> "unmapped")
MCOneNotification == (a1 :> n1 @@ junk :> "unmapped")
MCBundleOf == [n \in Notifications |-> mn]
MCResendWait == [n \in Notifications |-> 2]
MCSymmetry == Permutations(Handlers)

Batch(f, r) == [firing |-> f, resolved |-> r]

\* a1 fires, resolves, or fires in one batch with a resolved alert of no template.
MCOneTemplate == {Batch({a1}, {}), Batch({}, {a1}), Batch({a1}, {junk})}
MCFireAndResolve == {Batch({a1}, {}), Batch({}, {a1})}
\* Nothing but firing alerts, of two templates.
MCTwoTemplates == {Batch({a1}, {}), Batch({a2}, {})}

-----------------------------------------------------------------------------
\* What comments and docs say of the program, and the runs refute.

\* While one handler is trying to send the service log of a firing alert, a call for the alert
\* that is still firing has "nothing to do" (canSendServiceLog on the 3 minute window).
OneSenderPerFiring ==
  [][\A h \in Handlers :
       ClaimsFiring(h) /\ ctx[h].wasFiring =>
         \A g \in Handlers \ {h} :
           ~(Sending(g) /\ job[g].firing /\ Notification(g) = Notification(h))]_vars
=============================================================================
