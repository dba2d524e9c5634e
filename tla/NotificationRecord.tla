------------------------- MODULE NotificationRecord -------------------------
(***************************************************************************)
(* The decisions of the classic webhook on one notification record: may a  *)
(* service log be sent, and what do the conditions become.  Pure operators *)
(* translated from the methods of notificationContext; the state machine   *)
(* around them is WebhookReceiver, the atomic one AlertLedger.             *)
(*                                                                         *)
(* A record is [firing, resolved, slSent]: the conditions AlertFiring,     *)
(* AlertResolved and ServiceLogSent.  A condition keeps its status and the *)
(* time of its last transition, "None" standing for a nil condition.       *)
(***************************************************************************)
EXTENDS Naturals

CONSTANTS
  Notifications,    \* the notification templates
  ResendWait,       \* spec.resendWait of each template, in ticks
  HasResolvedDesc,  \* the templates with a non-empty resolvedBody
  InFlightWindow    \* the three minutes after a webhook call

ASSUME RecordAssumption ==
  /\ ResendWait \in [Notifications -> Nat]
  /\ HasResolvedDesc \subseteq Notifications
  /\ InFlightWindow \in Nat

Status == {"True", "False", "None"}
Condition == [status : Status, at : Nat]
Record == [firing : Condition, resolved : Condition, slSent : Condition]

Absent == [status |-> "None", at |-> 0]
NewRecord == [firing |-> Absent, resolved |-> Absent, slSent |-> Absent]

Present(cond) == cond.status # "None"
Holds(cond) == cond.status = "True"

-----------------------------------------------------------------------------

WithinResendWait(n, r, t) ==
  Holds(r.slSent) /\ t < r.slSent.at + ResendWait[n]

\* Mutant: the window is measured on AlertFiring, whose time only moves when the alert toggles.
CalledRecentlyByToggle(r, t) ==
  Present(r.resolved) /\ t < r.firing.at + InFlightWindow

\* AlertResolved carries the time of the last webhook call while the alert fires.
CalledRecently(r, t) ==
  Present(r.resolved) /\ t < r.resolved.at + InFlightWindow

\* The last service log went out while (or in the instant when) the alert was firing.
SentSinceFiring(r) ==
  Present(r.firing) /\ Holds(r.slSent) /\ r.slSent.at >= r.firing.at

CanSendFiring(n, r, t) ==
  \/ ~Present(r.slSent)
  \/ /\ ~WithinResendWait(n, r, t)
     /\ Holds(r.firing) => ~CalledRecently(r, t)

\* Mutant: a resolution is announced whatever the record says was sent.
CanSendAnyResolved(n, r) == n \in HasResolvedDesc /\ Holds(r.firing)

CanSendResolved(n, r) ==
  n \in HasResolvedDesc /\ Holds(r.firing) /\ SentSinceFiring(r)

CanSend(n, r, isFiring, t) ==
  IF isFiring THEN CanSendFiring(n, r, t) ELSE CanSendResolved(n, r)

-----------------------------------------------------------------------------

SetCondition(cond, value, updateTime, t) ==
  [status |-> IF value THEN "True" ELSE "False",
   at |-> IF updateTime \/ ~Present(cond) THEN t ELSE cond.at]

\* Mutant: the time of AlertFiring moves on every webhook call, that of AlertResolved does not.
AfterAlertSwapped(r, isFiring, t) ==
  LET changed == isFiring # Holds(r.firing)
  IN  [firing |-> SetCondition(r.firing, isFiring, changed \/ isFiring, t),
       resolved |-> SetCondition(r.resolved, ~isFiring, changed, t),
       slSent |-> r.slSent]

AfterAlert(r, isFiring, t) ==
  LET changed == isFiring # Holds(r.firing)
  IN  [firing |-> SetCondition(r.firing, isFiring, changed, t),
       resolved |-> SetCondition(r.resolved, ~isFiring, changed \/ isFiring, t),
       slSent |-> r.slSent]

AfterSend(r, sent, t) ==
  [firing |-> r.firing, resolved |-> r.resolved,
   slSent |-> SetCondition(r.slSent, sent, TRUE, t)]
=============================================================================
