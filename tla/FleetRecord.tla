------------------------------ MODULE FleetRecord -----------------------------
(***************************************************************************)
(* The items of a ManagedFleetNotificationRecord, and what                 *)
(* updateNotificationStatus of pkg/handlers/webhookrhobsreceiver.go makes  *)
(* of one.  An item is about one template and one hosted cluster.          *)
(***************************************************************************)
EXTENDS Naturals

CONSTANTS
  Items,            \* what alerts are about
  TemplateOf,       \* the ManagedFleetNotification an item names
  LimitedSupport,   \* the templates that set limited support
  ResendWait,       \* spec.resendWait of each template, in ticks
  MinResend         \* the three minutes that replace a resendWait of 0

Templates == {TemplateOf[i] : i \in Items}

ASSUME ItemAssumption ==
  /\ ResendWait \in [Templates -> Nat]
  /\ LimitedSupport \subseteq Templates
  /\ MinResend \in Nat

\* NotificationRecordItem: FiringNotificationSentCount, ResolvedNotificationSentCount and
\* LastTransitionTime; one that is not stored yet counts as a new one.
Item == [stored : BOOLEAN, fired : Nat, resolved : Nat, last : Nat]
NoItem == [stored |-> FALSE, fired |-> 0, resolved |-> 0, last |-> 0]

IsLS(i) == TemplateOf[i] \in LimitedSupport

\* A resendWait of 0 stands for three minutes.
DontResend(i) ==
  IF ResendWait[TemplateOf[i]] > 0 THEN ResendWait[TemplateOf[i]] ELSE MinResend

\* Reading a record adds the item to the copy if it is not there.
Found(item) == [item EXCEPT !.stored = TRUE]

\* A firing alert that may be sent counts it and stamps it; a resolved one levels the counters.
Counted(item, t) == [item EXCEPT !.fired = @ + 1, !.last = t]
Levelled(item) == [item EXCEPT !.resolved = item.fired]
=============================================================================
