\* Without any failure: the first service log of a template.
SPECIFICATION Spec
CONSTANTS
  n1 = n1
  n2 = n2
  a1 = a1
  a2 = a2
  junk = junk
  mn = mn
  Handlers = {h1, h2}
  Notifications = {n1}
  Alerts = {a1, junk}
  HasResolvedDesc = {n1}
  NotificationOf <- MCOneNotification
  BundleOf <- MCBundleOf
  ResendWait <- MCResendWait
  Requests <- MCOneTemplate
  InFlightWindow = 2
  MaxSendTime = 1
  Steps = 2
  MaxTime = 2
  Faults = {}
PROPERTIES OneSenderPerFiring
