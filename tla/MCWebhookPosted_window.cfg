\* Without any failure: two templates share an object.
SPECIFICATION PSpec
CONSTANTS
  n1 = n1
  n2 = n2
  a1 = a1
  a2 = a2
  junk = junk
  mn = mn
  Handlers = {h1, h2}
  Notifications = {n1, n2}
  Alerts = {a1, a2, junk}
  HasResolvedDesc = {n1}
  NotificationOf <- MCNotificationOf
  BundleOf <- MCBundleOf
  ResendWait <- MCResendWait
  Requests <- MCTwoTemplates
  InFlightWindow = 2
  MaxSendTime = 1
  Steps = 2
  MaxTime = 2
  Faults = {}
PROPERTIES HonoursResendWindow
