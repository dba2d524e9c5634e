\* Two requests at a time on one template, every fault, over a clock that crosses both windows.
SPECIFICATION Spec
CONSTANTS
  n1 = n1
  n2 = n2
  a1 = a1
  a2 = a2
  junk = junk
  mn = mn
  Handlers = {h1, h2}
  Notifications = {n1}
  Alerts = {a1, junk}
  HasResolvedDesc = {n1}
  NotificationOf <- MCOneNotification
  BundleOf <- MCBundleOf
  ResendWait <- MCResendWait
  Requests <- MCOneTemplate
  InFlightWindow = 2
  MaxSendTime = 1
  Steps = 2
  MaxTime = 4
  Faults = {"apiError", "ocmError", "lostResponse", "crash"}
INVARIANTS TypeOK RecordsOrdered CopyIsCurrent
PROPERTIES ImplementsLedger RespectsResendWait ResendsAlone
SYMMETRY MCSymmetry
