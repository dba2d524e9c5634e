\* Two alerts at a time on a service log item and a limited support item, every fault.
SPECIFICATION HSpec
CONSTANTS
  slA = slA
  lsA = lsA
  lsB = lsB
  sl = sl
  ls = ls
  mc = mc
  Handlers = {h1, h2}
  Items = {slA, lsA}
  LimitedSupport = {ls}
  TemplateOf <- MCTemplateOf
  RecordOf <- MCRecordOf
  KeyOf <- MCKeyOf
  ResendWait <- MCResendWait
  MinResend = 1
  BackoffInterval = 2
  MaxSendTime = 1
  Steps = 2
  MaxTime = 3
  MaxReasons = 2
  Faults = {"apiError", "ocmError", "rateLimit", "lostResponse", "crash"}
INVARIANTS TypeOK CounterGap OneSenderPerItem LedgerKept
PROPERTIES RespectsResendWindow ImplementsFleetLedger
SYMMETRY MCSymmetry
VIEW WithoutGauge
