\* OCM may refuse; two clusters share a record.
SPECIFICATION Spec
CONSTANTS
  slA = slA
  lsA = lsA
  lsB = lsB
  sl = sl
  ls = ls
  mc = mc
  Handlers = {h1, h2}
  Items = {lsA, lsB}
  LimitedSupport = {ls}
  TemplateOf <- MCTemplateOf
  RecordOf <- MCRecordOf
  KeyOf <- MCKeyOf
  ResendWait <- MCResendWait
  MinResend = 1
  BackoffInterval = 2
  MaxSendTime = 1
  Steps = 2
  MaxTime = 1
  MaxReasons = 3
  Faults = {"ocmError"}
INVARIANTS LedgerMatchesOCM
