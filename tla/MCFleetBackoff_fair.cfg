\* Two alerts at a time on an item of either kind, fairly scheduled; a send may outlast the
\* resend window, OCM and the API server may refuse anything, and the pod may die.
SPECIFICATION LFairSpec
CONSTANTS
  slA = slA
  lsA = lsA
  lsB = lsB
  sl = sl
  ls = ls
  mc = mc
  Handlers = {h1, h2}
  Items = {slA, lsA}
  LimitedSupport = {ls}
  TemplateOf <- MCTemplateOf
  RecordOf <- MCRecordOf
  KeyOf <- MCKeyOf
  ResendWait <- MCShortWait
  MinResend = 0
  BackoffInterval = 2
  MaxSendTime = 1
  Steps = 2
  MaxTime = 2
  MaxReasons = 3
  Faults = {"apiError", "ocmError", "rateLimit", "crash"}
PROPERTIES ConcurrentBackoffKept StepsRunOut AlertCompletes
VIEW WithoutGauge
