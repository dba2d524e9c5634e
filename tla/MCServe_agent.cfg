\* Two requests at a time in every mode, while OCM and its policies change.
SPECIFICATION HFairSpec
CONSTANTS
  r1 = r1
  r2 = r2
  Requests = {r1, r2}
  Policies = {p1, p2}
  States = {"pending", "scheduled"}
  PageSize = 2
  Faults = {"clientGone", "crash"}
  Configs <- MCConfigs
  Traffic <- MCTraffic
INVARIANTS TypeOK
PROPERTIES ListWhole FailureShown GaugeClears AnsweredUnlessFull SecretNoticed ComesUp
