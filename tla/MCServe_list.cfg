\* The proxies alone, OCM answering; the cluster has as many policies as a page holds.
SPECIFICATION HFairSpec
CONSTANTS
  r1 = r1
  r2 = r2
  Requests = {r1}
  Policies = {p1, p2}
  States = {"scheduled"}
  PageSize = 2
  Faults = {}
  Configs <- MCListConfigs
  Traffic <- MCListTraffic
PROPERTIES ListAnswered
