\* Progress of one batch and one reconciliation under fairness.
SPECIFICATION FairSpec
CONSTANTS
  Outpoints = {m1}
  VoteTimes = {1}
  Outcomes = {1}
  Requests = {r1}
  Reconcilers = {q1}
  Reads = {n1}
  None = None
  Concurrency = 1
  Grace = 2
  Recent = 1
  SkipFresh = 1
  RouteFresh = 1
  Ttl = 1
  RpcTimeout = 1
  MaxTime = 2
PROPERTIES Answered
