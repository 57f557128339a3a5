\* One relay, one reconciliation, two reads of Core, four units of time.
SPECIFICATION Spec
CONSTANTS
  Outpoints = {m1}
  VoteTimes = {1}
  Outcomes = {1,2}
  Requests = {r1}
  Reconcilers = {q1}
  Reads = {n1,n2}
  None = None
  Concurrency = 1
  Grace = 2
  Recent = 1
  SkipFresh = 1
  RouteFresh = 1
  Ttl = 1
  RpcTimeout = 1
  MaxTime = 4
SYMMETRY Symmetry
INVARIANTS TypeOK DeliveredWasCounted
PROPERTIES UnknownSettledForward StaleOnEvidence
