\* Two overlapping requests for one masternode, four possible votes.
SPECIFICATION Spec
CONSTANTS
  Outpoints = {m1}
  VoteTimes = {1,2}
  Outcomes = {1,2}
  Requests = {r1,r2}
  Reconcilers = {}
  Reads = {}
  None = None
  Concurrency = 1
  Grace = 2
  Recent = 1
  SkipFresh = 1
  RouteFresh = 1
  Ttl = 1
  RpcTimeout = 1
  MaxTime = 1
SYMMETRY Symmetry
PROPERTIES NewerIntentKept
