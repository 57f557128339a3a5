\* Progress of one dispatcher under fairness.
SPECIFICATION FairSpec
CONSTANTS
  Users = {u1}
  Payloads = {p1}
  Txids = {t1}
  Workers = {w1}
  Requests = {r1}
  None = None
  MaxRows = 1
  MaxTime = 1
  MaxDrafts = 0
  Timeout = 0
  Required = 1

PROPERTIES ConfirmedSettles UnknownGivenUp
