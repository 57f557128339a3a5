\* One dispatcher, two racing requests of one user, drafts, a stopping clock.
SPECIFICATION Spec
CONSTANTS
  Users = {u1}
  Payloads = {p1, p2}
  Txids = {t1}
  Workers = {w1}
  Requests = {r1, r2}
  None = None
  MaxRows = 2
  MaxTime = 1
  MaxDrafts = 1
  Timeout = 0
  Required = 1
SYMMETRY Symmetry
INVARIANTS PreparedOnce EnvelopeMatchesRow NoLiveFailure
PROPERTIES FrozenAndTerminal
