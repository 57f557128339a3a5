\* Two dispatchers and two submissions of one payload; crashes, lost answers.
SPECIFICATION Spec
CONSTANTS
  Users = {u1}
  Payloads = {p1}
  Txids = {t1, t2}
  Workers = {w1, w2}
  Requests = {r1}
  None = None
  MaxRows = 2
  MaxTime = 0
  MaxDrafts = 0
  Timeout = 0
  Required = 1
SYMMETRY Symmetry
INVARIANTS EmitOnce MailTruthful
PROPERTIES Implements
