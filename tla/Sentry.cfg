\* Two requests race over one operation that can be signed in two ways.
SPECIFICATION Spec
CONSTANTS
  Signed = {s1, s2}
  Calls = {c1, c2}
  None = None
  Expiry = 0
  RetryWait = 1
  MaxTime = 1
SYMMETRY Symmetry
INVARIANTS OnePublication StatusWasObserved
PROPERTIES AttemptsSpaced
