\* Two devices; the account is created up to twice; sessions, links and
\* challenges expire.
SPECIFICATION Spec
CONSTANTS
  Devices = {d1, d2}
  Passwords = {p1, p2}
  Keys = {k1, k2}
  None = None
  Sliding = 1
  Absolute = 1
  TokenTtl = 0
  ChallengeTtl = 0
  MaxAttempts = 1
  MaxWrites = 2
  MaxAccounts = 2
  MaxTime = 2
SYMMETRY Symmetry
INVARIANTS TypeOK VaultOpens KeysKept LinksDie
