CONSTANTS
  None = None
  Attempts = {a1, a2}
  MaxSha = 2
  MaxJobs = 2
  MaxKills = 2
SPECIFICATION Spec
INVARIANTS RunningWhole SchemaServed NoneStranded
PROPERTIES VerdictTrue
CHECK_DEADLOCK FALSE
