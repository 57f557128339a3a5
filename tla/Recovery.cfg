\* Enrolment, monitoring and delivery with one reorganisation or re-enrolment.
SPECIFICATION Spec
CONSTANTS
  Calls = {c1}
  None = None
  Delay = 1
  Expiration = 1
  Page = 1
  Parallel = 2
  OpenLimit = 1
  Events <- Cancelable
  MaxChallenges = 2
  MaxHeight = 2
  MaxSwitches = 1
  MaxChanges = 2
INVARIANTS TypeOK
PROPERTIES AlertNotLost FarewellIsLast StaleUpdateWritesNothing
