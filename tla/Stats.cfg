CONSTANTS
  None = None
  Base = 1
  MaxBackoff = 2
  Watchdog = 1
  MaxGen = 3
  MaxStops = 1
SPECIFICATION FairSpec
INVARIANTS OneLoop ReadyIsCurrent
PROPERTIES NewerOnly LoopGoesOn CoreRefreshed
