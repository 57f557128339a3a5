\* Two blocks and one reorganisation; crashes and failures without bound.
CONSTANTS
  None = None
  MaxHeight = 2
  MaxSwitches = 1
SPECIFICATION Spec
INVARIANTS TypeOK OneFork SeenSinceStart NeverForgotten
PROPERTIES NeverBackwards
