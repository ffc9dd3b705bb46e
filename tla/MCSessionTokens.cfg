\* Two requests at a time, four tokens, one password reset.
CONSTANTS
  a = a
  b = b
  Procs = {a, b}
  Grace = 0
  WalkLimit = 2
  RotationAttempts = 2
  MaxTokens = 4
  MaxResets = 1
  MaxClock = 1
SYMMETRY Symmetry
SPECIFICATION Spec
CHECK_DEADLOCK FALSE
INVARIANTS TypeOK HeldIsCurrent OneHead RaceIsNotReuse
