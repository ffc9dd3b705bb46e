\* Two saga workers, two webhook deliveries.
CONSTANTS
  a = a
  b = b
  h1 = h1
  h2 = h2
  u1 = u1
  Workers = {a, b}
  Hooks = {h1, h2}
  Uploads = {}
  MaxChanges = 1
  MaxClock = 1
  MaxFaults = 1
SYMMETRY Symmetry
SPECIFICATION Spec
CHECK_DEADLOCK FALSE
INVARIANTS TypeOK CompletedIsCanceled RowFollowsProvider
