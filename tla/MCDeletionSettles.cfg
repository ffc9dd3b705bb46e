\* One saga worker, one webhook, one upload, every step fair.
CONSTANTS
  a = a
  b = b
  h1 = h1
  h2 = h2
  u1 = u1
  Workers = {a}
  Hooks = {h1}
  Uploads = {u1}
  MaxChanges = 1
  MaxClock = 2
  MaxFaults = 1
SPECIFICATION FairSpec
CHECK_DEADLOCK FALSE
INVARIANTS NothingLeftBehind
PROPERTIES DeletionCompletes
