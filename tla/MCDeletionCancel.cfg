\* One saga worker and one webhook delivery, no faults.
CONSTANTS
  a = a
  b = b
  h1 = h1
  h2 = h2
  u1 = u1
  Workers = {a}
  Hooks = {h1}
  Uploads = {}
  MaxChanges = 0
  MaxClock = 0
  MaxFaults = 0
SPECIFICATION Spec
CHECK_DEADLOCK FALSE
PROPERTIES LocalCancelConfirmed
