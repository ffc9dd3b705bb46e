\* One invocation at a time; the redrives reach their limit and a message
\* could still be sent beyond it; two faults.
CONSTANTS
  a = a
  b = b
  Procs = {a}
  MaxRedrives = 1
  MaxFailures = 1
  Tombstones = FALSE
  MaxSends = 3
  MaxFaults = 2
SPECIFICATION FairSpec
CHECK_DEADLOCK FALSE
INVARIANTS RedriveBounded
PROPERTIES RowsSettle WorkSettles
