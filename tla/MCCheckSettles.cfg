\* One invocation at a time, two cycles of two attempts, one fault, deletion.
CONSTANTS
  a = a
  b = b
  Nobody = Nobody
  Procs = {a}
  MaxRetries = 1
  Deletable = TRUE
  MaxCycles = 2
  MaxFaults = 1
SPECIFICATION FairSpec
CHECK_DEADLOCK FALSE
INVARIANTS StatusMatchesIncident
PROPERTIES JobsComplete CyclesGoOn
