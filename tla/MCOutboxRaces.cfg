\* Two racing invocations, one redrive allowed, two messages, one fault, deletion.
CONSTANTS
  a = a
  b = b
  Procs <- Two
  MaxRedrives = 1
  MaxFailures = 2
  Tombstones = TRUE
  MaxSends = 2
  MaxFaults = 1
SPECIFICATION Spec
SYMMETRY Symmetry
CHECK_DEADLOCK FALSE
INVARIANTS TypeOK NothingLost DuplicateHasCause
PROPERTIES QuarantineIsFinal
