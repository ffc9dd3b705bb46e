\* Two racing invocations, two cycles, one fault.
CONSTANTS
  a = a
  b = b
  Nobody = Nobody
  Procs <- Two
  MaxRetries = 0
  Deletable = FALSE
  MaxCycles = 2
  MaxFaults = 1
SPECIFICATION Spec
SYMMETRY Symmetry
CHECK_DEADLOCK FALSE
INVARIANTS TypeOK MutableSentOnce LateOutcomeTouchesNothing
PROPERTIES StatusMovesForward
