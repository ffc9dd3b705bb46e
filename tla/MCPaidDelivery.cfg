\* Two workers and two deliveries, a daily limit of one alert.
CONSTANTS
  a = a
  b = b
  d1 = d1
  d2 = d2
  Nobody = Nobody
  Procs = {a, b}
  Deliveries = {d1, d2}
  Credit = 2
  DailyLimit = 1
  MaxFaults = 1
  MaxChanges = 1
SYMMETRY Symmetry
SPECIFICATION Spec
CHECK_DEADLOCK FALSE
INVARIANTS TypeOK CalledAgainOnlyIfRejected AcceptedIsPaid CreditKept AckedIsReported
PROPERTIES ImplementsDelivery
