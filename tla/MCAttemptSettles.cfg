SPECIFICATION FairSpec
CONSTANTS
  r1 = r1
  r2 = r2
  d1 = d1
  NoDelivery = NoDelivery
  Requests = {r1}
  Crons = {r2}
  Deliveries = {d1}
  Outcomes = {"PASSED", "FAILED", "TIMEOUT"}
  MaxRetries = 1
  MaxInfraRetries = 1
  MaxCrashes = 1
INVARIANTS VerdictRecorded
PROPERTIES RunSettles ImplementsContract
