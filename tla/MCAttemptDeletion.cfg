SPECIFICATION Spec
CONSTANTS
  r1 = r1
  r2 = r2
  c1 = c1
  d1 = d1
  d2 = d2
  NoDelivery = NoDelivery
  Requests = {r1, r2}
  Crons = {r2}
  Deliveries = {d1}
  Outcomes = {"FAILED"}
  MaxRetries = 0
  MaxInfraRetries = 1
  MaxCrashes = 0
PROPERTIES
  DeletionSparesOwnedWork
