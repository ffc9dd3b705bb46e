SPECIFICATION Spec
CONSTANTS
  r1 = r1
  r2 = r2
  c1 = c1
  d1 = d1
  d2 = d2
  NoDelivery = NoDelivery
  Requests = {r1, r2}
  Crons = {r2}
  Deliveries = {d1, d2}
  Outcomes = {"FAILED"}
  MaxRetries = 1
  MaxInfraRetries = 1
  MaxCrashes = 0
INVARIANTS
  TypeOK
  NeverStranded
  Billing
  SettledHandled
  ExclusiveLease
  SecretsOnce
PROPERTIES
  StaleOutcomeIgnored
  VerdictsAreFinal
