SPECIFICATION Spec
CONSTANTS
  d1 = d1
  w1 = w1
  o1 = o1
  NoDelivery = NoDelivery
  Deliveries = {d1}
  Workers = {w1}
  Operators = {o1}
  MaxAttempts = 2
  BatchSize = 1
  Lease = 2
  StatusTimeout = 1
  ClaimDelay = 1
  AttemptCap = 3
PROPERTIES
  ManualRetryOnlyFailed
