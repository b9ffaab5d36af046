SPECIFICATION FairSpec
CONSTANTS
  d1 = d1
  d2 = d2
  w1 = w1
  o1 = o1
  NoDelivery = NoDelivery
  Deliveries = {d1, d2}
  Workers = {w1}
  Operators = {o1}
  MaxAttempts = 3
  BatchSize = 1
  Lease = 2
  StatusTimeout = 1
  ClaimDelay = 1
  AttemptCap = 2
PROPERTIES
  Settles
