SPECIFICATION Spec
CONSTANTS
  d1 = d1
  w1 = w1
  w2 = w2
  o1 = o1
  o2 = o2
  NoDelivery = NoDelivery
  Deliveries = {d1}
  Workers = {w1, w2}
  Operators = {o1, o2}
  MaxAttempts = 3
  BatchSize = 1
  Lease = 3
  StatusTimeout = 1
  ClaimDelay = 2
  AttemptCap = 4
SYMMETRY Symmetry
INVARIANTS
  TypeOK
  WriterHoldsRow
  PostsAreCounted
PROPERTIES
  SucceededIsFinal
  AutomaticRetriesBounded
  ImplementsContract
