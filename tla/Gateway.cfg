SPECIFICATION GatewaySpec
CONSTANTS
  c1 = c1
  c2 = c2
  k1 = k1
  r1 = r1
  r2 = r2
  w1 = w1
  NoKey = NoKey
  NoReviewer = NoReviewer
  NoCheck = NoCheck
  NoAnswer = NoAnswer
  NoPayload = NoPayload
  Checks = {c1, c2}
  Reviewers = {r1, r2}
  Keys = {k1}
  Key <- OneKey
  ClientCalls = {c1, c2}
  NoDelivery = NoDelivery
  Workers = {w1}
  Operators = {}
  MaxAttempts = 2
  BatchSize = 1
  Lease = 1
  StatusTimeout = 1
  ClaimDelay = 0
  AttemptCap = 2
SYMMETRY GatewaySymmetry
INVARIANTS
  HandoversFit
  AnswersAgree
  RetryLearnsRuling
  AnnouncementIsInForce
PROPERTIES
  ImplementsEndToEnd
  ImplementsContract
  DecisionInForceIsStable
