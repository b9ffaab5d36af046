SPECIFICATION Spec
CONSTANTS
  approved = approved
  rejected = rejected
  x1 = x1
  x2 = x2
  s1 = s1
  s2 = s2
  s3 = s3
  h1 = h1
  h2 = h2
  NoCase = NoCase
  NoDelivery = NoDelivery
  NoClient = NoClient
  NoSecret = NoSecret
  Unmounted = Unmounted
  QueueCases = {x1, x2}
  HistoryCases = {1, 2, 3}
  Outcomes = {approved, rejected}
  Times = {1, 2}
  PageSize = 1
  HistorySlots = {h1, h2}
  Slots = {s1, s2, s3}
  Deliveries = {x1, x2}
  MaxWrites = 3
  Clients = {x1, x2}
  MaxChanges = 2
SYMMETRY ConsoleSymmetry
INVARIANTS
  FormFollowsRulings
  NewestFirst
  NothingSkipped
  ViewBelongsTogether
  NothingOlder
  SecretsAreShown
  AnswersStay
