SPECIFICATION EitherSpec
CONSTANTS
  r1 = r1
  r2 = r2
  r3 = r3
  r4 = r4
  p1 = p1
  p2 = p2
  alice = alice
  bob = bob
  Nobody = Nobody
  Requests = {r1, r2, r3, r4}
  Procs = {p1, p2}
  Names = {alice, bob}
  Home <- TwoProcesses
  Name <- SharedName
  TokenHolders = {r1, r4}
  u1 = u1
  q1 = q1
  q2 = q2
  NoToken = NoToken
  Holders = {u1}
  Calls = {q1, q2}
  Second = 2
  Hour = 4
  Lifetime = 8
  MaxTime = 8
  MaxTokens = 2
CHECK_DEADLOCK FALSE
INVARIANTS
  OneBootstrappedAdmin
  CheckStaysValid
  RefreshGainsTime
PROPERTIES
  ImplementsContract
  EveryRegistrationEnds
