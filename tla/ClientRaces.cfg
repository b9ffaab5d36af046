SPECIFICATION EitherSpec
CONSTANTS
  a1 = a1
  a2 = a2
  c1 = c1
  c2 = c2
  k1 = k1
  k2 = k2
  k3 = k3
  s1 = s1
  s2 = s2
  s3 = s3
  u1 = u1
  u2 = u2
  p1 = p1
  p2 = p2
  Nothing = Nothing
  Admins = {a1, a2}
  Calls = {c1}
  Keys = {k1, k2, k3}
  Secrets = {s1, s2}
  Urls = {u1, u2}
  Policies = {p1}
  NoWait = NoWait
  Callers = {c1, c2}
  Limit = 2
  Second = 2
  Window = 5
  Excess = 2
SYMMETRY Symmetry
INVARIANTS
  BarredStayOut
  ToldItsOwn
  SecretsStayApart
  SpanBounded
  AnswersHold
