SPECIFICATION EitherSpec
CONSTANTS
  a1 = a1
  a2 = a2
  c1 = c1
  c2 = c2
  k1 = k1
  k2 = k2
  k3 = k3
  s1 = s1
  s2 = s2
  s3 = s3
  u1 = u1
  u2 = u2
  p1 = p1
  p2 = p2
  Nothing = Nothing
  Admins = {a1, a2}
  Calls = {c1}
  Keys = {k1}
  Secrets = {s1}
  Urls = {u1}
  Policies = {p1}
  NoWait = NoWait
  Callers = {c1}
  Limit = 1
  Second = 1
  Window = 1
  Excess = 0
INVARIANTS
  ActivationAnswersActive
