SPECIFICATION EitherSpec
CONSTANTS
  r1 = r1
  r2 = r2
  r3 = r3
  d1 = d1
  u1 = u1
  k1 = k1
  NoClient = NoClient
  Nobody = Nobody
  NoReport = NoReport
  StatsRequests = {r1, r2}
  Requests = {r1, r2, r3}
  Principals <- BothPrincipals
  Readers = {d1}
  Limit = 2
SYMMETRY ReadsSymmetry
INVARIANTS
  ReadsHoldTogether
  FiguresAddUp
PROPERTIES
  FiguresGrow
