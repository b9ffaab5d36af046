SPECIFICATION FairSpec
CONSTANTS
  p1 = p1
  p2 = p2
  r1 = r1
  s1 = s1
  NoTask = NoTask
  Processes = {p1, p2}
  Requests = {r1, s1}
  Strays = {s1}
  Home <- ServedByFirst
  MaxResults = 1
INVARIANTS
  Accounted
PROPERTIES
  ProcessedStays
  Settles
