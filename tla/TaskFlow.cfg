SPECIFICATION FairSpec
CONSTANTS
  p1 = p1
  p2 = p2
  r1 = r1
  s1 = s1
  NoTask = NoTask
  Processes = {p1}
  Requests = {r1}
  Strays = {}
  Home <- ServedByFirst
  MaxResults = 1
PROPERTIES
  TasksFlowAgain
