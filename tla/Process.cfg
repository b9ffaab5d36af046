SPECIFICATION EitherSpec
CONSTANTS
  c1 = c1
  v1 = v1
  v2 = v2
  long = long
  Blank = Blank
  Missing = Missing
  Unset = Unset
  Garbage = Garbage
  Nothing = Nothing
  Clients = {c1}
  Versions = {v1, v2, long}
  TooLong = {long}
  Configs <- MCConfigs
  Answers <- MCAnswers
  Operator = Operator
  Top = 3
  Labels = {"hate", "spam"}
  Canon <- MCCanon
  Second = 2
  MaxBatch = 3
  Defaults <- MCDefaults
  Values <- MCValues
  MaxSet = 2
INVARIANTS
  UsableButForBatchSize
  ResultsAreExplained
  VettedVersionsResolve
