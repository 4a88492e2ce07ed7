SPECIFICATION BalancerSpec
CONSTANTS
  N = 3
  Weights = {1, 2, 3}
  s1 = s1
  s2 = s2
  s3 = s3
  Sessions = {s1, s2, s3}
  Hash <- MCHash
  Configs <- MCConfigs
  Scenarios <- MCScenarios
  TrimBatch = 1
  MaxTime = 4
  MaxTurns = 9
INVARIANT TurnsAreFair
 
CHECK_DEADLOCK FALSE
