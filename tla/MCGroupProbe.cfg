SPECIFICATION Spec
CONSTANTS
  c1 = c1
  c2 = c2
  m1 = m1
  g1 = g1
  NoChannel = NoChannel
  Models <- MCModels
  Channels <- MCChannels
  Groups <- MCGroups
  Lists <- MCLists
  Rank <- MCRank
  Endpoints <- MCEndpoints
  Cap = 1
  MaxConsec = 1
  Interval = 1
  Concurrency = 1
INVARIANT FailuresBlamedOnce
PROPERTIES RoundEnds DegradedIsProbed
