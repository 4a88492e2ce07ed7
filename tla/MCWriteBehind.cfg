SPECIFICATION MCSpec
CONSTANTS
  r1 = r1
  r2 = r2
  s1 = s1
  Records = {r1, r2, s1}
  Requests = {r1, r2}
  Workers = {w1, w2}
  Capacity = 1
  Idle = Idle
  MaxCrashes = 2
  MaxStops = 1
  LastDay = 3
  RecentDays = 2
  ReportDays = 2
  MaxAsked = 3
INVARIANTS  CountedOnce  
PROPERTIES StopEnds
CHECK_DEADLOCK FALSE
