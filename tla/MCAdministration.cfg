SPECIFICATION MCSpec
CONSTANTS
  c = c
  g = g
  h = h
  u1 = u1
  u2 = u2
  n1 = n1
  r1 = r1
  r2 = r2
  p1 = p1
  p2 = p2
  Channels = {c}
  Groups = {g, h}
  Urls = {u1, u2}
  Endpoints = {u1, u2}
  Names = {n1}
  Absent = Absent
  Missing = Missing
  Corrupt = Corrupt
  None = None
  Legacies = {2}
  Updates = {p1, p2}
  Timeouts = {1, 2}
  Limits = {1, 2}
  DefaultLimit = 1
  Same = Same
  Changes <- MCChanges
  Stored <- MCStored
  NoClient = NoClient
  Free = Free
  Catalog = Catalog
  MaxCached = 1
  MinDelay = 1
  MaxAge = 1
  Requests = {r1, r2}
  Files <- MCFiles
  MaxEvents = 3
SYMMETRY MCSymmetry
INVARIANTS CommittedStays SnapshotIsFile SettingsAgree PoolHasTheTimeout 
CHECK_DEADLOCK FALSE
