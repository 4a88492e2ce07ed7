SPECIFICATION Spec
CONSTANTS
  b2 = b2
  b1 = b1
  x = x
  y = y
  z = z
  p = p
  q = q
  c1 = c1
  None = None
  Docs = {b2, b1, x, y, z}
  Revisions = {"builtin-2", "builtin-1", "new"}
  Profiles = {p, q}
  Channels = {c1}
  RevisionOf <- MCRevisionOf
  ProfilesOf <- MCProfilesOf
  Conflicted = {z}
  Fetched = {y, z}
  Builtin = b2
  Legacy = b1
  MaxPending = 2
  MaxCrashes = 1
INVARIANTS CatalogSound BindingsHold
CHECK_DEADLOCK FALSE
