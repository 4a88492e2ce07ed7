SPECIFICATION Spec
CONSTANTS
  m1 = m1
  c1 = c1
  c2 = c2
  Models = {m1}
  Channels = {c1, c2}
  Groups = {g1}
  NoChannel = NoChannel
  Items <- MCItems
  Group = g1
  Lazy = TRUE
  Priority <- MCPriority
  Budget = 1
  RetryAfters = {0}
  MinDelay = 1
  DefaultDelay = 2
  QueueWaits = {1}
  MaxEndpoints = 2
INVARIANTS NeverBack AttemptsBounded
PROPERTY Terminates
CHECK_DEADLOCK FALSE
