SPECIFICATION Spec
CONSTANTS
  Models = {m1}
  Channels = {c1}
  Groups = {g1}
  NoChannel = NoChannel
  MaxFailCount = 2
  Cooldown = 1
  Resets = {2}
  MaxTime = 3
  MaxEpisode = 3
INVARIANTS HealthMatchesEpisodes BurstOpensCircuit
PROPERTY ImplementsViews
CHECK_DEADLOCK FALSE
