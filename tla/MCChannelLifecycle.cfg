SPECIFICATION Spec
CONSTANTS
  Models = {m1}
  Channels = {c1}
  Groups = {g1}
  NoChannel = NoChannel
  MaxFailCount = 1
  Cooldown = 0
  Resets = {2, 3}
  MaxTime = 3
  MaxEpisode = 1
  Requests = {r1, r2}
  Idle = Idle
SYMMETRY RequestSymmetry
INVARIANT WindowsAgree
PROPERTY RestartKeepsWindows
CHECK_DEADLOCK FALSE
