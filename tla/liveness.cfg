\* Two processes contend for the lock while worktrees vanish.
CONSTANTS
  MaxPort = 3
  p1 = p1
  p2 = p2
  w1 = w1
  w2 = w2
  j1 = j1
  small = small
  large = large
  None = None
  Procs = {p1, p2}
  Worktrees = {w1, w2}
  Projects = {j1}
  ProjectOf <- OneProject
  Manifests = {small}
  Size <- Sizes
  Configs <- Pool3
  Reservable = {}
  Commands = {"sync", "reallocate", "release", "doctor"}
  Events = {"remove"}
  FastPath = TRUE
  MaxSequence = 1
SPECIFICATION FairSpec

CHECK_DEADLOCK FALSE
PROPERTIES CommandsEnd
