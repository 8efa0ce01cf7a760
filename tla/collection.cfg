\* The worktrees of a project come and go; entries are collected, pinned, released.
CONSTANTS
  MaxPort = 3
  p1 = p1
  p2 = p2
  w1 = w1
  w2 = w2
  j1 = j1
  small = small
  large = large
  None = None
  Procs = {p1, p2}
  Worktrees = {w1, w2}
  Projects = {j1}
  ProjectOf <- OneProject
  Manifests = {small}
  Size <- Sizes
  Configs <- Pool2
  Reservable <- ReservedRanges
  Commands = {"sync", "release", "pin", "unpin", "prune", "pruneAll", "reserve", "unreserve"}
  Events = {"remove", "deleteRepo"}
  FastPath = FALSE
  MaxSequence = 2
SPECIFICATION Spec
SYMMETRY Symmetry
CHECK_DEADLOCK FALSE
INVARIANTS NoSharedPorts
PROPERTIES PinnedSurvivesCollection ImplementsLeases
