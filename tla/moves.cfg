\* Two worktrees are synced, moved, released, with the lock-free path among them.
CONSTANTS
  MaxPort = 3
  p1 = p1
  p2 = p2
  w1 = w1
  w2 = w2
  j1 = j1
  small = small
  large = large
  None = None
  Procs = {p1, p2}
  Worktrees = {w1, w2}
  Projects = {j1}
  ProjectOf <- OneProject
  Manifests = {small}
  Size <- Sizes
  Configs <- Pool3
  Reservable = {}
  Commands = {"sync", "reallocate", "release", "deinit"}
  Events = {"loseEnv"}
  FastPath = TRUE
  MaxSequence = 4
SPECIFICATION Spec
SYMMETRY Symmetry
CHECK_DEADLOCK FALSE
INVARIANTS LedgerDisjoint EnvReserved
PROPERTIES SavesAreSerial GenerationCountsMoves ReturnedBlockIsOwned
