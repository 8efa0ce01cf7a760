\* One process; the ledger is corrupted at any time and restored from its backup.
CONSTANTS
  MaxPort = 3
  p1 = p1
  p2 = p2
  w1 = w1
  w2 = w2
  j1 = j1
  small = small
  large = large
  None = None
  Procs = {p1}
  Worktrees = {w1, w2}
  Projects = {j1}
  ProjectOf <- OneProject
  Manifests = {small, large}
  Size <- Sizes
  Configs <- Pool3
  Reservable = {}
  Commands = {"sync", "reallocate", "release", "doctor"}
  Events = {"edit", "corrupt"}
  FastPath = FALSE
  MaxSequence = 4
SPECIFICATION Spec
SYMMETRY Symmetry
CHECK_DEADLOCK FALSE
INVARIANTS TypeOK LedgerDisjoint BackupCoversEnvs EnvSequenceBehind EnvReserved
  FreshBackupIsCurrent
