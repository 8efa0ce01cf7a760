\* Backups fail; a corrupt ledger is restored, or abandoned and rebuilt.
CONSTANTS
  MaxPort = 3
  p1 = p1
  p2 = p2
  w1 = w1
  w2 = w2
  j1 = j1
  small = small
  large = large
  None = None
  Procs = {p1}
  Worktrees = {w1, w2}
  Projects = {j1}
  ProjectOf <- OneProject
  Manifests = {small}
  Size <- Sizes
  Configs <- Pool2
  Reservable = {}
  Commands = {"sync", "reallocate", "doctor", "abandon"}
  Events = {"corrupt", "backupFails"}
  FastPath = FALSE
  MaxSequence = 3
SPECIFICATION Spec
CHECK_DEADLOCK FALSE
INVARIANTS LedgerDisjoint
PROPERTIES DoctorLiftsQuarantine DoctorAccountsForEnvs
