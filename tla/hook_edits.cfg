\* Two commands at a time on the hooks people and older versions left, and edits between.
CONSTANTS
  Processes = {p1, p2}
  Commands = {"hookOnly", "unhook", "deinitKeep"}
  Binaries = {"call1", "call2"}
  HookPaths <- OnlyUnset
  Checkouts <- InDefault
  Excludes <- NoExclude
  Inserts = {"user1"}
  Deletes = {"end"}
  MaxEdits = 1
SPECIFICATION Spec
CHECK_DEADLOCK FALSE
SYMMETRY TwoProcesses
INVARIANTS InstallSettles InstallUndone
PROPERTIES UserLinesKept UnhookSilences
