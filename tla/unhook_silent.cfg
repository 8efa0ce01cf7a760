\* A hook whose begin marker somebody deleted.
CONSTANTS
  Processes = {p1}
  Commands = {"unhook"}
  Binaries = {"call1"}
  HookPaths <- OnlyUnset
  Checkouts <- Managed1
  Excludes <- NoExclude
  Inserts = {}
  Deletes = {"begin"}
  MaxEdits = 1
SPECIFICATION Spec
CHECK_DEADLOCK FALSE
PROPERTIES UnhookSilences
