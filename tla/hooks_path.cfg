\* Every place git may look for hooks, with all that init and deinit do.
CONSTANTS
  Processes = {p1}
  Commands = {"init", "unhook", "deinit", "gitignoreOnly", "sync"}
  Binaries = {"call1"}
  HookPaths <- AnyPath
  Checkouts <- Anywhere
  Excludes <- SomeExcludes
  Inserts = {}
  Deletes = {}
  MaxEdits = 0
SPECIFICATION Spec
CHECK_DEADLOCK FALSE
INVARIANTS TypeOK
PROPERTIES WritesStayHome InitWires EntriesOutliveHooks DeinitLeavesNothing
