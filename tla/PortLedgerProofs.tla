-------------------------- MODULE PortLedgerProofs --------------------------
(***************************************************************************)
(* Machine-checked proofs about the port ledger, for every set of          *)
(* processes, worktrees and configurations.                                *)
(***************************************************************************)
EXTENDS PortLedgerProps, TLAPS

-----------------------------------------------------------------------------
(* What the helpers return.                                                *)

\* The allocator's candidates are blocks.
LEMMA SlotsAreBlocks ==
  ASSUME NEW c \in Config, NEW n \in 1..MaxPort
  PROVE  Slots(c, n) \subseteq Block
BY PortAssumption DEF Slots, Config, Block

\* A block widened in place is a block.
LEMMA GrownIsBlock ==
  ASSUME NEW c \in Config, NEW n \in 1..MaxPort, NEW b \in Block, NEW B
  PROVE  GrownInPlace(c, n, b, B) \subseteq Block
BY PortAssumption DEF GrownInPlace, Config, Block

\* Whatever sync settles on is a block.
LEMMA SyncBlocksAreBlocks ==
  ASSUME NEW reg \in Registry, NEW w \in Worktrees, NEW m \in Manifests,
         NEW c \in Configs
  PROVE  SyncBlocks(reg, w, m, c) \subseteq Block
<1> DEFINE e == reg.worktrees[w]
<1>1. c \in Config /\ Size[m] \in 1..MaxPort
  BY LedgerAssumption
<1>2. \A B : FreeSlots(c, Size[m], B) \subseteq Block
  BY <1>1, SlotsAreBlocks DEF FreeSlots
<1>3. CASE e = None
  BY <1>2, <1>3 DEF SyncBlocks
<1>4. CASE e # None
  <2>1. e.block \in Block
    BY <1>4 DEF Registry, WorktreeEntry
  <2>2. \A B : GrownInPlace(c, Size[m], e.block, B) \subseteq Block
    BY <1>1, <2>1, GrownIsBlock
  <2> QED
    BY <1>2, <1>4, <2>1, <2>2 DEF SyncBlocks
<1> QED
  BY <1>3, <1>4

\* Numbering a save yields a registry.
LEMMA SavedType ==
  ASSUME NEW reg \in Registry
  PROVE  Saved(reg) \in Registry
BY DEF Saved, Registry

\* Dropping entries yields a registry.
LEMMA WithoutType ==
  ASSUME NEW reg \in Registry, NEW S
  PROVE  Without(reg, S) \in Registry
BY DEF Without, Registry

\* Committing a block yields a registry.
LEMMA CommittedType ==
  ASSUME NEW reg \in Registry, NEW w \in Worktrees, NEW o \in EnvFile
  PROVE  Committed(reg, w, o) \in Registry
<1> DEFINE e == [block |-> o.block, pending |-> {}, generation |-> o.generation,
                 manifest_hash |-> o.manifest,
                 pinned |-> IF reg.worktrees[w] = None THEN FALSE
                            ELSE reg.worktrees[w].pinned]
<1>1. e \in WorktreeEntry
  BY DEF WorktreeEntry, EnvFile, Registry, Option
<1> QED
  BY <1>1 DEF Committed, Registry

\* Recording the target of a move yields a registry.
LEMMA MovingType ==
  ASSUME NEW reg \in Registry, NEW w \in Worktrees, reg.worktrees[w] # None,
         NEW b \in Block
  PROVE  Moving(reg, w, b) \in Registry
<1>1. [reg.worktrees[w] EXCEPT !.pending = {b}] \in WorktreeEntry
  BY DEF WorktreeEntry, Registry, Option
<1> QED
  BY <1>1 DEF Moving, Registry

\* Resolving an interrupted move yields a registry.
LEMMA ResolveType ==
  ASSUME NEW reg \in Registry, NEW w \in Worktrees,
         env \in [Worktrees -> EnvFile \cup {None}]
  PROVE  ResolvePendingMove(reg, w) \in Registry
<1>1. CASE reg.worktrees[w] = None
  BY <1>1 DEF ResolvePendingMove
<1>2. CASE reg.worktrees[w] # None
  <2> DEFINE e == reg.worktrees[w]
             handedOut == env[w] # None /\ env[w].block \in e.pending
             f == [e EXCEPT !.pending = {},
                       !.block = IF handedOut THEN env[w].block ELSE @,
                       !.generation = IF handedOut THEN @ + 1 ELSE @]
  <2>1. e \in WorktreeEntry
    BY <1>2 DEF Registry
  <2>2. handedOut => env[w].block \in Block
    BY DEF EnvFile
  <2>3. f \in WorktreeEntry
    <3>1. CASE handedOut
      <4>1. e.generation + 1 \in Nat \ {0} /\ env[w].block \in Block
        BY <2>1, <2>2, <3>1 DEF WorktreeEntry
      <4>2. f = [e EXCEPT !.pending = {}, !.block = env[w].block, !.generation = @ + 1]
        BY <3>1
      <4> QED
        BY <2>1, <4>1, <4>2 DEF WorktreeEntry, Option
    <3>2. CASE ~handedOut
      <4>1. f = [e EXCEPT !.pending = {}, !.block = @, !.generation = @]
        BY <3>2
      <4> QED
        BY <2>1, <4>1 DEF WorktreeEntry, Option
    <3> QED
      BY <3>1, <3>2
  <2>4. ResolvePendingMove(reg, w) = [reg EXCEPT !.worktrees[w] = f]
    BY <1>2 DEF ResolvePendingMove
  <2> QED
    BY <2>3, <2>4 DEF Registry
<1> QED
  BY <1>1, <1>2

\* Importing entries yields a registry.
LEMMA WithImportsType ==
  ASSUME NEW reg \in Registry, NEW I, env \in [Worktrees -> EnvFile \cup {None}],
         \A v \in I : env[v] # None
  PROVE  WithImports(reg, I) \in Registry
<1> DEFINE e(v) == [block |-> env[v].block, pending |-> {}, generation |-> 1,
                    manifest_hash |-> None, pinned |-> FALSE]
<1>1. ASSUME NEW v \in Worktrees, v \in I
      PROVE  e(v) \in WorktreeEntry
  BY <1>1 DEF WorktreeEntry, EnvFile, Option
<1>2. [v \in Worktrees |-> IF v \in I THEN e(v) ELSE reg.worktrees[v]]
        \in [Worktrees -> WorktreeEntry \cup {None}]
  BY <1>1 DEF Registry
<1> QED
  BY <1>2 DEF WithImports, Registry

\* Lifting the sequence yields a registry.
LEMMA ReconciledType ==
  ASSUME NEW reg \in Registry, NEW w, env \in [Worktrees -> EnvFile \cup {None}],
         NEW r \in Reconciled(reg, w)
  PROVE  r \in Registry
<1>1. Behind(reg, w) \subseteq Nat
  BY DEF Behind, TrackedEnvSequences, SameProject, EnvFile
<1> QED
  BY <1>1 DEF Reconciled, Registry

-----------------------------------------------------------------------------
(* Type correctness, one family of steps at a time.                        *)

\* A process that ends leaves nothing behind.
LEMMA TerminatedType ==
  ASSUME TypeOK, NEW p \in Procs, Terminated(p)
  PROVE  TypeOK'
BY DEF TypeOK, Terminated, Goto, files, world, Steps, Critical, Holding, Rendering

\* Planning a save is well typed if what it plans to write is.
LEMMA PlanType ==
  ASSUME TypeOK, NEW p \in Procs, NEW step \in Steps, NEW reg \in Registry,
         NEW o \in EnvFile \cup {None}, step \in Rendering => o # None,
         pc[p] # "idle", Plan(p, step, reg, o)
  PROVE  TypeOK'
<1>1. reg # None
  BY NoneAssumption
<1> QED
  BY <1>1 DEF TypeOK, Plan, Goto, files, world

\* A save puts a registry into the main file.
LEMMA SaveType ==
  ASSUME TypeOK, NEW p \in Procs, NEW from \in Critical, NEW to \in Critical,
         NEW reg \in Registry, to \in Rendering => from \in Rendering,
         Save(p, from, reg, to)
  PROVE  TypeOK'
<1>1. Saved(reg) \in Registry /\ Saved(reg) # None
  BY SavedType, NoneAssumption
<1>2. pc[p] # "idle" /\ to \in Steps
  BY DEF Save, At, Critical, Steps
<1> QED
  BY <1>1, <1>2 DEF TypeOK, Save, At, Goto, world

\* Giving a worktree a block.
LEMMA SettleType ==
  ASSUME TypeOK, NEW p \in Procs, NEW reg \in Registry, NEW w \in Worktrees,
         NEW b \in Block, pc[p] # "idle", Settle(p, reg, w, b)
  PROVE  TypeOK'
<1> DEFINE e == reg.worktrees[w]
           g == IF e = None THEN 1 ELSE IF e.block # b THEN e.generation + 1
                ELSE e.generation
           o == Rendered(reg, w, b, g)
<1>1. e # None => e.generation \in Nat \ {0}
  BY DEF Registry, WorktreeEntry
<1>2. g \in Nat \ {0}
  BY <1>1
<1>3. o \in EnvFile /\ o # None
  BY <1>2, NoneAssumption DEF Rendered, EnvFile, Registry, TypeOK
<1>4. CASE e # None /\ e.block # b
  <2>1. Plan(p, "savePending", Moving(reg, w, b), o)
    BY <1>4 DEF Settle
  <2>2. Moving(reg, w, b) \in Registry
    BY <1>4, MovingType
  <2> QED
    BY <1>3, <2>1, <2>2, PlanType DEF Steps, Critical
<1>5. CASE ~(e # None /\ e.block # b)
  <2>1. Plan(p, "saveEntry", Committed(reg, w, o), o)
    BY <1>5 DEF Settle
  <2>2. Committed(reg, w, o) \in Registry
    BY <1>3, CommittedType
  <2> QED
    BY <1>3, <2>1, <2>2, PlanType DEF Steps, Critical
<1> QED
  BY <1>4, <1>5

\* The steps that plan under the lock.
LEMMA PlanningType ==
  ASSUME TypeOK, NEW p \in Procs,
         \/ Sync(p) \/ Reallocate(p) \/ Pin(p) \/ Unpin(p) \/ Prune(p) \/ PruneAll(p)
         \/ Reserve(p) \/ Unreserve(p) \/ Doctor(p)
  PROVE  TypeOK'
<1> DEFINE w == job[p].wt
<1>1. pc[p] = "locked" /\ pc[p] # "idle" /\ w \in Worktrees
  BY DEF TypeOK, Sync, Reallocate, Pin, Unpin, SetPinned, Prune, PruneAll, Reserve,
         Unreserve, Doctor, Running, At, Job
<1>2. registry \in Registry
  BY DEF TypeOK
<1>3. "saveOnly" \in Steps \ Rendering /\ "import" \in Steps \ Rendering
      /\ "saveRestored" \in Steps \ Rendering
  BY DEF Steps, Critical, Rendering
<1>4. ResolvePendingMove(registry, w) \in Registry
  BY <1>1, <1>2, ResolveType DEF TypeOK
<1>5. CASE Sync(p)
  <2>1. PICK c \in Configs, S \in SUBSET Collectable(ResolvePendingMove(registry, w), ProjectOf[w]) :
          \E b \in SyncBlocks(Without(ResolvePendingMove(registry, w), S), w, manifest[w], c) :
            Settle(p, Without(ResolvePendingMove(registry, w), S), w, b)
    BY <1>5 DEF Sync
  <2> DEFINE reg == Without(ResolvePendingMove(registry, w), S)
  <2>2. reg \in Registry
    BY <1>4, WithoutType
  <2>3. PICK b \in SyncBlocks(reg, w, manifest[w], c) : Settle(p, reg, w, b)
    BY <2>1
  <2>4. manifest[w] \in Manifests
    BY <1>1 DEF TypeOK
  <2>5. b \in Block
    BY <1>1, <2>2, <2>3, <2>4, SyncBlocksAreBlocks
  <2> QED
    BY <1>1, <2>2, <2>3, <2>5, SettleType
<1>6. CASE Reallocate(p)
  <2> DEFINE reg == ResolvePendingMove(registry, w)
  <2>1. PICK c \in Configs :
          \E b \in FreeSlots(c, Size[manifest[w]], AllBlocks(reg)) : Settle(p, reg, w, b)
    BY <1>6 DEF Reallocate
  <2>2. c \in Config /\ Size[manifest[w]] \in 1..MaxPort
    BY <1>1, LedgerAssumption DEF TypeOK
  <2>3. PICK b \in FreeSlots(c, Size[manifest[w]], AllBlocks(reg)) : Settle(p, reg, w, b)
    BY <2>1
  <2>4. b \in Block
    BY <2>2, <2>3, SlotsAreBlocks DEF FreeSlots
  <2> QED
    BY <1>1, <1>4, <2>3, <2>4, SettleType
<1>7. ASSUME NEW c, NEW flag \in BOOLEAN, SetPinned(p, c, flag)
      PROVE  TypeOK'
  <2> DEFINE e == [registry.worktrees[w] EXCEPT !.pinned = flag]
  <2>1. registry.worktrees[w] \in WorktreeEntry
    BY <1>1, <1>2, <1>7 DEF SetPinned, Registry
  <2>2. e \in WorktreeEntry
    BY <2>1 DEF WorktreeEntry
  <2>3. [registry EXCEPT !.worktrees[w].pinned = flag] \in Registry
    BY <1>1, <1>2, <2>2 DEF Registry
  <2> QED
    BY <1>1, <1>3, <1>7, <2>3, PlanType DEF SetPinned
<1>8. CASE Prune(p)
  BY <1>1, <1>2, <1>3, <1>8, WithoutType, PlanType DEF Prune
<1>9. CASE PruneAll(p)
  BY <1>1, <1>2, <1>3, <1>9, WithoutType, PlanType DEF PruneAll
<1>10. CASE Reserve(p)
  <2>1. PICK b \in Reservable :
          Plan(p, "saveOnly", [registry EXCEPT !.reservations = @ \cup {b}], None)
    BY <1>10 DEF Reserve
  <2>2. [registry EXCEPT !.reservations = @ \cup {b}] \in Registry
    BY <1>2, LedgerAssumption DEF Registry
  <2> QED
    BY <1>1, <1>3, <2>1, <2>2, PlanType
<1>11. CASE Unreserve(p)
  <2>1. PICK b \in registry.reservations :
          Plan(p, "saveOnly", [registry EXCEPT !.reservations = @ \ {b}], None)
    BY <1>11 DEF Unreserve
  <2>2. [registry EXCEPT !.reservations = @ \ {b}] \in Registry
    BY <1>2 DEF Registry
  <2> QED
    BY <1>1, <1>3, <2>1, <2>2, PlanType
<1>12. CASE Doctor(p)
  BY <1>1, <1>2, <1>3, <1>12, PlanType DEF Doctor, TypeOK
<1> QED
  BY <1>5, <1>6, <1>7, <1>8, <1>9, <1>10, <1>11, <1>12 DEF Pin, Unpin

\* The import of doctor.
LEMMA ImportType ==
  ASSUME TypeOK, NEW p \in Procs, Import(p)
  PROVE  TypeOK'
<1> DEFINE w == job[p].wt
<1>1. At(p, "import") /\ pc[p] # "idle"
  BY DEF Import, At
<1>2. mem[p] \in Registry /\ "saveOnly" \in Steps \ Rendering
  BY <1>1 DEF TypeOK, At, Holding, Critical, Steps, Rendering
<1>3. PICK I \in Imports(mem[p], w) :
        IF I = {} /\ Behind(WithImports(mem[p], I), w) = {}
        THEN /\ Goto(p, "returned")
             /\ lock' = None
             /\ mem' = [mem EXCEPT ![p] = None]
             /\ UNCHANGED <<files, world, job, out>>
        ELSE \E reg \in Reconciled(WithImports(mem[p], I), w) :
               Plan(p, "saveOnly", reg, None)
  BY DEF Import
<1>4. CASE I = {} /\ Behind(WithImports(mem[p], I), w) = {}
  <2>1. /\ Goto(p, "returned")
        /\ lock' = None
        /\ mem' = [mem EXCEPT ![p] = None]
        /\ UNCHANGED <<files, world, job, out>>
    BY <1>3, <1>4
  <2> QED
    BY <1>1, <2>1
    DEF TypeOK, Goto, files, world, Steps, Critical, Holding, Rendering
<1>5. CASE ~(I = {} /\ Behind(WithImports(mem[p], I), w) = {})
  <2>1. PICK reg \in Reconciled(WithImports(mem[p], I), w) : Plan(p, "saveOnly", reg, None)
    BY <1>3, <1>5
  <2>2. \A v \in I : env[v] # None
    BY <1>3 DEF Imports, Importable
  <2>3. WithImports(mem[p], I) \in Registry
    BY <1>2, <2>2, WithImportsType DEF TypeOK
  <2>4. reg \in Registry
    BY <2>1, <2>3, ReconciledType DEF TypeOK
  <2> QED
    BY <1>1, <1>2, <2>1, <2>4, PlanType
<1> QED
  BY <1>4, <1>5

\* Starting, locking and ending a command.
LEMMA ControlType ==
  ASSUME TypeOK, NEW p \in Procs,
         \/ Acquire(p) \/ LockTimeout(p) \/ Refuse(p) \/ Exit(p) \/ Crash(p)
         \/ \E c \in Commands, w \in Worktrees : Start(p, c, w)
  PROVE  TypeOK'
<1>1. CASE Acquire(p)
  BY <1>1 DEF TypeOK, Acquire, At, Goto, files, world, Steps, Critical, Holding, Rendering
<1>2. CASE LockTimeout(p) \/ Refuse(p) \/ Exit(p) \/ Crash(p)
  BY <1>2, TerminatedType DEF LockTimeout, Refuse, Exit, Crash
<1>3. ASSUME NEW c \in Commands, NEW w \in Worktrees, Start(p, c, w)
      PROVE  TypeOK'
  <2>1. PICK step \in {"fastLoad", "waiting"} : Goto(p, step)
    BY <1>3 DEF Start
  <2>2. [cmd |-> c, wt |-> w] \in Job /\ [cmd |-> c, wt |-> w] # None
    BY NoneAssumption DEF Job
  <2> QED
    BY <1>3, <2>1, <2>2
    DEF TypeOK, Start, Goto, files, world, Steps, Critical, Holding, Rendering
<1> QED
  BY <1>1, <1>2, <1>3

\* The fast path of sync.
LEMMA FastPathType ==
  ASSUME TypeOK, NEW p \in Procs,
         FastLoad(p) \/ FastCompare(p) \/ FastRevalidate(p)
  PROVE  TypeOK'
<1> DEFINE w == job[p].wt
           e == registry.worktrees[w]
           o == [block |-> e.block, generation |-> e.generation,
                 sequence |-> registry.sequence, manifest |-> manifest[w]]
<1>1. pc[p] # "idle" /\ w \in Worktrees
  BY DEF TypeOK, FastLoad, FastCompare, FastRevalidate, At, Job
<1>2. Settled(w) => o \in EnvFile /\ o # None
  BY <1>1, NoneAssumption DEF TypeOK, Settled, Registry, WorktreeEntry, EnvFile
<1>3. CASE FastLoad(p)
  BY <1>1, <1>2, <1>3
  DEF TypeOK, FastLoad, At, Goto, files, world, Steps, Critical, Holding, Rendering
<1>4. CASE FastCompare(p)
  BY <1>1, <1>4
  DEF TypeOK, FastCompare, FallThrough, At, Goto, files, world, Steps, Critical, Holding,
      Rendering
<1>5. CASE FastRevalidate(p)
  BY <1>1, <1>5
  DEF TypeOK, FastRevalidate, FallThrough, At, Goto, files, world, Steps, Critical,
      Holding, Rendering
<1> QED
  BY <1>3, <1>4, <1>5

\* The commands that remove env files.
LEMMA RemovalType ==
  ASSUME TypeOK, NEW p \in Procs, Release(p) \/ Deinit(p)
  PROVE  TypeOK'
<1>1. \A S : Without(registry, S) \in Registry /\ Without(registry, S) # None
  BY WithoutType, NoneAssumption DEF TypeOK
<1>2. CASE Release(p)
  BY <1>1, <1>2
  DEF TypeOK, Release, Running, At, Goto, world, Steps, Critical, Holding, Rendering, Job
<1>3. CASE Deinit(p)
  BY <1>1, <1>3
  DEF TypeOK, Deinit, Running, At, Goto, world, Steps, Critical, Holding, Rendering
<1> QED
  BY <1>2, <1>3

\* Abandoning a corrupt ledger.
LEMMA AbandonType ==
  ASSUME TypeOK, NEW p \in Procs, Abandon(p)
  PROVE  TypeOK'
<1>1. Empty \in Registry
  BY DEF Empty, Registry
<1>2. registry' \in Registry /\ registry' # None
  BY <1>1, NoneAssumption DEF TypeOK, Abandon
<1> QED
  BY <1>2
  DEF TypeOK, Abandon, Running, At, Goto, world, Steps, Critical, Holding, Rendering

\* The writes of registry.json.
LEMMA SavingType ==
  ASSUME TypeOK, NEW p \in Procs,
         \/ SavePending(p) \/ SaveEntry(p) \/ SaveOnly(p) \/ SaveRestored(p)
         \/ SaveMoved(p)
  PROVE  TypeOK'
<1>1. mem[p] \in Registry
  BY DEF TypeOK, SavePending, SaveEntry, SaveOnly, SaveRestored, SaveMoved, Save, At,
         Holding, Critical
<1>2. CASE SavePending(p) \/ SaveEntry(p) \/ SaveOnly(p) \/ SaveRestored(p)
  BY <1>1, <1>2, SaveType
  DEF SavePending, SaveEntry, SaveOnly, SaveRestored, Critical, Rendering
<1>3. CASE SaveMoved(p)
  <2>1. job[p].wt \in Worktrees /\ out[p] \in EnvFile
    BY <1>3 DEF TypeOK, SaveMoved, Save, At, Rendering, Job
  <2>2. Committed(mem[p], job[p].wt, out[p]) \in Registry
    BY <1>1, <2>1, CommittedType
  <2> QED
    BY <1>3, <2>2, SaveType DEF SaveMoved, Critical, Rendering
<1> QED
  BY <1>2, <1>3

\* The writes of the backup and of the env file.
LEMMA WritingType ==
  ASSUME TypeOK, NEW p \in Procs,
         SaveBackup(p) \/ SaveLastBackup(p) \/ WriteMovedEnv(p) \/ WriteEnv(p)
  PROVE  TypeOK'
<1>1. CASE SaveBackup(p)
  <2>1. BackupWritten(p) => backup' \in Registry \cup {None}
    BY DEF TypeOK, BackupWritten
  <2>2. pc[p] \in {"bakPending", "bakEntry", "bakRestored"}
    BY <1>1 DEF SaveBackup, AfterBackup
  <2>3. \/ pc[p] = "bakPending" /\ Goto(p, "writeMovedEnv")
        \/ pc[p] = "bakEntry" /\ Goto(p, "writeEnv")
        \/ pc[p] = "bakRestored" /\ Goto(p, "import")
    BY <1>1, <2>2 DEF SaveBackup, AfterBackup
  <2> QED
    BY <1>1, <2>1, <2>3
    DEF TypeOK, SaveBackup, Goto, world, Steps, Critical, Holding, Rendering
<1>2. CASE SaveLastBackup(p)
  <2>1. backup' \in Registry \cup {None}
    BY <1>2 DEF TypeOK, SaveLastBackup, BackupWritten
  <2> QED
    BY <1>2, <2>1
    DEF TypeOK, SaveLastBackup, Finish, Goto, world, Steps, Critical, Holding, Rendering
<1>3. CASE WriteMovedEnv(p)
  BY <1>3
  DEF TypeOK, WriteMovedEnv, EnvWritten, At, Goto, world, Steps, Critical, Holding, Rendering
<1>4. CASE WriteEnv(p)
  BY <1>4
  DEF TypeOK, WriteEnv, EnvWritten, Finish, At, Goto, world, Steps, Critical, Holding, Rendering
<1> QED
  BY <1>1, <1>2, <1>3, <1>4

\* What happens around the commands.
LEMMA EnvironmentType ==
  ASSUME TypeOK, Environment
  PROVE  TypeOK'
BY DEF TypeOK, Environment, EditManifest, RemoveDirectory, RemoveRecord, AddWorktree, LoseEnv,
       DeleteRepository, CorruptRegistry, files, world, procs

\* Every reachable state is well typed; in particular every save point has a
\* registry, and every env write an env file, in memory.
THEOREM TypeCorrect == Spec => []TypeOK
<1>1. Init => TypeOK
  <2>1. Empty \in Registry
    BY DEF Empty, Registry
  <2> QED
    BY <2>1 DEF Init, TypeOK, Steps, Critical, Holding, Rendering
<1>2. TypeOK /\ [Next]_vars => TypeOK'
  <2> SUFFICES ASSUME TypeOK, [Next]_vars
               PROVE  TypeOK'
    OBVIOUS
  <2>1. CASE UNCHANGED vars
    BY <2>1 DEF vars, TypeOK, Holding, Rendering
  <2>2. CASE Environment
    BY <2>2, EnvironmentType
  <2>3. ASSUME NEW p \in Procs, \E c \in Commands, w \in Worktrees : Start(p, c, w)
        PROVE  TypeOK'
    BY <2>3, ControlType
  <2>4. ASSUME NEW p \in Procs, Step(p) \/ Crash(p)
        PROVE  TypeOK'
    BY <2>4, ControlType, FastPathType, PlanningType, RemovalType, AbandonType, ImportType,
       SavingType, WritingType
    DEF Step
  <2> QED
    BY <2>1, <2>2, <2>3, <2>4 DEF Next
<1> QED
  BY <1>1, <1>2, PTL DEF Spec

-----------------------------------------------------------------------------
(* Disjoint blocks.                                                        *)

\* reg keeps no block that old did not keep for the same owner.
Within(reg, old) ==
  /\ \A w \in Worktrees : Held(reg, w) \subseteq Held(old, w)
  /\ reg.reservations \subseteq old.reservations

\* The same, except that w may also keep b.
WithinBut(reg, old, w, b) ==
  /\ \A v \in Worktrees : v # w => Held(reg, v) \subseteq Held(old, v)
  /\ Held(reg, w) \subseteq Held(old, w) \cup {b}
  /\ reg.reservations \subseteq old.reservations

\* b is apart from what everyone but w keeps.
ApartFromOthers(reg, w, b) ==
  /\ \A v \in Worktrees : v # w => Apart({b}, Held(reg, v))
  /\ Apart({b}, reg.reservations)

\* Overlap is symmetric.
LEMMA OverlapsSymmetric ==
  ASSUME NEW a, NEW b, Overlaps(a, b)
  PROVE  Overlaps(b, a)
BY DEF Overlaps

\* Keeping less preserves disjointness.
LEMMA WithinDisjoint ==
  ASSUME NEW reg, NEW old, Disjoint(old), Within(reg, old)
  PROVE  Disjoint(reg)
BY DEF Disjoint, Within, Apart

\* Granting w a block apart from everyone else's preserves disjointness.
LEMMA WithinButDisjoint ==
  ASSUME NEW reg, NEW old, NEW w \in Worktrees, NEW b, Disjoint(old),
         WithinBut(reg, old, w, b), ApartFromOthers(old, w, b)
  PROVE  Disjoint(reg)
<1>1. ASSUME NEW v \in Worktrees, v # w
      PROVE  Apart(Held(reg, w), Held(reg, v)) /\ Apart(Held(reg, v), Held(reg, w))
  BY <1>1, OverlapsSymmetric DEF Disjoint, WithinBut, ApartFromOthers, Apart
<1>2. ASSUME NEW u \in Worktrees, NEW v \in Worktrees, u # v
      PROVE  Apart(Held(reg, u), Held(reg, v))
  <2>1. CASE u = w \/ v = w
    BY <1>1, <1>2, <2>1
  <2>2. CASE u # w /\ v # w
    BY <1>2, <2>2 DEF Disjoint, WithinBut, Apart
  <2> QED
    BY <2>1, <2>2
<1>3. \A v \in Worktrees : Apart(Held(reg, v), reg.reservations)
  BY DEF Disjoint, WithinBut, ApartFromOthers, Apart
<1>4. \A r, s \in reg.reservations : r # s => ~Overlaps(r, s)
  BY DEF Disjoint, WithinBut
<1> QED
  BY <1>2, <1>3, <1>4 DEF Disjoint

\* Numbering a save keeps every block.
LEMMA SavedWithin ==
  ASSUME NEW reg \in Registry
  PROVE  Within(Saved(reg), reg) /\ Within(reg, Saved(reg))
BY DEF Saved, Within, Held, Registry

\* Dropping entries keeps less.
LEMMA WithoutWithin ==
  ASSUME NEW reg \in Registry, NEW S
  PROVE  Within(Without(reg, S), reg)
BY DEF Without, Within, Held, Registry

\* Resolving an interrupted move keeps one of the two blocks.
LEMMA ResolveWithin ==
  ASSUME NEW reg \in Registry, NEW w \in Worktrees
  PROVE  Within(ResolvePendingMove(reg, w), reg)
BY NoneAssumption DEF ResolvePendingMove, Within, Held, Registry, WorktreeEntry

\* Committing grants at most the block of the env file.
LEMMA CommittedWithin ==
  ASSUME NEW reg \in Registry, NEW w \in Worktrees, NEW o
  PROVE  WithinBut(Committed(reg, w, o), reg, w, o.block)
BY DEF Committed, WithinBut, Held, Registry

\* Starting a move grants at most the target.
LEMMA MovingWithin ==
  ASSUME NEW reg \in Registry, NEW w \in Worktrees, NEW b, reg.worktrees[w] # None
  PROVE  WithinBut(Moving(reg, w, b), reg, w, b)
BY DEF Moving, WithinBut, Held, Registry, WorktreeEntry

\* Pinning keeps every block.
LEMMA PinnedWithin ==
  ASSUME NEW reg \in Registry, NEW w \in Worktrees, reg.worktrees[w] # None,
         NEW flag \in BOOLEAN
  PROVE  Within([reg EXCEPT !.worktrees[w].pinned = flag], reg)
<1> DEFINE e == [reg.worktrees[w] EXCEPT !.pinned = flag]
           r == [reg EXCEPT !.worktrees[w].pinned = flag]
<1>1. e.block = reg.worktrees[w].block /\ e.pending = reg.worktrees[w].pending
  BY DEF Registry, WorktreeEntry
<1>2. /\ r.reservations = reg.reservations
      /\ \A v \in Worktrees : r.worktrees[v] = IF v = w THEN e ELSE reg.worktrees[v]
  BY DEF Registry
<1> QED
  BY <1>1, <1>2 DEF Within, Held

\* Lifting the sequence keeps every block.
LEMMA LiftedWithin ==
  ASSUME NEW reg \in Registry, NEW s
  PROVE  Within([reg EXCEPT !.sequence = s], reg)
BY DEF Within, Held, Registry

\* What is apart from all blocks is apart from each owner's.
LEMMA ApartFromAll ==
  ASSUME NEW reg, NEW w \in Worktrees, NEW b, Apart({b}, AllBlocks(reg))
  PROVE  ApartFromOthers(reg, w, b)
BY DEF ApartFromOthers, Apart, AllBlocks

\* Leaving its own block out of account cannot hide anyone else's from w: no
\* other owner has the same block.
LEMMA ApartButOwn ==
  ASSUME NEW reg \in Registry, NEW w \in Worktrees, NEW b, Disjoint(reg),
         reg.worktrees[w] # None,
         Apart({b}, AllBlocks(reg) \ {reg.worktrees[w].block})
  PROVE  ApartFromOthers(reg, w, b)
<1> DEFINE own == reg.worktrees[w].block
<1>1. own \in Held(reg, w) /\ Overlaps(own, own)
  BY DEF Held, Registry, WorktreeEntry, Block, Overlaps
<1>2. \A v \in Worktrees : v # w => own \notin Held(reg, v)
  BY <1>1 DEF Disjoint, Apart
<1>3. own \notin reg.reservations
  BY <1>1 DEF Disjoint, Apart
<1> QED
  BY <1>2, <1>3 DEF ApartFromOthers, Apart, AllBlocks

\* The block sync settles on is kept by nobody else.
LEMMA SyncBlocksApart ==
  ASSUME NEW reg \in Registry, NEW w \in Worktrees, NEW m, NEW c, Disjoint(reg),
         NEW b \in SyncBlocks(reg, w, m, c)
  PROVE  ApartFromOthers(reg, w, b)
<1> DEFINE own == reg.worktrees[w].block
<1>1. CASE reg.worktrees[w] = None
  BY <1>1, ApartFromAll DEF SyncBlocks, FreeSlots
<1>2. CASE reg.worktrees[w] # None
  <2>1. CASE b = own
    BY <1>2, <2>1, OverlapsSymmetric DEF Disjoint, ApartFromOthers, Apart, Held
  <2>2. CASE b # own
    <3>1. Apart({b}, AllBlocks(reg) \ {own})
      BY <1>2, <2>2 DEF SyncBlocks, GrownInPlace, FreeSlots
    <3> QED
      BY <1>2, <3>1, ApartButOwn
  <2> QED
    BY <2>1, <2>2
<1> QED
  BY <1>1, <1>2

\* Imported blocks are apart from what is kept and from each other.
LEMMA ImportsDisjoint ==
  ASSUME NEW reg \in Registry, NEW w, NEW I \in Imports(reg, w), Disjoint(reg),
         env \in [Worktrees -> EnvFile \cup {None}]
  PROVE  Disjoint(WithImports(reg, I))
<1> DEFINE r == WithImports(reg, I)
           e(v) == [block |-> env[v].block, pending |-> {}, generation |-> 1,
                    manifest_hash |-> None, pinned |-> FALSE]
<1>1. \A v \in Worktrees : Held(r, v) = IF v \in I THEN {env[v].block} ELSE Held(reg, v)
  <2>1. r.worktrees = [v \in Worktrees |-> IF v \in I THEN e(v) ELSE reg.worktrees[v]]
    BY DEF WithImports, Registry
  <2>2. ASSUME NEW v \in Worktrees, v \in I
        PROVE  e(v) # None
    <3>1. env[v] \in EnvFile
      BY <2>2 DEF Imports, Importable
    <3>2. e(v) \in WorktreeEntry
      BY <3>1 DEF EnvFile, WorktreeEntry, Option
    <3> QED
      BY <3>2, NoneAssumption
  <2> QED
    BY <2>1, <2>2 DEF Held
<1>2. r.reservations = reg.reservations
  BY DEF WithImports, Registry
<1>3. \A v \in I : Apart({env[v].block}, AllBlocks(reg))
  BY DEF Imports, Importable
<1>4. \A u, v \in I : u # v => ~Overlaps(env[u].block, env[v].block)
  BY DEF Imports
<1>5. ASSUME NEW u \in Worktrees, NEW v \in Worktrees, u # v
      PROVE  Apart(Held(r, u), Held(r, v))
  <2>1. CASE u \in I /\ v \in I
    BY <1>1, <1>4, <1>5, <2>1 DEF Apart
  <2>2. CASE u \in I /\ v \notin I
    BY <1>1, <1>3, <2>2 DEF Apart, AllBlocks
  <2>3. CASE u \notin I /\ v \in I
    BY <1>1, <1>3, <2>3, OverlapsSymmetric DEF Apart, AllBlocks
  <2>4. CASE u \notin I /\ v \notin I
    BY <1>1, <1>5, <2>4 DEF Disjoint
  <2> QED
    BY <2>1, <2>2, <2>3, <2>4
<1>6. ASSUME NEW v \in Worktrees
      PROVE  Apart(Held(r, v), r.reservations)
  BY <1>1, <1>2, <1>3 DEF Disjoint, Apart, AllBlocks
<1> QED
  BY <1>2, <1>5, <1>6 DEF Disjoint

\* A new reservation clear of all blocks preserves disjointness.
LEMMA ReserveDisjoint ==
  ASSUME NEW reg \in Registry, NEW b, Disjoint(reg),
         b \in reg.reservations \/ Apart({b}, AllBlocks(reg))
  PROVE  Disjoint([reg EXCEPT !.reservations = @ \cup {b}])
<1> DEFINE r == [reg EXCEPT !.reservations = @ \cup {b}]
<1>1. /\ r.reservations = reg.reservations \cup {b}
      /\ \A w \in Worktrees : Held(r, w) = Held(reg, w)
  <2>1. r.reservations = reg.reservations \cup {b} /\ r.worktrees = reg.worktrees
    BY DEF Registry
  <2> QED
    BY <2>1 DEF Held
<1>2. CASE b \in reg.reservations
  BY <1>1, <1>2 DEF Disjoint
<1>3. CASE Apart({b}, AllBlocks(reg))
  <2>1. \A w \in Worktrees : Apart(Held(r, w), r.reservations)
    BY <1>1, <1>3, OverlapsSymmetric DEF Disjoint, Apart, AllBlocks
  <2>2. \A x, y \in r.reservations : x # y => ~Overlaps(x, y)
    BY <1>1, <1>3, OverlapsSymmetric DEF Disjoint, Apart, AllBlocks
  <2> QED
    BY <1>1, <2>1, <2>2 DEF Disjoint
<1> QED
  BY <1>2, <1>3

\* Steps of a move at which the block to come is already reserved.
MoveSteps == {"savePending", "bakPending", "writeMovedEnv", "saveMoved"}

\* What makes LedgerDisjoint inductive: the registries in the memory of the
\* processes are as disjoint as the files, and a process that moves a worktree
\* has reserved the target in the registry it holds.
DisjointInv ==
  /\ LedgerDisjoint
  /\ \A p \in Procs : mem[p] # None => Disjoint(mem[p])
  /\ \A p \in Procs : pc[p] \in MoveSteps => out[p].block \in Held(mem[p], job[p].wt)

\* A process that ends, and any step that keeps registries and process memory,
\* keeps the blocks disjoint.
LEMMA QuietDisjoint ==
  ASSUME TypeOK, DisjointInv, UNCHANGED <<registry, backup>>, NEW p \in Procs,
         mem' = mem \/ mem' = [mem EXCEPT ![p] = None],
         \A q \in Procs : q # p => pc'[q] = pc[q] /\ out'[q] = out[q] /\ job'[q] = job[q],
         pc'[p] \notin MoveSteps
  PROVE  DisjointInv'
BY DEF TypeOK, DisjointInv, LedgerDisjoint

\* Planning keeps the blocks disjoint if the planned registry is, and reserves
\* the target of a move.
LEMMA PlanDisjoint ==
  ASSUME TypeOK, DisjointInv, NEW p \in Procs, NEW step, NEW reg, NEW o, Disjoint(reg),
         step \in MoveSteps => o.block \in Held(reg, job[p].wt),
         Plan(p, step, reg, o)
  PROVE  DisjointInv'
<1>1. \A q \in Procs : q # p => mem'[q] = mem[q] /\ out'[q] = out[q] /\ pc'[q] = pc[q]
  BY DEF Plan, Goto, TypeOK
<1>2. mem'[p] = reg /\ out'[p] = o /\ pc'[p] = step
  BY DEF Plan, Goto, TypeOK
<1>3. UNCHANGED <<registry, backup, job>>
  BY DEF Plan, files
<1> QED
  BY <1>1, <1>2, <1>3 DEF DisjointInv, LedgerDisjoint

\* A save keeps the blocks disjoint if the saved registry is.
LEMMA SaveDisjoint ==
  ASSUME TypeOK, DisjointInv, NEW p \in Procs, NEW from, NEW to,
         NEW reg \in Registry, Disjoint(reg),
         to \in MoveSteps => out[p].block \in Held(reg, job[p].wt),
         Save(p, from, reg, to)
  PROVE  DisjointInv'
<1>1. Disjoint(Saved(reg))
  BY SavedWithin, WithinDisjoint
<1>2. to \in MoveSteps => out[p].block \in Held(Saved(reg), job[p].wt)
  BY DEF Saved, Held, Registry
<1>3. \A q \in Procs : q # p => mem'[q] = mem[q] /\ pc'[q] = pc[q]
  BY DEF Save, Goto, TypeOK
<1>4. mem'[p] = Saved(reg) /\ pc'[p] = to /\ registry' = Saved(reg)
  BY DEF Save, Goto, TypeOK
<1>5. UNCHANGED <<backup, out, job>>
  BY DEF Save
<1> QED
  BY <1>1, <1>2, <1>3, <1>4, <1>5 DEF DisjointInv, LedgerDisjoint

\* Settling on a block apart from everyone else's keeps the blocks disjoint.
LEMMA SettleDisjoint ==
  ASSUME TypeOK, DisjointInv, NEW p \in Procs, pc[p] # "idle", NEW reg \in Registry,
         Disjoint(reg), NEW b \in Block, ApartFromOthers(reg, job[p].wt, b),
         Settle(p, reg, job[p].wt, b)
  PROVE  DisjointInv'
<1> DEFINE w == job[p].wt
           e == reg.worktrees[w]
           o == Rendered(reg, w, b, IF e = None THEN 1
                                    ELSE IF e.block # b THEN e.generation + 1
                                    ELSE e.generation)
<1>1. w \in Worktrees
  BY DEF TypeOK, Job
<1>2. o.block = b
  BY DEF Rendered
<1>3. CASE e # None /\ e.block # b
  <2>1. Plan(p, "savePending", Moving(reg, w, b), o)
    BY <1>3 DEF Settle
  <2>2. Disjoint(Moving(reg, w, b))
    BY <1>1, <1>3, MovingWithin, WithinButDisjoint
  <2>3. b \in Held(Moving(reg, w, b), w)
    <3>1. e \in WorktreeEntry
      BY <1>1, <1>3 DEF Registry
    <3>2. Moving(reg, w, b).worktrees[w] = [e EXCEPT !.pending = {b}]
      BY <1>1 DEF Moving, Registry
    <3>3. [e EXCEPT !.pending = {b}] \in WorktreeEntry
      BY <3>1 DEF WorktreeEntry, Option
    <3>4. [e EXCEPT !.pending = {b}].pending = {b} /\ [e EXCEPT !.pending = {b}] # None
      BY <3>1, <3>3, NoneAssumption DEF WorktreeEntry
    <3> QED
      BY <3>2, <3>4 DEF Held
  <2> QED
    BY <1>2, <2>1, <2>2, <2>3, PlanDisjoint
<1>4. CASE ~(e # None /\ e.block # b)
  <2>1. Plan(p, "saveEntry", Committed(reg, w, o), o)
    BY <1>4 DEF Settle
  <2>2. WithinBut(Committed(reg, w, o), reg, w, b)
    BY <1>1, <1>2, CommittedWithin
  <2>3. Disjoint(Committed(reg, w, o))
    BY <1>1, <2>2, WithinButDisjoint
  <2> QED
    BY <2>1, <2>3, PlanDisjoint DEF MoveSteps
<1> QED
  BY <1>3, <1>4

\* The steps that plan under the lock keep the blocks disjoint.
LEMMA PlanningDisjoint ==
  ASSUME TypeOK, DisjointInv, NEW p \in Procs,
         \/ Sync(p) \/ Reallocate(p) \/ Pin(p) \/ Unpin(p) \/ Prune(p) \/ PruneAll(p)
         \/ Reserve(p) \/ Unreserve(p) \/ Doctor(p) \/ Import(p)
  PROVE  DisjointInv'
<1> DEFINE w == job[p].wt
           resolved == ResolvePendingMove(registry, w)
<1>1. pc[p] # "idle" /\ w \in Worktrees
  BY DEF TypeOK, Sync, Reallocate, Pin, Unpin, SetPinned, Prune, PruneAll, Reserve,
         Unreserve, Doctor, Import, Running, At, Job
<1>2. registry \in Registry /\ Disjoint(registry)
  BY DEF TypeOK, DisjointInv, LedgerDisjoint
<1>3. resolved \in Registry /\ Disjoint(resolved)
  BY <1>1, <1>2, ResolveType, ResolveWithin, WithinDisjoint DEF TypeOK
<1>4. \A S : Disjoint(Without(registry, S))
  BY <1>2, WithoutWithin, WithinDisjoint
<1>5. CASE Sync(p)
  <2>1. PICK c \in Configs, S \in SUBSET Collectable(resolved, ProjectOf[w]) :
          \E b \in SyncBlocks(Without(resolved, S), w, manifest[w], c) :
            Settle(p, Without(resolved, S), w, b)
    BY <1>5 DEF Sync
  <2> DEFINE reg == Without(resolved, S)
  <2>2. reg \in Registry /\ Disjoint(reg)
    BY <1>3, WithoutType, WithoutWithin, WithinDisjoint
  <2>3. PICK b \in SyncBlocks(reg, w, manifest[w], c) : Settle(p, reg, w, b)
    BY <2>1
  <2>4. manifest[w] \in Manifests
    BY <1>1 DEF TypeOK
  <2>5. b \in Block /\ ApartFromOthers(reg, w, b)
    BY <1>1, <2>2, <2>4, SyncBlocksAreBlocks, SyncBlocksApart
  <2> QED
    BY <1>1, <2>2, <2>3, <2>5, SettleDisjoint
<1>6. CASE Reallocate(p)
  <2>1. PICK c \in Configs :
          \E b \in FreeSlots(c, Size[manifest[w]], AllBlocks(resolved)) :
            Settle(p, resolved, w, b)
    BY <1>6 DEF Reallocate
  <2>2. PICK b \in FreeSlots(c, Size[manifest[w]], AllBlocks(resolved)) :
          Settle(p, resolved, w, b)
    BY <2>1
  <2>3. c \in Config /\ Size[manifest[w]] \in 1..MaxPort
    BY <1>1, LedgerAssumption DEF TypeOK
  <2>4. b \in Block /\ Apart({b}, AllBlocks(resolved))
    BY <2>2, <2>3, SlotsAreBlocks DEF FreeSlots
  <2> QED
    BY <1>1, <1>3, <2>2, <2>4, ApartFromAll, SettleDisjoint
<1>7. ASSUME NEW c, NEW flag \in BOOLEAN, SetPinned(p, c, flag)
      PROVE  DisjointInv'
  <2>1. registry.worktrees[w] # None
    BY <1>7 DEF SetPinned
  <2>2. Disjoint([registry EXCEPT !.worktrees[w].pinned = flag])
    BY <1>1, <1>2, <2>1, PinnedWithin, WithinDisjoint
  <2> QED
    BY <1>7, <2>2, PlanDisjoint DEF SetPinned, MoveSteps
<1>8. CASE Prune(p)
  BY <1>4, <1>8, PlanDisjoint DEF Prune, MoveSteps
<1>9. CASE PruneAll(p)
  BY <1>4, <1>9, PlanDisjoint DEF PruneAll, MoveSteps
<1>10. CASE Reserve(p)
  <2>1. PICK b \in Reservable :
          /\ b \in registry.reservations \/ Apart({b}, AllBlocks(registry))
          /\ Plan(p, "saveOnly", [registry EXCEPT !.reservations = @ \cup {b}], None)
    BY <1>10 DEF Reserve
  <2>2. Disjoint([registry EXCEPT !.reservations = @ \cup {b}])
    BY <1>2, <2>1, ReserveDisjoint
  <2> QED
    BY <2>1, <2>2, PlanDisjoint DEF MoveSteps
<1>11. CASE Unreserve(p)
  <2>1. PICK b \in registry.reservations :
          Plan(p, "saveOnly", [registry EXCEPT !.reservations = @ \ {b}], None)
    BY <1>11 DEF Unreserve
  <2>2. Within([registry EXCEPT !.reservations = @ \ {b}], registry)
    BY <1>2 DEF Within, Held, Registry
  <2> QED
    BY <1>2, <2>1, <2>2, WithinDisjoint, PlanDisjoint DEF MoveSteps
<1>12. CASE Doctor(p)
  BY <1>2, <1>12, PlanDisjoint DEF Doctor, MoveSteps, DisjointInv, LedgerDisjoint
<1>13. CASE Import(p)
  <2>1. mem[p] \in Registry /\ Disjoint(mem[p])
    BY <1>13 DEF Import, At, TypeOK, Holding, Critical, DisjointInv
  <2>2. PICK I \in Imports(mem[p], w) :
          IF I = {} /\ Behind(WithImports(mem[p], I), w) = {}
          THEN /\ Goto(p, "returned")
               /\ lock' = None
               /\ mem' = [mem EXCEPT ![p] = None]
               /\ UNCHANGED <<files, world, job, out>>
          ELSE \E reg \in Reconciled(WithImports(mem[p], I), w) :
                 Plan(p, "saveOnly", reg, None)
    BY <1>13 DEF Import
  <2> DEFINE imported == WithImports(mem[p], I)
  <2>3. CASE I = {} /\ Behind(imported, w) = {}
    <3>1. Goto(p, "returned") /\ mem' = [mem EXCEPT ![p] = None]
          /\ UNCHANGED <<files, job, out>>
      BY <2>2, <2>3
    <3> QED
      BY <3>1, QuietDisjoint DEF Goto, files, MoveSteps, TypeOK
  <2>4. CASE ~(I = {} /\ Behind(imported, w) = {})
    <3>1. PICK reg \in Reconciled(imported, w) : Plan(p, "saveOnly", reg, None)
      BY <2>2, <2>4
    <3>2. \A v \in I : env[v] # None
      BY <2>2 DEF Imports, Importable
    <3>3. imported \in Registry /\ Disjoint(imported)
      BY <2>1, <2>2, <3>2, WithImportsType, ImportsDisjoint DEF TypeOK
    <3>4. Disjoint(reg)
      BY <3>1, <3>3, LiftedWithin, WithinDisjoint DEF Reconciled
    <3> QED
      BY <3>1, <3>4, PlanDisjoint DEF MoveSteps
  <2> QED
    BY <2>3, <2>4
<1> QED
  BY <1>5, <1>6, <1>7, <1>8, <1>9, <1>10, <1>11, <1>12, <1>13 DEF Pin, Unpin

\* The writes keep the blocks disjoint.
LEMMA WritingDisjoint ==
  ASSUME TypeOK, DisjointInv, NEW p \in Procs,
         \/ SavePending(p) \/ SaveEntry(p) \/ SaveOnly(p) \/ SaveRestored(p)
         \/ SaveMoved(p) \/ SaveBackup(p) \/ SaveLastBackup(p)
         \/ WriteMovedEnv(p) \/ WriteEnv(p)
  PROVE  DisjointInv'
<1>1. ASSUME pc[p] \in Holding
      PROVE  mem[p] \in Registry /\ Disjoint(mem[p]) /\ job[p].wt \in Worktrees
  <2>1. mem[p] \in Registry /\ mem[p] # None
    BY <1>1 DEF TypeOK
  <2>2. pc[p] # "idle"
    BY <1>1 DEF Holding, Critical
  <2> QED
    BY <2>1, <2>2 DEF TypeOK, Job, DisjointInv
<1>2. CASE SavePending(p)
  BY <1>1, <1>2, SaveDisjoint
  DEF SavePending, Save, At, Holding, Critical, MoveSteps, DisjointInv
<1>3. CASE SaveEntry(p) \/ SaveOnly(p) \/ SaveRestored(p)
  BY <1>1, <1>3, SaveDisjoint
  DEF SaveEntry, SaveOnly, SaveRestored, Save, At, Holding, Critical, MoveSteps
<1>4. CASE SaveMoved(p)
  <2> DEFINE w == job[p].wt
             reg == Committed(mem[p], w, out[p])
  <2>1. pc[p] = "saveMoved" /\ Save(p, "saveMoved", reg, "bakMoved")
    BY <1>4 DEF SaveMoved, Save, At
  <2>2. mem[p] \in Registry /\ Disjoint(mem[p]) /\ w \in Worktrees
    BY <1>1, <2>1 DEF Holding, Critical
  <2>3. out[p] \in EnvFile /\ out[p].block \in Held(mem[p], w)
    BY <2>1 DEF TypeOK, Rendering, DisjointInv, MoveSteps
  <2>4. reg \in Registry /\ WithinBut(reg, mem[p], w, out[p].block)
    BY <2>2, <2>3, CommittedType, CommittedWithin
  <2>5. Within(reg, mem[p])
    BY <2>3, <2>4 DEF Within, WithinBut
  <2> QED
    BY <2>1, <2>2, <2>4, <2>5, WithinDisjoint, SaveDisjoint DEF MoveSteps
<1>5. CASE SaveBackup(p)
  <2>1. pc[p] \in {"bakPending", "bakEntry", "bakRestored"} /\ pc[p] \in Holding
    BY <1>5 DEF SaveBackup, AfterBackup, Holding, Critical
  <2>2. UNCHANGED <<registry, mem, out, job>> /\ (backup' = mem[p] \/ UNCHANGED backup)
    BY <1>5 DEF SaveBackup, BackupWritten
  <2>3. \A q \in Procs : pc'[q] = IF q = p THEN AfterBackup[pc[p]] ELSE pc[q]
    BY <1>5 DEF SaveBackup, Goto, TypeOK
  <2>4. pc'[p] \in MoveSteps => pc[p] \in MoveSteps
    BY <2>1, <2>3 DEF AfterBackup, MoveSteps
  <2>5. LedgerDisjoint'
    BY <1>1, <2>1, <2>2 DEF DisjointInv, LedgerDisjoint
  <2> QED
    BY <2>2, <2>3, <2>4, <2>5 DEF DisjointInv
<1>6. CASE SaveLastBackup(p)
  <2>1. pc[p] \in Holding
    BY <1>6 DEF SaveLastBackup, Holding, Critical
  <2>2. registry' = registry /\ (backup' = mem[p] \/ UNCHANGED backup)
    BY <1>6 DEF SaveLastBackup, BackupWritten
  <2>3. LedgerDisjoint'
    BY <1>1, <2>1, <2>2 DEF DisjointInv, LedgerDisjoint
  <2>4. pc' = [pc EXCEPT ![p] = "returned"] /\ mem' = [mem EXCEPT ![p] = None]
        /\ UNCHANGED <<out, job>>
    BY <1>6 DEF SaveLastBackup, Finish, Goto
  <2> QED
    BY <2>3, <2>4 DEF DisjointInv, MoveSteps, TypeOK
<1>7. CASE WriteMovedEnv(p)
  BY <1>7 DEF WriteMovedEnv, EnvWritten, At, Goto, MoveSteps, TypeOK, DisjointInv, LedgerDisjoint
<1>8. CASE WriteEnv(p)
  <2>1. pc' = [pc EXCEPT ![p] = "returned"] /\ mem' = [mem EXCEPT ![p] = None]
        /\ UNCHANGED <<registry, backup, out, job>>
    BY <1>8 DEF WriteEnv, EnvWritten, Finish, Goto
  <2> QED
    BY <2>1, QuietDisjoint DEF MoveSteps, TypeOK
<1> QED
  BY <1>2, <1>3, <1>4, <1>5, <1>6, <1>7, <1>8

\* The remaining steps of a process keep the blocks disjoint.
LEMMA ControlDisjoint ==
  ASSUME TypeOK, DisjointInv, NEW p \in Procs,
         \/ Acquire(p) \/ LockTimeout(p) \/ Refuse(p) \/ Exit(p) \/ Crash(p)
         \/ FastLoad(p) \/ FastCompare(p) \/ FastRevalidate(p)
         \/ Release(p) \/ Deinit(p)
         \/ \E c \in Commands, w \in Worktrees : Start(p, c, w)
  PROVE  DisjointInv'
<1>1. ASSUME Terminated(p)
      PROVE  DisjointInv'
  BY <1>1, QuietDisjoint DEF Terminated, Goto, files, MoveSteps, TypeOK
<1>2. CASE LockTimeout(p) \/ Refuse(p) \/ Exit(p) \/ Crash(p)
  BY <1>1, <1>2 DEF LockTimeout, Refuse, Exit, Crash
<1>3. CASE Acquire(p)
  BY <1>3, QuietDisjoint DEF Acquire, Goto, files, MoveSteps, TypeOK
<1>4. CASE \E c \in Commands, w \in Worktrees : Start(p, c, w)
  BY <1>4, QuietDisjoint DEF Start, Goto, files, MoveSteps, TypeOK
<1>5. CASE FastLoad(p) \/ FastCompare(p) \/ FastRevalidate(p)
  BY <1>5, QuietDisjoint
  DEF FastLoad, FastCompare, FastRevalidate, FallThrough, Goto, files, MoveSteps, TypeOK
<1>6. \A S : Disjoint(Without(registry, S))
  BY WithoutWithin, WithinDisjoint DEF TypeOK, DisjointInv, LedgerDisjoint
<1>7. ASSUME Release(p) \/ Deinit(p)
      PROVE  \E S : mem' = mem \/ mem' = [mem EXCEPT ![p] = Without(registry, S)]
  BY <1>7 DEF Release, Deinit
<1>8. CASE Release(p) \/ Deinit(p)
  <2>1. UNCHANGED <<registry, backup, out, job>> /\ pc'[p] \notin MoveSteps
        /\ \A q \in Procs : q # p => pc'[q] = pc[q]
    BY <1>8 DEF Release, Deinit, Goto, MoveSteps, TypeOK
  <2>2. \A q \in Procs : /\ mem'[q] # None => Disjoint(mem'[q])
                         /\ q # p => mem'[q] = mem[q]
    BY <1>6, <1>7, <1>8 DEF TypeOK, DisjointInv
  <2> QED
    BY <2>1, <2>2 DEF DisjointInv, LedgerDisjoint
<1> QED
  BY <1>2, <1>3, <1>4, <1>5, <1>8

\* A ledger started from nothing keeps nothing.
LEMMA AbandonDisjoint ==
  ASSUME TypeOK, DisjointInv, NEW p \in Procs, Abandon(p)
  PROVE  DisjointInv'
<1>1. Disjoint(Empty)
  BY DEF Disjoint, Empty, Held, Apart
<1>2. Disjoint(registry')
  BY <1>1 DEF Abandon, DisjointInv, LedgerDisjoint
<1>3. /\ mem' = [mem EXCEPT ![p] = registry'] /\ pc' = [pc EXCEPT ![p] = "import"]
      /\ UNCHANGED <<backup, job, out>>
  BY DEF Abandon, Goto
<1> QED
  BY <1>2, <1>3 DEF DisjointInv, LedgerDisjoint, MoveSteps, TypeOK

\* No two owners share a port, in the ledger or in its backup, in any reachable
\* state: crashes, failed backup writes and restored backups included.
THEOREM NoDoubleOwner == Spec => []LedgerDisjoint
<1>1. Init => DisjointInv
  BY DEF Init, DisjointInv, LedgerDisjoint, Disjoint, Empty, Held, Apart, MoveSteps
<1>2. TypeOK /\ DisjointInv /\ [Next]_vars => DisjointInv'
  <2> SUFFICES ASSUME TypeOK, DisjointInv, [Next]_vars
               PROVE  DisjointInv'
    OBVIOUS
  <2>1. CASE UNCHANGED vars
    BY <2>1 DEF vars, DisjointInv, LedgerDisjoint
  <2>2. CASE Environment
    BY <2>2
    DEF Environment, EditManifest, RemoveDirectory, RemoveRecord, AddWorktree, LoseEnv, DeleteRepository,
        CorruptRegistry, files, procs, DisjointInv, LedgerDisjoint
  <2>3. ASSUME NEW p \in Procs, \E c \in Commands, w \in Worktrees : Start(p, c, w)
        PROVE  DisjointInv'
    BY <2>3, ControlDisjoint
  <2>4. ASSUME NEW p \in Procs, Step(p) \/ Crash(p)
        PROVE  DisjointInv'
    BY <2>4, ControlDisjoint, PlanningDisjoint, AbandonDisjoint, WritingDisjoint DEF Step
  <2> QED
    BY <2>1, <2>2, <2>3, <2>4 DEF Next
<1>3. DisjointInv => LedgerDisjoint
  BY DEF DisjointInv
<1> QED
  BY <1>1, <1>2, <1>3, TypeCorrect, PTL DEF Spec
=============================================================================
