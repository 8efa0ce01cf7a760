------------------------- MODULE PortReserveProofs -------------------------
(***************************************************************************)
(* Machine-checked proofs that the block an env file hands out stays       *)
(* reserved, for every set of processes and worktrees: the lock, the order *)
(* of the writes and what each command decides from what it has read are   *)
(* all needed.                                                             *)
(***************************************************************************)
EXTENDS PortSavesProofs

\* Nothing keeps a backup from being written or an env file from being removed,
\* and no ledger is abandoned.
Dependable ==
  /\ Events \cap {"backupFails", "removeFails"} = {}
  /\ "abandon" \notin Commands

-----------------------------------------------------------------------------
(* The invariant.                                                          *)

\* The entry of w has the block its env file hands out, or is moving to it, and
\* the env file was written for that.
Hands(reg, w) ==
  LET e == reg.worktrees[w]
      f == env[w]
  IN /\ e # None
     /\ \/ f.block = e.block /\ f.generation = e.generation
        \/ f.block \in e.pending /\ f.generation = e.generation + 1

\* reg keeps every block that an env file hands out.
Covering(reg) == \A w \in Live : Hands(reg, w)

\* reg is newer than every env file.
Ahead(reg) == \A w \in Worktrees : env[w] # None => env[w].sequence < reg.sequence

\* The steps at which the backup has followed the ledger, and those from the
\* plan to hand out a block until that is settled.
Backed == {"writeMovedEnv", "saveMoved", "writeEnv"}
Handing == {"savePending", "bakPending", "writeMovedEnv", "saveMoved", "saveEntry",
            "bakEntry", "writeEnv"}

\* Ledger and backup cover every env file and are newer; the backup is the
\* ledger or an older one.
FilesInv ==
  /\ Covering(registry) /\ Ahead(registry)
  /\ backup = None => \A w \in Worktrees : env[w] = None
  /\ backup # None => /\ Covering(backup) /\ Ahead(backup)
                      /\ \/ backup = registry
                         \/ backup.sequence < registry.sequence

\* What the holder of the lock knows of the files, besides KnowsInv.
HolderInv(p) ==
  LET w == job[p].wt
  IN /\ Covering(mem[p])
     /\ pc[p] \in Backed => mem[p] = backup
     /\ pc[p] \in Planned => mem[p].sequence = registry.sequence
     /\ pc[p] = "saveRestored" => mem[p] = backup
     /\ pc[p] \in Handing => /\ out[p].block \in Held(mem[p], w)
                             /\ out[p].sequence <= mem[p].sequence
     /\ pc[p] \in Handing \cap Written => out[p].sequence < mem[p].sequence

ReserveInv == FilesInv /\ \A p \in Procs : pc[p] \in Holding => HolderInv(p)

-----------------------------------------------------------------------------
(* What the helpers keep.                                                  *)

\* An entry that hands out a block keeps it.
LEMMA HandsCovers ==
  ASSUME NEW reg, NEW w, Hands(reg, w)
  PROVE  Covers(reg, w)
BY DEF Hands, Covers, Held

\* Numbering a save.
LEMMA SavedKeeps ==
  ASSUME NEW reg \in Registry
  PROVE  /\ Covering(reg) => Covering(Saved(reg))
         /\ Saved(reg).sequence = reg.sequence + 1
         /\ \A w : Held(Saved(reg), w) = Held(reg, w)
BY SavedEntries DEF Covering, Hands, Held

\* Dropping the entries of worktrees without an env file.
LEMMA WithoutKeeps ==
  ASSUME NEW reg \in Registry, NEW S, S \cap Live = {}, Covering(reg)
  PROVE  Covering(Without(reg, S)) /\ Without(reg, S).sequence = reg.sequence
<1>1. Without(reg, S).sequence = reg.sequence
  BY DEF Without, Registry
<1> QED
  BY <1>1, WithoutEntries DEF Covering, Hands, Live

\* Resolving an interrupted move keeps the block the env file hands out, and
\* counts the move if it was handed out.
LEMMA ResolveKeeps ==
  ASSUME NEW reg \in Registry, NEW w \in Worktrees, Covering(reg), TargetsApart(reg)
  PROVE  /\ Covering(ResolvePendingMove(reg, w))
         /\ ResolvePendingMove(reg, w).sequence = reg.sequence
<1> DEFINE e == reg.worktrees[w]
           handedOut == env[w] # None /\ env[w].block \in e.pending
           settled == [e EXCEPT !.pending = {},
                           !.block = IF handedOut THEN env[w].block ELSE @,
                           !.generation = IF handedOut THEN @ + 1 ELSE @]
           r == ResolvePendingMove(reg, w)
<1>1. CASE e = None
  BY <1>1 DEF ResolvePendingMove
<1>2. CASE e # None
  <2>1. e \in WorktreeEntry /\ e.block \notin e.pending
    BY <1>2 DEF Registry, TargetsApart, Tracked
  <2>2. PICK f : f = settled
    OBVIOUS
  <2>3. /\ f.block = IF handedOut THEN env[w].block ELSE e.block
        /\ f.generation = IF handedOut THEN e.generation + 1 ELSE e.generation
    BY <2>1, <2>2 DEF WorktreeEntry
  <2>4. r = [reg EXCEPT !.worktrees[w] = f]
    <3>1. r = [reg EXCEPT !.worktrees[w] = settled]
      BY <1>2 DEF ResolvePendingMove
    <3> HIDE DEF settled
    <3> QED
      BY <2>2, <3>1
  <2>5. /\ r.sequence = reg.sequence /\ r.worktrees[w] = f
        /\ \A v \in Worktrees : v # w => r.worktrees[v] = reg.worktrees[v]
    BY <2>4 DEF Registry
  <2>6. w \in Live => /\ env[w] # None
                      /\ \/ env[w].block = e.block /\ env[w].generation = e.generation
                         \/ /\ env[w].block \in e.pending
                            /\ env[w].generation = e.generation + 1
    BY DEF Covering, Hands, Live
  <2>7. w \in Live => f.block = env[w].block /\ f.generation = env[w].generation
    BY <2>1, <2>3, <2>6
  <2>8. f # None
    BY <1>2, <2>5, ResolveEntries DEF Tracked
  <2> HIDE DEF r
  <2>9. \A v \in Live : Hands(r, v)
    BY <2>5, <2>7, <2>8 DEF Covering, Hands, Live
  <2> QED
    BY <2>5, <2>9 DEF Covering, r
<1> QED
  BY <1>1, <1>2

\* Committing the block that w hands out, or a first one.
LEMMA CommittedKeeps ==
  ASSUME NEW reg \in Registry, NEW w \in Worktrees, NEW o \in EnvFile, Covering(reg),
         w \in Live => Agrees(env[w], o)
  PROVE  /\ Covering(Committed(reg, w, o))
         /\ Committed(reg, w, o).sequence = reg.sequence
         /\ o.block \in Held(Committed(reg, w, o), w)
<1> DEFINE r == Committed(reg, w, o)
<1>1. r.sequence = reg.sequence
  BY DEF Committed, Registry
<1>2. /\ \A v \in Worktrees : v # w => r.worktrees[v] = reg.worktrees[v]
      /\ Owns(r.worktrees[w], o)
  BY CommittedEntries
<1> HIDE DEF r
<1>3. \A v \in Live : Hands(r, v)
  BY <1>2 DEF Covering, Hands, Live, Owns, Agrees
<1>4. o.block \in Held(r, w)
  BY <1>2 DEF Owns, Held
<1> QED
  BY <1>1, <1>3, <1>4 DEF Covering, r

\* Starting a move adds a block to a settled entry.
LEMMA MovingKeeps ==
  ASSUME NEW reg \in Registry, NEW w \in Worktrees, reg.worktrees[w] # None,
         NEW b \in Block, Covering(reg), reg.worktrees[w].pending = {}
  PROVE  /\ Covering(Moving(reg, w, b))
         /\ Moving(reg, w, b).sequence = reg.sequence
         /\ b \in Held(Moving(reg, w, b), w)
<1> DEFINE r == Moving(reg, w, b)
           e == reg.worktrees[w]
           f == r.worktrees[w]
<1>1. r.sequence = reg.sequence
  BY DEF Moving, Registry
<1>2. /\ \A v \in Worktrees : v # w => r.worktrees[v] = reg.worktrees[v]
      /\ f.block = e.block /\ f.generation = e.generation /\ f # None /\ f.pending = {b}
  BY MovingEntries
<1> HIDE DEF r
<1>3. \A v \in Live : Hands(r, v)
  BY <1>2 DEF Covering, Hands, Live
<1>4. b \in Held(r, w)
  BY <1>2 DEF Held
<1> QED
  BY <1>1, <1>3, <1>4 DEF Covering, r

\* Pinning keeps every block.
LEMMA PinnedKeeps ==
  ASSUME NEW reg \in Registry, NEW w \in Worktrees, reg.worktrees[w] # None,
         NEW flag \in BOOLEAN, Covering(reg)
  PROVE  /\ Covering([reg EXCEPT !.worktrees[w].pinned = flag])
         /\ [reg EXCEPT !.worktrees[w].pinned = flag].sequence = reg.sequence
<1> DEFINE e == [reg.worktrees[w] EXCEPT !.pinned = flag]
           r == [reg EXCEPT !.worktrees[w].pinned = flag]
<1>1. reg.worktrees[w] \in WorktreeEntry
  BY DEF Registry
<1>2. /\ e \in WorktreeEntry /\ e # None
      /\ e.block = reg.worktrees[w].block /\ e.pending = reg.worktrees[w].pending
      /\ e.generation = reg.worktrees[w].generation
  BY <1>1, NoneAssumption DEF WorktreeEntry
<1>3. /\ r.sequence = reg.sequence
      /\ \A v \in Worktrees : r.worktrees[v] = IF v = w THEN e ELSE reg.worktrees[v]
  BY DEF Registry
<1> HIDE DEF e, r
<1>4. \A v \in Live : Hands(r, v)
  BY <1>2, <1>3 DEF Covering, Hands, Live
<1> QED
  BY <1>3, <1>4 DEF Covering, r

\* Imports add blocks.
LEMMA ImportsKeep ==
  ASSUME NEW reg \in Registry, NEW w, NEW I \in Imports(reg, w), Covering(reg)
  PROVE  /\ Covering(WithImports(reg, I))
         /\ WithImports(reg, I).sequence = reg.sequence
<1> DEFINE r == WithImports(reg, I)
<1>1. /\ r.sequence = reg.sequence
      /\ \A v \in Worktrees \ I : r.worktrees[v] = reg.worktrees[v]
  BY DEF WithImports, Registry
<1>2. \A v \in I : reg.worktrees[v] = None
  BY DEF Imports, Importable, Tracked, SameProject
<1>3. \A v \in Live : v \notin I
  BY <1>2 DEF Covering, Hands
<1> QED
  BY <1>1, <1>3 DEF Covering, Hands, Live

\* A ledger that is newer than every env file needs no lifting.
LEMMA NothingBehind ==
  ASSUME NEW reg \in Registry, NEW w, Ahead(reg), NEW r \in Reconciled(reg, w),
         env \in [Worktrees -> EnvFile \cup {None}]
  PROVE  r = reg
<1>1. \A v \in Worktrees : env[v] # None => ~(env[v].sequence >= reg.sequence)
  BY DEF Ahead, EnvFile, Registry
<1>2. Behind(reg, w) = {}
  BY <1>1 DEF Behind, TrackedEnvSequences, SameProject
<1> QED
  BY <1>2 DEF Reconciled

-----------------------------------------------------------------------------
(* The invariant, one kind of step at a time.                              *)

\* Where env files are only removed, nothing new is in use.
LEMMA LiveShrinks ==
  ASSUME \A w \in Worktrees : env'[w] \in {env[w], None}, deleted \subseteq deleted',
         NEW w \in Worktrees, w \in Live'
  PROVE  w \in Live /\ env'[w] = env[w]
BY DEF Live

\* Where env files are only removed, the files stay as they should be.
LEMMA FilesShrink ==
  ASSUME FilesInv, UNCHANGED <<registry, backup>>,
         \A w \in Worktrees : env'[w] \in {env[w], None}, deleted \subseteq deleted'
  PROVE  FilesInv'
<1>1. \A w \in Live' : w \in Live /\ env'[w] = env[w]
  BY LiveShrinks DEF Live
<1>2. Covering(registry)' /\ (backup # None => Covering(backup)')
  BY <1>1 DEF FilesInv, Covering, Hands
<1>3. Ahead(registry)' /\ (backup # None => Ahead(backup)')
  BY DEF FilesInv, Ahead
<1> QED
  BY <1>2, <1>3 DEF FilesInv

\* The same for what a process knows.
LEMMA HolderShrinks ==
  ASSUME NEW p \in Procs, HolderInv(p), job[p].wt \in Worktrees,
         UNCHANGED <<registry, backup>>,
         \A w \in Worktrees : env'[w] \in {env[w], None}, deleted \subseteq deleted',
         pc'[p] = pc[p], mem'[p] = mem[p], out'[p] = out[p], job'[p] = job[p]
  PROVE  HolderInv(p)'
<1>1. \A w \in Live' : w \in Live /\ env'[w] = env[w]
  BY LiveShrinks DEF Live
<1>2. Covering(mem[p])'
  BY <1>1 DEF HolderInv, Covering, Hands
<1> QED
  BY <1>2 DEF HolderInv, Held

\* Steps that change no ledger, and no process that holds a registry.
LEMMA QuietReserved ==
  ASSUME TypeOK, SavesInv, ReserveInv, UNCHANGED <<registry, backup>>,
         \A w \in Worktrees : env'[w] \in {env[w], None}, deleted \subseteq deleted',
         \A q \in Procs : pc'[q] \in Holding =>
           pc'[q] = pc[q] /\ mem'[q] = mem[q] /\ out'[q] = out[q] /\ job'[q] = job[q]
  PROVE  ReserveInv'
<1>1. FilesInv'
  BY FilesShrink DEF ReserveInv
<1>2. ASSUME NEW q \in Procs, pc'[q] \in Holding
      PROVE  HolderInv(q)'
  <2>1. HolderInv(q) /\ job[q].wt \in Worktrees
    BY <1>2, Holder DEF SavesInv, ReserveInv, Holding
  <2> QED
    BY <1>2, <2>1, HolderShrinks
<1> QED
  BY <1>1, <1>2 DEF ReserveInv

\* Starting, locking and ending a command, and the lock-free path.
LEMMA ControlReserved ==
  ASSUME TypeOK, SavesInv, ReserveInv, NEW p \in Procs,
         \/ Acquire(p) \/ LockTimeout(p) \/ Refuse(p) \/ Exit(p) \/ Crash(p)
         \/ FastLoad(p) \/ FastCompare(p) \/ FastRevalidate(p)
         \/ \E c \in Commands, w \in Worktrees : Start(p, c, w)
  PROVE  ReserveInv'
<1>1. \A q \in Procs : q # p => pc'[q] = pc[q] /\ mem'[q] = mem[q] /\ out'[q] = out[q]
                                /\ job'[q] = job[q]
  BY DEF TypeOK, Acquire, LockTimeout, Refuse, Exit, Crash, Terminated, FastLoad,
         FastCompare, FastRevalidate, FallThrough, Start, Goto
<1>2. /\ UNCHANGED <<registry, backup, env, deleted>>
  BY DEF Acquire, LockTimeout, Refuse, Exit, Crash, Terminated, FastLoad, FastCompare,
         FastRevalidate, Start, files, world
<1>3. pc'[p] \notin Holding
  BY DEF TypeOK, Acquire, LockTimeout, Refuse, Exit, Crash, Terminated, FastLoad,
         FastCompare, FastRevalidate, FallThrough, Start, Goto, Holding, Critical
<1> QED
  BY <1>1, <1>2, <1>3, QuietReserved

\* What happens around the commands.
LEMMA EnvironmentReserved ==
  ASSUME TypeOK, SavesInv, ReserveInv, Environment
  PROVE  ReserveInv'
<1>1. UNCHANGED <<registry, backup, procs>> /\ deleted \subseteq deleted'
  BY DEF Environment, EditManifest, RemoveDirectory, RemoveRecord, AddWorktree, LoseEnv,
         DeleteRepository, CorruptRegistry, files, world
<1>2. \A w \in Worktrees : env'[w] \in {env[w], None}
  BY DEF Environment, EditManifest, RemoveDirectory, RemoveRecord, AddWorktree, LoseEnv,
         DeleteRepository, CorruptRegistry, files, world, TypeOK
<1>3. UNCHANGED <<pc, mem, out, job>>
  BY <1>1 DEF procs
<1> QED
  BY <1>1, <1>2, <1>3, QuietReserved

\* Planning a save under the lock, or the import.
LEMMA PlanReserved ==
  ASSUME TypeOK, SavesInv, ReserveInv, NEW p \in Procs, pc[p] \in Critical,
         NEW step \in Planned \cup {"saveRestored", "import"}, NEW reg, NEW o,
         Plan(p, step, reg, o), Covering(reg),
         step \in Planned => reg.sequence = registry.sequence,
         step = "saveRestored" => reg = backup,
         step \in Handing => o.block \in Held(reg, job[p].wt) /\ o.sequence <= reg.sequence
  PROVE  ReserveInv'
<1>1. UNCHANGED <<registry, corrupt, backup, env, deleted, job>>
  BY DEF Plan, files, world
<1>2. \A q \in Procs : pc'[q] = IF q = p THEN step ELSE pc[q]
  BY DEF Plan, Goto, TypeOK
<1>3. mem'[p] = reg /\ out'[p] = o
  BY DEF Plan, TypeOK
<1>4. step \notin Backed /\ step \notin Handing \cap Written
  BY DEF Planned, Backed, Written, Handing
<1>5. FilesInv'
  BY <1>1, FilesShrink DEF ReserveInv
<1>6. HolderInv(p)'
  <2>1. Covering(mem[p])'
    BY <1>1, <1>3 DEF Covering, Hands, Live
  <2>2. step \in Handing => (out[p].block \in Held(mem[p], job[p].wt))'
    BY <1>1, <1>3 DEF Held
  <2> QED
    BY <1>1, <1>2, <1>3, <1>4, <2>1, <2>2 DEF HolderInv
<1>7. \A q \in Procs : q # p => pc'[q] \notin Holding
  BY <1>2, Holder DEF SavesInv, Holding
<1> QED
  BY <1>5, <1>6, <1>7 DEF ReserveInv

\* Replacing registry.json.
LEMMA SaveReserved ==
  ASSUME TypeOK, SavesInv, ReserveInv, NEW p \in Procs, NEW from \in Holding,
         NEW to \in {"bakPending", "bakEntry", "bakOnly", "bakRestored", "bakMoved"},
         NEW reg \in Registry, Save(p, from, reg, to), Covering(reg),
         \/ reg.sequence = registry.sequence
         \/ backup # None /\ reg.sequence = backup.sequence,
         to \in Handing => /\ out[p] \in EnvFile
                          /\ out[p].block \in Held(reg, job[p].wt)
                          /\ out[p].sequence <= reg.sequence
  PROVE  ReserveInv'
<1>1. /\ UNCHANGED <<backup, env, deleted, out, job>>
      /\ registry' = Saved(reg) /\ mem'[p] = Saved(reg)
  BY DEF Save, world, TypeOK
<1>2. pc[p] \in Critical /\ \A q \in Procs : pc'[q] = IF q = p THEN to ELSE pc[q]
  BY DEF Save, At, Goto, Holding, TypeOK
<1>3. to \notin Backed /\ to \notin Planned /\ to # "saveRestored"
  BY DEF Backed, Planned
<1>4. Covering(Saved(reg)) /\ Saved(reg).sequence = reg.sequence + 1
      /\ \A w : Held(Saved(reg), w) = Held(reg, w)
  BY SavedKeeps
<1>5. registry.sequence \in Nat /\ reg.sequence \in Nat
      /\ (backup # None => backup.sequence \in Nat)
      /\ \A w \in Worktrees : env[w] # None => env[w].sequence \in Nat
  BY DEF TypeOK, Registry, EnvFile
<1>6. FilesInv'
  <2>1. Covering(registry)'
    BY <1>1, <1>4 DEF Covering, Hands, Live
  <2>2. \A w \in Worktrees : env[w] # None => env[w].sequence < reg.sequence + 1
    BY <1>5 DEF ReserveInv, FilesInv, Ahead
  <2>3. Ahead(registry)'
    BY <1>1, <1>4, <2>2 DEF Ahead
  <2>4. backup # None => backup.sequence < reg.sequence + 1
    BY <1>5 DEF ReserveInv, FilesInv
  <2>5. backup # None => Covering(backup)' /\ Ahead(backup)'
    BY <1>1 DEF ReserveInv, FilesInv, Covering, Hands, Live, Ahead
  <2> QED
    BY <1>1, <1>4, <2>1, <2>3, <2>4, <2>5 DEF ReserveInv, FilesInv
<1>7. HolderInv(p)'
  <2>1. Covering(mem[p])'
    BY <1>1, <1>4 DEF Covering, Hands, Live
  <2>2. to \in Handing => (out[p].block \in Held(mem[p], job[p].wt))'
    BY <1>1, <1>4 DEF Held
  <2>3. to \in Handing => out[p].sequence \in Nat
    BY DEF EnvFile
  <2>4. to \in Handing => out[p].sequence < reg.sequence + 1
    BY <1>5, <2>3
  <2> QED
    BY <1>1, <1>2, <1>3, <1>4, <1>5, <2>1, <2>2, <2>3, <2>4 DEF HolderInv
<1>8. \A q \in Procs : q # p => pc'[q] \notin Holding
  BY <1>2, Holder DEF SavesInv, Holding
<1> QED
  BY <1>6, <1>7, <1>8 DEF ReserveInv

\* Giving a worktree a block, when its entry is settled.
LEMMA SettleReserved ==
  ASSUME TypeOK, SavesInv, ReserveInv, NEW p \in Procs, pc[p] \in Critical,
         NEW reg \in Registry, NEW b \in Block, Covering(reg),
         reg.sequence = registry.sequence,
         reg.worktrees[job[p].wt] # None => reg.worktrees[job[p].wt].pending = {},
         Settle(p, reg, job[p].wt, b)
  PROVE  ReserveInv'
<1> DEFINE w == job[p].wt
           e == reg.worktrees[w]
           g == IF e = None THEN 1 ELSE IF e.block # b THEN e.generation + 1
                ELSE e.generation
           o == Rendered(reg, w, b, g)
<1>1. w \in Worktrees
  BY Holder DEF SavesInv
<1>2. e # None => e.generation \in Nat \ {0}
  BY <1>1 DEF Registry, WorktreeEntry
<1>3. g \in Nat \ {0} /\ (e # None /\ e.block = b => g = e.generation)
  BY <1>2
<1>4. o \in EnvFile /\ o.block = b /\ o.generation = g /\ o.sequence = reg.sequence
  BY <1>1, <1>3 DEF Rendered, EnvFile, Registry, TypeOK
<1>5. reg.sequence \in Nat
  BY DEF Registry
<1>6. /\ (e # None /\ e.block # b) => Plan(p, "savePending", Moving(reg, w, b), o)
      /\ ~(e # None /\ e.block # b) => Plan(p, "saveEntry", Committed(reg, w, o), o)
  BY DEF Settle
<1> HIDE DEF g, o
<1>7. CASE e # None /\ e.block # b
  <2>1. /\ Covering(Moving(reg, w, b)) /\ Moving(reg, w, b).sequence = reg.sequence
        /\ b \in Held(Moving(reg, w, b), w)
    BY <1>1, <1>7, MovingKeeps
  <2> QED
    BY <1>4, <1>5, <1>6, <1>7, <2>1, PlanReserved DEF Planned
<1>8. CASE ~(e # None /\ e.block # b)
  <2>1. w \in Live => Agrees(env[w], o)
    BY <1>3, <1>4, <1>8 DEF Covering, Hands, Agrees
  <2>2. /\ Covering(Committed(reg, w, o)) /\ Committed(reg, w, o).sequence = reg.sequence
        /\ o.block \in Held(Committed(reg, w, o), w)
    BY <1>1, <1>4, <2>1, CommittedKeeps
  <2> QED
    BY <1>4, <1>5, <1>6, <1>8, <2>2, PlanReserved DEF Planned
<1> QED
  BY <1>7, <1>8

\* Nothing in use is collected.
LEMMA CollectableUnused ==
  ASSUME SavesInv, NEW reg, NEW j
  PROVE  Collectable(reg, j) \cap Live = {}
BY DEF SavesInv, Collectable, Live

\* The commands that plan under the lock.
LEMMA PlanningReserved ==
  ASSUME TypeOK, SavesInv, ReserveInv, NEW p \in Procs,
         \/ Sync(p) \/ Reallocate(p) \/ Pin(p) \/ Unpin(p) \/ Prune(p) \/ PruneAll(p)
         \/ Reserve(p) \/ Unreserve(p) \/ Doctor(p)
  PROVE  ReserveInv'
<1> DEFINE w == job[p].wt
           resolved == ResolvePendingMove(registry, w)
<1>1. pc[p] \in Critical
  BY DEF Sync, Reallocate, Pin, Unpin, SetPinned, Prune, PruneAll, Reserve, Unreserve,
         Doctor, Running, At, Critical
<1>2. /\ w \in Worktrees /\ registry \in Registry
      /\ Covering(registry) /\ TargetsApart(registry)
  BY <1>1, Holder DEF SavesInv, ReserveInv, FilesInv, TypeOK
<1>3. /\ resolved \in Registry /\ Covering(resolved)
      /\ resolved.sequence = registry.sequence
      /\ resolved.worktrees[w] # None => resolved.worktrees[w].pending = {}
  BY <1>2, ResolveType, ResolveKeeps, ResolveEntries DEF TypeOK, Tracked
<1>4. \A reg, j : Collectable(reg, j) \cap Live = {}
  BY CollectableUnused
<1>5. "saveOnly" \in Planned /\ "saveOnly" \notin Handing /\ "import" \notin Planned \cup Handing
      /\ "saveRestored" \notin Planned \cup Handing
  BY DEF Planned, Handing
<1>6. CASE Sync(p)
  <2>1. PICK c \in Configs, S \in SUBSET Collectable(resolved, ProjectOf[w]) :
          \E b \in SyncBlocks(Without(resolved, S), w, manifest[w], c) :
            Settle(p, Without(resolved, S), w, b)
    BY <1>6 DEF Sync
  <2> DEFINE reg == Without(resolved, S)
  <2>2. reg \in Registry
    BY <1>3, WithoutType
  <2>3. Covering(reg) /\ reg.sequence = registry.sequence
    <3>1. S \cap Live = {}
      BY <1>4
    <3> QED
      BY <1>3, <3>1, WithoutKeeps
  <2>4. reg.worktrees[w] # None => reg.worktrees[w].pending = {}
    BY <1>2, <1>3, WithoutEntries
  <2>5. PICK b \in SyncBlocks(reg, w, manifest[w], c) : Settle(p, reg, w, b)
    BY <2>1
  <2>6. manifest[w] \in Manifests
    BY <1>2 DEF TypeOK
  <2>7. b \in Block
    BY <1>2, <2>2, <2>5, <2>6, SyncBlocksAreBlocks
  <2> QED
    BY <1>1, <2>2, <2>3, <2>4, <2>5, <2>7, SettleReserved
<1>7. CASE Reallocate(p)
  <2>1. PICK c \in Configs :
          \E b \in FreeSlots(c, Size[manifest[w]], AllBlocks(resolved)) :
            Settle(p, resolved, w, b)
    BY <1>7 DEF Reallocate
  <2>2. PICK b \in FreeSlots(c, Size[manifest[w]], AllBlocks(resolved)) :
          Settle(p, resolved, w, b)
    BY <2>1
  <2>3. c \in Config /\ Size[manifest[w]] \in 1..MaxPort
    BY <1>2, LedgerAssumption DEF TypeOK
  <2>4. b \in Block
    BY <2>2, <2>3, SlotsAreBlocks DEF FreeSlots
  <2> QED
    BY <1>1, <1>3, <2>2, <2>4, SettleReserved
<1>8. ASSUME NEW c, NEW flag \in BOOLEAN, SetPinned(p, c, flag)
      PROVE  ReserveInv'
  <2>1. registry.worktrees[w] # None
        /\ Plan(p, "saveOnly", [registry EXCEPT !.worktrees[w].pinned = flag], None)
    BY <1>8 DEF SetPinned
  <2>2. /\ Covering([registry EXCEPT !.worktrees[w].pinned = flag])
        /\ [registry EXCEPT !.worktrees[w].pinned = flag].sequence = registry.sequence
    BY <1>2, <2>1, PinnedKeeps
  <2> QED
    BY <1>1, <1>5, <2>1, <2>2, PlanReserved
<1>9. ASSUME NEW S, S \cap Live = {}, Plan(p, "saveOnly", Without(registry, S), None)
      PROVE  ReserveInv'
  BY <1>1, <1>2, <1>5, <1>9, WithoutKeeps, PlanReserved
<1>10. CASE Prune(p)
  <2>1. PICK S \in SUBSET Collectable(registry, ProjectOf[w]) :
          Plan(p, "saveOnly", Without(registry, S), None)
    BY <1>10 DEF Prune
  <2>2. S \cap Live = {}
    BY <1>4
  <2> QED
    BY <1>9, <2>1, <2>2
<1>11. CASE PruneAll(p)
  <2> DEFINE orphans == {v \in Tracked(registry) :
                           ProjectOf[v] \in deleted /\ ~registry.worktrees[v].pinned}
             stale == UNION {Collectable(registry, j) : j \in Projects \ deleted}
  <2>1. PICK S \in SUBSET (orphans \cup stale) :
          Plan(p, "saveOnly", Without(registry, S), None)
    BY <1>11 DEF PruneAll
  <2>2. S \cap Live = {}
    BY <1>4 DEF Live
  <2> QED
    BY <1>9, <2>1, <2>2
<1>12. ASSUME NEW R, Plan(p, "saveOnly", [registry EXCEPT !.reservations = R], None)
       PROVE  ReserveInv'
  <2>1. /\ Covering([registry EXCEPT !.reservations = R])
        /\ [registry EXCEPT !.reservations = R].sequence = registry.sequence
    BY <1>2 DEF Registry, Covering, Hands
  <2> QED
    BY <1>1, <1>5, <1>12, <2>1, PlanReserved
<1>13. CASE Reserve(p)
  <2>1. PICK b \in Reservable :
          Plan(p, "saveOnly", [registry EXCEPT !.reservations = @ \cup {b}], None)
    BY <1>13 DEF Reserve
  <2>2. Plan(p, "saveOnly",
             [registry EXCEPT !.reservations = registry.reservations \cup {b}], None)
    BY <1>2, <2>1 DEF Registry
  <2> QED
    BY <1>12, <2>2
<1>14. CASE Unreserve(p)
  <2>1. PICK b \in registry.reservations :
          Plan(p, "saveOnly", [registry EXCEPT !.reservations = @ \ {b}], None)
    BY <1>14 DEF Unreserve
  <2>2. Plan(p, "saveOnly",
             [registry EXCEPT !.reservations = registry.reservations \ {b}], None)
    BY <1>2, <2>1 DEF Registry
  <2> QED
    BY <1>12, <2>2
<1>15. CASE Doctor(p)
  <2>1. CASE corrupt /\ backup # None /\ Plan(p, "saveRestored", backup, None)
    <3>1. Covering(backup)
      BY <2>1 DEF ReserveInv, FilesInv
    <3> QED
      BY <1>1, <1>5, <2>1, <3>1, PlanReserved
  <2>2. CASE ~corrupt /\ Plan(p, "import", registry, None)
    BY <1>1, <1>2, <1>5, <2>2, PlanReserved
  <2> QED
    BY <1>15, <2>1, <2>2 DEF Doctor
<1> QED
  BY <1>6, <1>7, <1>8, <1>10, <1>11, <1>13, <1>14, <1>15 DEF Pin, Unpin

\* The commands that remove env files first.
LEMMA RemovalReserved ==
  ASSUME Dependable, TypeOK, SavesInv, ReserveInv, NEW p \in Procs,
         Release(p) \/ Deinit(p)
  PROVE  ReserveInv'
<1> DEFINE w == job[p].wt
<1>1. pc[p] \in Critical
  BY DEF Release, Deinit, Running, At, Critical
<1>2. w \in Worktrees /\ registry \in Registry /\ Covering(registry)
  BY <1>1, Holder DEF SavesInv, ReserveInv, FilesInv, TypeOK
<1>3. UNCHANGED <<registry, backup, deleted, job, out>>
  BY DEF Release, Deinit, world
<1>4. \A v \in Worktrees : env'[v] \in {env[v], None}
  BY DEF Release, Deinit, TypeOK
<1>5. FilesInv'
  BY <1>3, <1>4, FilesShrink DEF ReserveInv
<1>6. PICK step \in {"saveOnly", "returned"} : Goto(p, step)
  BY DEF Release, Deinit
<1>7. \A q \in Procs : pc'[q] = IF q = p THEN step ELSE pc[q]
  BY <1>6 DEF Goto, TypeOK
<1>8. step = "saveOnly" => \E S : mem'[p] = Without(registry, S) /\ S \cap Live' = {}
  <2>1. CASE Release(p)
    BY <1>6, <1>7, <2>1 DEF Release, Goto, TypeOK, Live
  <2>2. CASE Deinit(p)
    <3> DEFINE mine == SameProject(w)
               found == mine \ (unlisted \ Tracked(registry))
    <3>1. \A v \in found : env'[v] = None
      BY <2>2 DEF Deinit, Dependable, SameProject
    <3>2. \A v \in mine \ found : v \notin Live
      BY <1>2 DEF Covering, Hands, Tracked, Live
    <3>3. \A v \in mine : v \notin Live'
      BY <1>3, <1>4, <3>1, <3>2, LiveShrinks DEF Live
    <3>4. step = "saveOnly" => mem'[p] = Without(registry, mine)
      BY <1>7, <2>2 DEF Deinit, Goto, TypeOK
    <3> QED
      BY <3>3, <3>4
  <2> QED
    BY <2>1, <2>2
<1>9. CASE step = "saveOnly"
  <2>1. PICK S : mem'[p] = Without(registry, S) /\ S \cap Live' = {}
    BY <1>8, <1>9
  <2>2. /\ mem'[p].sequence = registry.sequence
        /\ \A v \in Worktrees \ S : mem'[p].worktrees[v] = registry.worktrees[v]
    BY <1>2, <2>1 DEF Without, Registry
  <2>3. \A v \in Live' : v \in Live /\ v \in Worktrees \ S /\ env'[v] = env[v]
    BY <1>3, <1>4, <2>1, LiveShrinks DEF Live
  <2>4. Covering(mem[p])'
    BY <1>2, <2>2, <2>3 DEF Covering, Hands
  <2>5. HolderInv(p)'
    BY <1>3, <1>7, <1>9, <2>2, <2>4 DEF HolderInv, Backed, Planned, Handing
  <2>6. \A q \in Procs : q # p => pc'[q] \notin Holding
    BY <1>1, <1>7, Holder DEF SavesInv, Holding
  <2> QED
    BY <1>5, <2>5, <2>6 DEF ReserveInv
<1>10. CASE step = "returned"
  <2>1. \A q \in Procs : pc'[q] \notin Holding
    BY <1>1, <1>7, <1>10, Holder DEF SavesInv, Holding, Critical
  <2> QED
    BY <1>5, <2>1 DEF ReserveInv
<1> QED
  BY <1>6, <1>9, <1>10

\* The import of doctor.
LEMMA ImportReserved ==
  ASSUME TypeOK, SavesInv, ReserveInv, NEW p \in Procs, Import(p)
  PROVE  ReserveInv'
<1> DEFINE w == job[p].wt
<1>1. pc[p] = "import" /\ pc[p] \in Critical /\ pc[p] \in Holding /\ pc[p] \in Written
  BY DEF Import, At, Critical, Holding, Written
<1>2. mem[p] \in Registry /\ mem[p] = registry /\ Covering(registry) /\ Ahead(registry)
  BY <1>1 DEF SavesInv, KnowsInv, ReserveInv, FilesInv, TypeOK
<1>3. PICK I \in Imports(mem[p], w) :
        IF I = {} /\ Behind(WithImports(mem[p], I), w) = {}
        THEN /\ Goto(p, "returned")
             /\ lock' = None
             /\ mem' = [mem EXCEPT ![p] = None]
             /\ UNCHANGED <<files, world, job, out>>
        ELSE \E reg \in Reconciled(WithImports(mem[p], I), w) :
               Plan(p, "saveOnly", reg, None)
  BY DEF Import
<1> DEFINE imported == WithImports(mem[p], I)
<1>4. CASE I = {} /\ Behind(imported, w) = {}
  <2>1. Goto(p, "returned") /\ UNCHANGED <<registry, backup, env, deleted>>
    BY <1>3, <1>4 DEF files, world
  <2>2. \A q \in Procs : pc'[q] = IF q = p THEN "returned" ELSE pc[q]
    BY <2>1 DEF Goto, TypeOK
  <2>3. \A q \in Procs : pc'[q] \notin Holding
    BY <1>1, <2>2, Holder DEF SavesInv, Holding, Critical
  <2> QED
    BY <2>1, <2>3, QuietReserved
<1>5. CASE ~(I = {} /\ Behind(imported, w) = {})
  <2>1. PICK reg \in Reconciled(imported, w) : Plan(p, "saveOnly", reg, None)
    BY <1>3, <1>5
  <2>2. Covering(imported) /\ imported.sequence = registry.sequence
    BY <1>2, <1>3, ImportsKeep
  <2>3. imported \in Registry
    <3>1. \A v \in I : env[v] # None
      BY <1>3 DEF Imports, Importable
    <3> QED
      BY <1>2, <3>1, WithImportsType DEF TypeOK
  <2>4. Ahead(imported)
    BY <1>2, <2>2 DEF Ahead
  <2>5. reg = imported
    BY <2>1, <2>3, <2>4, NothingBehind DEF TypeOK
  <2> QED
    BY <1>1, <2>1, <2>2, <2>5, PlanReserved DEF Planned, Handing
<1> QED
  BY <1>4, <1>5

\* The replacements of registry.json.
LEMMA SavingReserved ==
  ASSUME TypeOK, SavesInv, ReserveInv, NEW p \in Procs,
         \/ SavePending(p) \/ SaveEntry(p) \/ SaveOnly(p) \/ SaveRestored(p)
         \/ SaveMoved(p)
  PROVE  ReserveInv'
<1> DEFINE w == job[p].wt
<1>1. /\ pc[p] \in {"savePending", "saveEntry", "saveOnly", "saveRestored", "saveMoved"}
      /\ pc[p] \in Holding /\ pc[p] \in Critical
  BY DEF SavePending, SaveEntry, SaveOnly, SaveRestored, SaveMoved, Save, At, Holding, Critical
<1>2. w \in Worktrees /\ mem[p] \in Registry /\ mem[p] # None /\ HolderInv(p) /\ KnowsInv(p)
  BY <1>1, Holder DEF SavesInv, ReserveInv, TypeOK
<1>3. pc[p] \in Rendering => out[p] \in EnvFile
  BY DEF TypeOK
<1>4. CASE SavePending(p)
  BY <1>2, <1>3, <1>4, SaveReserved
  DEF SavePending, Save, At, HolderInv, Planned, Handing, Holding, Critical, Rendering
<1>5. CASE SaveEntry(p)
  BY <1>2, <1>3, <1>5, SaveReserved
  DEF SaveEntry, Save, At, HolderInv, Planned, Handing, Holding, Critical, Rendering
<1>6. CASE SaveOnly(p)
  BY <1>2, <1>6, SaveReserved
  DEF SaveOnly, Save, At, HolderInv, Planned, Handing, Holding, Critical
<1>7. CASE SaveRestored(p)
  BY <1>2, <1>7, SaveReserved
  DEF SaveRestored, Save, At, HolderInv, Handing, Holding, Critical
<1>8. CASE SaveMoved(p)
  <2>1. pc[p] = "saveMoved"
    BY <1>8 DEF SaveMoved, Save, At
  <2>2. mem[p] = registry /\ out[p] \in EnvFile /\ Agrees(env[w], out[p])
    BY <1>2, <1>3, <2>1 DEF KnowsInv, Written, Rendering
  <2> DEFINE reg == Committed(mem[p], w, out[p])
  <2>3. Covering(reg) /\ reg.sequence = registry.sequence
    BY <1>2, <2>2, CommittedKeeps DEF HolderInv
  <2>4. reg \in Registry
    BY <1>2, <2>2, CommittedType
  <2> QED
    BY <1>8, <2>3, <2>4, SaveReserved DEF SaveMoved, Handing, Holding, Critical
<1> QED
  BY <1>4, <1>5, <1>6, <1>7, <1>8

\* The replacements of the backup.
LEMMA BackupReserved ==
  ASSUME Dependable, TypeOK, SavesInv, ReserveInv, NEW p \in Procs,
         SaveBackup(p) \/ SaveLastBackup(p)
  PROVE  ReserveInv'
<1>1. /\ pc[p] \in {"bakPending", "bakEntry", "bakRestored", "bakMoved", "bakOnly"}
      /\ pc[p] \in Critical /\ pc[p] \in Holding /\ pc[p] \in Written
  BY DEF SaveBackup, SaveLastBackup, AfterBackup, Critical, Holding, Written
<1>2. mem[p] = registry /\ mem[p] # None /\ HolderInv(p)
  BY <1>1 DEF SavesInv, KnowsInv, ReserveInv, TypeOK
<1>3. backup' = registry /\ UNCHANGED <<registry, env, deleted, job, out>>
  BY <1>2 DEF SaveBackup, SaveLastBackup, BackupWritten, Dependable, Finish, world
<1>4. FilesInv'
  BY <1>2, <1>3 DEF ReserveInv, FilesInv, Covering, Hands, Live, Ahead
<1>5. CASE SaveBackup(p)
  <2>1. PICK step \in {"writeMovedEnv", "writeEnv", "import"} :
          /\ pc[p] \in {"bakPending", "bakEntry", "bakRestored"}
          /\ step = AfterBackup[pc[p]]
          /\ \A q \in Procs : pc'[q] = IF q = p THEN step ELSE pc[q]
    BY <1>5 DEF SaveBackup, AfterBackup, Goto, TypeOK
  <2>2. UNCHANGED mem
    BY <1>5 DEF SaveBackup
  <2>3. step \in Handing => pc[p] \in Handing \cap Written
    BY <1>1, <2>1 DEF AfterBackup, Handing, Written
  <2>4. step \notin Planned /\ step # "saveRestored"
    BY DEF Planned
  <2>5. Covering(mem[p])'
    BY <1>2, <1>3, <2>2 DEF HolderInv, Covering, Hands, Live
  <2>6. HolderInv(p)'
    BY <1>2, <1>3, <2>1, <2>2, <2>3, <2>4, <2>5 DEF HolderInv, Held
  <2>7. \A q \in Procs : q # p => pc'[q] \notin Holding
    BY <1>1, <2>1, Holder DEF SavesInv, Holding
  <2> QED
    BY <1>4, <2>6, <2>7 DEF ReserveInv
<1>6. CASE SaveLastBackup(p)
  <2>1. \A q \in Procs : pc'[q] = IF q = p THEN "returned" ELSE pc[q]
    BY <1>6 DEF SaveLastBackup, Finish, Goto, TypeOK
  <2>2. \A q \in Procs : pc'[q] \notin Holding
    BY <1>1, <2>1, Holder DEF SavesInv, Holding, Critical
  <2> QED
    BY <1>4, <2>2 DEF ReserveInv
<1> QED
  BY <1>5, <1>6

\* Writing an env file.
LEMMA EnvReservedByWrites ==
  ASSUME TypeOK, SavesInv, ReserveInv, NEW p \in Procs, WriteMovedEnv(p) \/ WriteEnv(p)
  PROVE  ReserveInv'
<1> DEFINE w == job[p].wt
<1>1. /\ pc[p] \in {"writeMovedEnv", "writeEnv"}
      /\ pc[p] \in Critical /\ pc[p] \in Holding /\ pc[p] \in Written /\ pc[p] \in Backed
      /\ pc[p] \in Handing /\ pc[p] \in Rendering
  BY DEF WriteMovedEnv, WriteEnv, At, Critical, Holding, Written, Backed, Handing, Rendering
<1>2. /\ w \in Worktrees /\ mem[p] = registry /\ mem[p] = backup /\ mem[p] # None
      /\ \/ MovesTo(registry.worktrees[w], out[p])
         \/ Owns(registry.worktrees[w], out[p])
  BY <1>1, Holder DEF SavesInv, KnowsInv, MoveSteps, Settling, ReserveInv, HolderInv, TypeOK
<1>3. /\ out[p] # None /\ out[p].block \in Held(registry, w)
      /\ out[p].sequence < registry.sequence
  BY <1>1, <1>2 DEF ReserveInv, HolderInv, TypeOK
<1>4. /\ env' = [env EXCEPT ![w] = out[p]]
      /\ UNCHANGED <<registry, backup, deleted, job, out>>
  BY DEF WriteMovedEnv, WriteEnv, EnvWritten, Finish
<1>5. \A v \in Worktrees : env'[v] = IF v = w THEN out[p] ELSE env[v]
  BY <1>4 DEF TypeOK
<1>6. \A v \in Live' : v # w => v \in Live
  BY <1>4, <1>5 DEF Live
<1>7. Covering(registry)' /\ Ahead(registry)'
  <2>1. Hands(registry, w)'
    BY <1>2, <1>3, <1>4, <1>5 DEF Hands, Held, MovesTo, Owns
  <2>2. \A v \in Live' : v # w => Hands(registry, v)'
    BY <1>4, <1>5, <1>6 DEF ReserveInv, FilesInv, Covering, Hands, Live
  <2>3. Covering(registry)'
    BY <1>4, <2>1, <2>2 DEF Covering
  <2>4. Ahead(registry)'
    BY <1>3, <1>4, <1>5 DEF ReserveInv, FilesInv, Ahead
  <2> QED
    BY <2>3, <2>4
<1>8. FilesInv'
  <2>1. backup' = registry' /\ backup' # None
    BY <1>2, <1>4
  <2> QED
    BY <1>7, <2>1 DEF FilesInv
<1>9. CASE WriteMovedEnv(p)
  <2>1. UNCHANGED mem /\ \A q \in Procs : pc'[q] = IF q = p THEN "saveMoved" ELSE pc[q]
    BY <1>9 DEF WriteMovedEnv, Goto, TypeOK
  <2>2. Covering(mem[p])'
    BY <1>2, <1>4, <1>7, <2>1 DEF Covering, Hands
  <2>3. out[p].sequence <= registry.sequence
    BY <1>3 DEF TypeOK, EnvFile, Registry
  <2>4. /\ pc'[p] = "saveMoved" /\ mem'[p] = registry /\ mem'[p] = backup
        /\ (out[p].block \in Held(mem[p], w))'
    BY <1>2, <1>3, <1>4, <2>1 DEF Held
  <2>5. HolderInv(p)'
    BY <1>3, <1>4, <2>2, <2>3, <2>4 DEF HolderInv, Planned
  <2>6. \A q \in Procs : q # p => pc'[q] \notin Holding
    BY <1>1, <2>1, Holder DEF SavesInv, Holding
  <2> QED
    BY <1>8, <2>5, <2>6 DEF ReserveInv
<1>10. CASE WriteEnv(p)
  <2>1. \A q \in Procs : pc'[q] = IF q = p THEN "returned" ELSE pc[q]
    BY <1>10 DEF WriteEnv, Finish, Goto, TypeOK
  <2>2. \A q \in Procs : pc'[q] \notin Holding
    BY <1>1, <2>1, Holder DEF SavesInv, Holding, Critical
  <2> QED
    BY <1>8, <2>2 DEF ReserveInv
<1> QED
  BY <1>9, <1>10

\* No step of a command or around the commands breaks the invariant.
LEMMA NextReserved ==
  ASSUME Dependable, TypeOK, SavesInv, ReserveInv, [Next]_vars
  PROVE  ReserveInv'
<1>1. CASE UNCHANGED vars
  BY <1>1, QuietReserved DEF vars
<1>2. CASE Environment
  BY <1>2, EnvironmentReserved
<1>3. ASSUME NEW p \in Procs, \E c \in Commands, w \in Worktrees : Start(p, c, w)
      PROVE  ReserveInv'
  BY <1>3, ControlReserved
<1>4. ASSUME NEW p \in Procs, Step(p) \/ Crash(p)
      PROVE  ReserveInv'
  <2>1. ~Abandon(p)
    BY DEF Abandon, Running, At, TypeOK, Job, Dependable
  <2> QED
    BY <1>4, <2>1, ControlReserved, PlanningReserved, RemovalReserved, ImportReserved,
       SavingReserved, BackupReserved, EnvReservedByWrites
    DEF Step
<1> QED
  BY <1>1, <1>2, <1>3, <1>4 DEF Next

\* The invariant holds in every reachable state.
LEMMA AlwaysReserved ==
  ASSUME Dependable
  PROVE  Spec => []ReserveInv
<1>1. Init => ReserveInv
  BY DEF Init, ReserveInv, FilesInv, Covering, Ahead, Live, Critical, Holding
<1>2. TypeOK /\ SavesInv /\ ReserveInv /\ [Next]_vars => ReserveInv'
  BY NextReserved
<1> QED
  BY <1>1, <1>2, TypeCorrect, AlwaysSaves, PTL DEF Spec

-----------------------------------------------------------------------------
(* What follows.                                                           *)

\* The block an env file hands out stays reserved for its worktree at every
\* instant: interrupted moves, crashes between any two writes, collection, and a
\* ledger that is corrupted at any moment and restored.
THEOREM EnvsStayReserved ==
  ASSUME Dependable
  PROVE  Spec => []EnvReserved
<1>1. ReserveInv => EnvReserved
  BY HandsCovers DEF ReserveInv, FilesInv, EnvReserved, Covering
<1> QED
  BY <1>1, AlwaysReserved, PTL

\* The backup reserves it as well, so that a restore loses nothing in use.
THEOREM BackupKeepsEnvs ==
  ASSUME Dependable
  PROVE  Spec => []BackupCoversEnvs
<1>1. ReserveInv => BackupCoversEnvs
  BY HandsCovers DEF ReserveInv, FilesInv, BackupCoversEnvs, Covering, Live
<1> QED
  BY <1>1, AlwaysReserved, PTL

\* So no two worktrees are ever handed a common port.
THEOREM NoPortHandedOutTwice ==
  ASSUME Dependable
  PROVE  Spec => []NoSharedPorts
<1>1. EnvReserved /\ LedgerDisjoint => NoSharedPorts
  BY DEF EnvReserved, Covers, LedgerDisjoint, Disjoint, Apart, NoSharedPorts, Live
<1> QED
  BY <1>1, EnvsStayReserved, NoDoubleOwner, PTL

\* Every env file is older than the ledger, so that no healthy one is
\* quarantined.
THEOREM LedgerIsNewer ==
  ASSUME Dependable
  PROVE  Spec => []EnvSequenceBehind
<1>1. ReserveInv => EnvSequenceBehind
  BY DEF ReserveInv, FilesInv, Ahead, EnvSequenceBehind
<1> QED
  BY <1>1, AlwaysReserved, PTL

\* A backup that check calls fresh is the ledger.
THEOREM FreshMeansCurrent ==
  ASSUME Dependable
  PROVE  Spec => []FreshBackupIsCurrent
<1>1. TypeOK /\ ReserveInv => FreshBackupIsCurrent
  BY DEF TypeOK, Registry, ReserveInv, FilesInv, FreshBackupIsCurrent, BackupFresh
<1> QED
  BY <1>1, AlwaysReserved, TypeCorrect, PTL

\* Every save follows from the version it replaces: the holder of the lock has
\* read the ledger, and nobody has saved since.
THEOREM SavesFollowOneAnother ==
  ASSUME Dependable
  PROVE  Spec => SavesAreSerial
<1>1. ASSUME TypeOK, SavesInv, ReserveInv, Next, registry' # registry, ~corrupt
      PROVE  registry'.sequence = registry.sequence + 1
  <2>1. PICK p \in Procs : \/ SavePending(p) \/ SaveEntry(p) \/ SaveOnly(p)
                          \/ SaveRestored(p) \/ SaveMoved(p) \/ Abandon(p)
    BY <1>1, SavesChangeTheLedger
  <2>2. ~Abandon(p)
    BY <1>1 DEF Abandon
  <2>3. /\ pc[p] \in Holding
        /\ pc[p] \in Planned \cup {"saveRestored", "saveMoved"}
    BY <2>1, <2>2 DEF SavePending, SaveEntry, SaveOnly, SaveRestored, SaveMoved, Save, At,
                      Holding, Critical, Planned
  <2>4. mem[p] \in Registry /\ HolderInv(p) /\ KnowsInv(p)
    BY <1>1, <2>3 DEF TypeOK, SavesInv, ReserveInv
  <2>5. mem[p].sequence = registry.sequence
    BY <1>1, <2>3, <2>4 DEF HolderInv, KnowsInv, Written
  <2>6. registry' = Saved(mem[p]) \/ registry' = Saved(Committed(mem[p], job[p].wt, out[p]))
    BY <2>1, <2>2 DEF SavePending, SaveEntry, SaveOnly, SaveRestored, SaveMoved, Save
  <2> QED
    BY <2>4, <2>5, <2>6 DEF Saved, Committed, Registry
<1>2. TypeOK /\ SavesInv /\ ReserveInv /\ [Next]_vars
        => [registry' # registry /\ ~corrupt
              => registry'.sequence = registry.sequence + 1]_vars
  BY <1>1 DEF vars
<1> QED
  BY <1>2, AlwaysReserved, AlwaysSaves, TypeCorrect, PTL DEF Spec, SavesAreSerial

\* A process that returns with a block owns it, and the env file agrees.
LEMMA ReturnsOwned ==
  ASSUME TypeOK, SavesInv, ReserveInv, Next, NEW p \in Procs,
         ~At(p, "returned"), pc'[p] = "returned", out[p] # None
  PROVE  LET w == job[p].wt
             o == out[p]
         IN /\ StillCurrent(w, o)' \/ corrupt'
            /\ w \in Live' => env'[w].block = o.block /\ env'[w].generation = o.generation
<1> DEFINE w == job[p].wt
           o == out[p]
<1>1. pc[p] \notin Blank
  BY DEF SavesInv
<1>2. \/ FastRevalidate(p) \/ SaveLastBackup(p) \/ WriteEnv(p)
  BY <1>1, Returning DEF Release, Deinit, Import, Running, At, Blank
<1>3. w \in Worktrees /\ UNCHANGED <<registry, corrupt, deleted, job>>
  BY <1>1, <1>2 DEF FastRevalidate, SaveLastBackup, WriteEnv, EnvWritten, Finish, files,
                    world, TypeOK, Job, Blank
<1>4. CASE FastRevalidate(p)
  <2>1. StillCurrent(w, o) /\ UNCHANGED <<env, out>>
    BY <1>4 DEF FastRevalidate, FallThrough, Goto, TypeOK, files
  <2>2. w \in Live => env[w].block = o.block /\ env[w].generation = o.generation
    BY <2>1 DEF StillCurrent, Settled, ReserveInv, FilesInv, Covering, Hands
  <2> QED
    BY <1>3, <2>1, <2>2 DEF StillCurrent, Settled, Live
<1>5. CASE SaveLastBackup(p)
  <2>1. pc[p] = "bakMoved" /\ pc[p] \in Holding /\ pc[p] \in Written /\ pc[p] \in Settling
    BY <1>1, <1>5 DEF SaveLastBackup, Blank, Holding, Critical, Written, Settling
  <2>2. Owns(registry.worktrees[w], o) /\ Agrees(env[w], o)
    BY <2>1 DEF SavesInv, KnowsInv
  <2>3. UNCHANGED <<env, out>>
    BY <1>5 DEF SaveLastBackup, Finish
  <2> QED
    BY <1>3, <2>2, <2>3 DEF StillCurrent, Settled, Owns, Agrees, Live
<1>6. CASE WriteEnv(p)
  <2>1. pc[p] = "writeEnv" /\ pc[p] \in Holding /\ pc[p] \in Written /\ pc[p] \in Settling
    BY <1>6 DEF WriteEnv, At, Holding, Critical, Written, Settling
  <2>2. Owns(registry.worktrees[w], o)
    BY <2>1 DEF SavesInv, KnowsInv
  <2>3. env'[w] = o /\ UNCHANGED out
    BY <1>3, <1>6 DEF WriteEnv, EnvWritten, Finish, TypeOK
  <2> QED
    BY <1>3, <2>2, <2>3 DEF StillCurrent, Settled, Owns
<1> QED
  BY <1>2, <1>4, <1>5, <1>6

\* What sync and reallocate return is theirs: the lock-free path compares the
\* generation as well, so that a move between its reads shows, and a move to
\* another block and back does too.
THEOREM ReturnsAreOwned ==
  ASSUME Dependable
  PROVE  Spec => ReturnedBlockIsOwned
<1>1. TypeOK /\ SavesInv /\ ReserveInv /\ [Next]_vars
        => [\A p \in Procs :
              (~At(p, "returned") /\ pc'[p] = "returned" /\ out[p] # None) =>
                LET w == job[p].wt
                    o == out[p]
                IN /\ StillCurrent(w, o)' \/ corrupt'
                   /\ w \in Live' =>
                        env'[w].block = o.block /\ env'[w].generation = o.generation]_vars
  BY ReturnsOwned
<1> QED
  BY <1>1, AlwaysReserved, AlwaysSaves, TypeCorrect, PTL DEF Spec, ReturnedBlockIsOwned

\* A repair leaves every block in use reserved, as the comment of doctor.rs
\* says, as long as no backup could not be written and no ledger is abandoned.
THEOREM RepairsReconcile ==
  ASSUME Dependable
  PROVE  Spec => DoctorReconciles
<1>1. ASSUME TypeOK, RepairInv, ReserveInv', Next, NEW p \in Procs, ~At(p, "returned"),
             pc'[p] = "returned", job[p].cmd = "doctor"
      PROVE  \A v \in Live : Covers(registry, v)'
  <2>1. ~\/ FastRevalidate(p) \/ Release(p) \/ Deinit(p) \/ WriteEnv(p)
    BY <1>1 DEF FastRevalidate, Release, Deinit, WriteEnv, Running, At, Repairing,
                RepairInv, Serving, Rendering
  <2>2. Import(p) \/ SaveLastBackup(p)
    BY <1>1, <2>1, Returning
  <2>3. UNCHANGED <<env, deleted>>
    BY <2>2 DEF Import, Plan, SaveLastBackup, files, world
  <2> QED
    BY <1>1, <2>3 DEF ReserveInv, FilesInv, Covering, Hands, Covers, Held, Live
<1>2. TypeOK /\ RepairInv /\ ReserveInv' /\ [Next]_vars
        => [\A p \in Procs :
              (~At(p, "returned") /\ pc'[p] = "returned" /\ job[p].cmd = "doctor") =>
                \A v \in Live \cap SameProject(job[p].wt) : Covers(registry, v)']_vars
  BY <1>1
<1> QED
  BY <1>2, AlwaysReserved, RepairsHandOutNothing, TypeCorrect, PTL
  DEF Spec, DoctorReconciles

\* deinit drops no block in use as long as every env file it wants to remove
\* can be removed.
THEOREM DeinitKeepsBlocks ==
  ASSUME Dependable
  PROVE  Spec => DeinitDropsNoLiveBlock
<1>1. ASSUME TypeOK, ReserveInv', Next, NEW p \in Procs, At(p, "saveOnly"),
             pc'[p] = "bakOnly"
      PROVE  \A v \in Live : Covers(registry, v)'
  <2>1. \E q \in Procs : \/ Step(q) \/ Crash(q)
                         \/ \E c \in Commands, w \in Worktrees : Start(q, c, w)
    <3>1. ~Environment
      BY <1>1 DEF Environment, EditManifest, RemoveDirectory, RemoveRecord, AddWorktree,
                  LoseEnv, DeleteRepository, CorruptRegistry, procs, At
    <3> QED
      BY <1>1, <3>1 DEF Next
  <2>2. \/ Step(p) \/ Crash(p) \/ \E c \in Commands, w \in Worktrees : Start(p, c, w)
    BY <1>1, <2>1, OthersStay DEF At
  <2>3. ~Terminated(p) /\ \A c, w : ~Start(p, c, w)
    BY <1>1 DEF Terminated, Start, Goto, At, TypeOK
  <2>4. SaveOnly(p)
    BY <1>1, <2>2, <2>3
    DEF Step, Crash, At, Running, Acquire, LockTimeout, Refuse, Exit, FastLoad, FastCompare,
        FastRevalidate, Sync, Reallocate, Pin, Unpin, SetPinned, Prune, PruneAll, Reserve,
        Unreserve, Release, Deinit, Doctor, Abandon, Import, SavePending, SaveEntry,
        SaveRestored, SaveMoved, Save, SaveBackup, SaveLastBackup, AfterBackup, Goto,
        WriteMovedEnv, WriteEnv, TypeOK
  <2>5. UNCHANGED <<env, deleted>>
    BY <2>4 DEF SaveOnly, Save, world
  <2> QED
    BY <1>1, <2>5 DEF ReserveInv, FilesInv, Covering, Hands, Covers, Held, Live
<1>2. TypeOK /\ ReserveInv' /\ [Next]_vars
        => [\A p \in Procs :
              (At(p, "saveOnly") /\ pc'[p] = "bakOnly" /\ job[p].cmd = "deinit") =>
                \A v \in Live \cap SameProject(job[p].wt) :
                  Covers(registry, v) => Covers(registry, v)']_vars
  BY <1>1
<1> QED
  BY <1>2, AlwaysReserved, TypeCorrect, PTL DEF Spec, DeinitDropsNoLiveBlock

-----------------------------------------------------------------------------
(* The commands implement exclusive leases.                                *)

\* A step that writes no env file may grant and give up leases.
LEMMA RenewSteps ==
  ASSUME UNCHANGED <<env, deleted>>, ReserveInv', LedgerDisjoint'
  PROVE  Leases!Renew
<1>1. InUse' = InUse /\ Live' = Live
  BY DEF InUse, Live
<1>2. \A w \in Worktrees : InUse[w] \subseteq Held(registry', w)
  <2>1. \A w \in Live' : env'[w].block \in Held(registry', w)
    BY DEF ReserveInv, FilesInv, Covering, Hands, Held
  <2> QED
    BY <1>1, <2>1 DEF InUse, Live
<1>3. \A A, B : Leases!Apart(A, B) <=> Apart(A, B)
  BY DEF Leases!Apart, Leases!Overlaps, Apart, Overlaps
<1>4. \A a, b : Leases!Overlaps(a, b) <=> Overlaps(a, b)
  BY DEF Leases!Overlaps, Overlaps
<1>5. Disjoint(registry')
  BY DEF LedgerDisjoint
<1>6. Leases!Exclusive([w \in Worktrees |-> Held(registry', w)], registry'.reservations)
  BY <1>3, <1>4, <1>5 DEF Leases!Exclusive, Disjoint
<1> QED
  BY <1>1, <1>2, <1>6 DEF Leases!Renew

\* A step that only removes env files stops the use of leases.
LEMMA StopSteps ==
  ASSUME UNCHANGED registry, \A w \in Worktrees : env'[w] \in {env[w], None},
         deleted \subseteq deleted'
  PROVE  Leases!Next
<1> DEFINE W == Worktrees \ Live'
<1>1. \A w \in Live' : w \in Live /\ env'[w] = env[w]
  BY LiveShrinks DEF Live
<1>2. InUse' = [w \in Worktrees |-> IF w \in W THEN {} ELSE InUse[w]]
  BY <1>1 DEF InUse
<1>3. Leases!StopUsing(W)
  BY <1>2 DEF Leases!StopUsing, Held
<1> QED
  BY <1>3 DEF Leases!Next

\* Writing an env file uses a lease the worktree holds.
LEMMA UseSteps ==
  ASSUME TypeOK, SavesInv, ReserveInv, NEW p \in Procs, WriteMovedEnv(p) \/ WriteEnv(p)
  PROVE  Leases!Next
<1> DEFINE w == job[p].wt
<1>1. /\ pc[p] \in Critical /\ pc[p] \in Holding /\ pc[p] \in Written
      /\ pc[p] \in Handing /\ pc[p] \in Rendering
  BY DEF WriteMovedEnv, WriteEnv, At, Critical, Holding, Written, Handing, Rendering
<1>2. w \in Worktrees /\ out[p] # None /\ out[p].block \in Held(registry, w)
  BY <1>1, Holder DEF SavesInv, KnowsInv, ReserveInv, HolderInv, TypeOK
<1>3. UNCHANGED <<registry, deleted>>
      /\ \A v \in Worktrees : env'[v] = IF v = w THEN out[p] ELSE env[v]
  BY <1>2 DEF WriteMovedEnv, WriteEnv, EnvWritten, TypeOK
<1>4. CASE ProjectOf[w] \in deleted
  <2>1. InUse' = InUse
    BY <1>3, <1>4 DEF InUse, Live
  <2>2. InUse' = [v \in Worktrees |-> IF v \in {} THEN {} ELSE InUse[v]]
    BY <2>1 DEF InUse
  <2>3. Leases!StopUsing({})
    BY <1>3, <2>2 DEF Leases!StopUsing, Held
  <2> QED
    BY <2>3 DEF Leases!Next
<1>5. CASE ProjectOf[w] \notin deleted
  <2>1. InUse' = [InUse EXCEPT ![w] = {out[p].block}]
    BY <1>2, <1>3, <1>5 DEF InUse, Live
  <2>2. Leases!Use(w)
    BY <1>2, <1>3, <2>1 DEF Leases!Use, Held
  <2> QED
    BY <1>2, <2>2 DEF Leases!Next
<1> QED
  BY <1>4, <1>5

\* Every step of the commands, and of what surrounds them, is one of the leases.
LEMMA StepsAreLeases ==
  ASSUME TypeOK, SavesInv, ReserveInv, ReserveInv', LedgerDisjoint', Next
  PROVE  Leases!Next
<1>1. CASE UNCHANGED <<env, deleted>>
  BY <1>1, RenewSteps DEF Leases!Next
<1>2. CASE Environment
  <2>1. \/ UNCHANGED <<env, deleted>>
        \/ /\ UNCHANGED registry /\ deleted \subseteq deleted'
           /\ \A w \in Worktrees : env'[w] \in {env[w], None}
    <3>1. ASSUME NEW v \in Worktrees, RemoveDirectory(v) \/ LoseEnv(v)
          PROVE  /\ UNCHANGED <<registry, deleted>>
                 /\ \A w \in Worktrees : env'[w] \in {env[w], None}
      BY <3>1 DEF RemoveDirectory, LoseEnv, world, TypeOK
    <3>2. ASSUME NEW j \in Projects, DeleteRepository(j)
          PROVE  UNCHANGED <<registry, env>> /\ deleted \subseteq deleted'
      BY <3>2 DEF DeleteRepository, files
    <3>3. CASE \/ CorruptRegistry
               \/ \E w \in Worktrees : \/ \E m \in Manifests : EditManifest(w, m)
                                       \/ RemoveRecord(w) \/ AddWorktree(w)
      BY <3>3 DEF CorruptRegistry, EditManifest, RemoveRecord, AddWorktree, files, world
    <3> QED
      BY <1>2, <3>1, <3>2, <3>3 DEF Environment
  <2> QED
    BY <1>1, <2>1, StopSteps
<1>3. ASSUME NEW p \in Procs, Release(p) \/ Deinit(p)
      PROVE  Leases!Next
  <2>1. UNCHANGED <<registry, deleted>> /\ \A w \in Worktrees : env'[w] \in {env[w], None}
    BY <1>3 DEF Release, Deinit, world, TypeOK
  <2> QED
    BY <2>1, StopSteps
<1>4. ASSUME NEW p \in Procs, WriteMovedEnv(p) \/ WriteEnv(p)
      PROVE  Leases!Next
  BY <1>4, UseSteps
<1>5. ASSUME NEW p \in Procs, Step(p) \/ Crash(p), ~(Release(p) \/ Deinit(p)),
             ~(WriteMovedEnv(p) \/ WriteEnv(p))
      PROVE  UNCHANGED <<env, deleted>>
  <2>1. \A step, reg, o : Plan(p, step, reg, o) => UNCHANGED <<env, deleted>>
    BY DEF Plan, files, world
  <2>2. \A from, reg, to : Save(p, from, reg, to) => UNCHANGED <<env, deleted>>
    BY DEF Save, world
  <2>3. Terminated(p) => UNCHANGED <<env, deleted>>
    BY DEF Terminated, files, world
  <2>4. CASE \/ LockTimeout(p) \/ Refuse(p) \/ Exit(p) \/ Crash(p)
    BY <2>3, <2>4 DEF LockTimeout, Refuse, Exit, Crash
  <2>5. CASE \/ Acquire(p) \/ FastLoad(p) \/ FastCompare(p) \/ FastRevalidate(p)
             \/ Abandon(p) \/ SaveBackup(p) \/ SaveLastBackup(p)
    BY <2>5 DEF Acquire, FastLoad, FastCompare, FastRevalidate, Abandon, SaveBackup,
                SaveLastBackup, files, world
  <2>6. CASE \/ Sync(p) \/ Reallocate(p) \/ Pin(p) \/ Unpin(p) \/ Prune(p) \/ PruneAll(p)
             \/ Reserve(p) \/ Unreserve(p) \/ Doctor(p)
    BY <2>1, <2>6 DEF Sync, Reallocate, Settle, Pin, Unpin, SetPinned, Prune, PruneAll,
                      Reserve, Unreserve, Doctor
  <2>7. CASE Import(p)
    BY <2>1, <2>7 DEF Import, files, world
  <2>8. CASE \/ SavePending(p) \/ SaveEntry(p) \/ SaveOnly(p) \/ SaveRestored(p)
             \/ SaveMoved(p)
    BY <2>2, <2>8 DEF SavePending, SaveEntry, SaveOnly, SaveRestored, SaveMoved
  <2> QED
    BY <1>5, <2>4, <2>5, <2>6, <2>7, <2>8 DEF Step
<1>6. ASSUME NEW p \in Procs, \E c \in Commands, w \in Worktrees : Start(p, c, w)
      PROVE  UNCHANGED <<env, deleted>>
  BY <1>6 DEF Start, files, world
<1> QED
  BY <1>1, <1>2, <1>3, <1>4, <1>5, <1>6 DEF Next

\* Files, lock and processes implement exclusive leases: no port is leased
\* twice, a worktree uses only what it holds, and nothing in use is taken away.
THEOREM LeasesImplemented ==
  ASSUME Dependable
  PROVE  Spec => ImplementsLeases
<1>1. Init => Leases!Init
  BY DEF Init, Empty, Leases!Init, Held, InUse, Live
<1>2. TypeOK /\ SavesInv /\ ReserveInv /\ ReserveInv' /\ LedgerDisjoint' /\ [Next]_vars
        => [Leases!Next]_(Leases!vars)
  <2> SUFFICES ASSUME TypeOK, SavesInv, ReserveInv, ReserveInv', LedgerDisjoint', [Next]_vars
               PROVE  [Leases!Next]_(Leases!vars)
    OBVIOUS
  <2>1. CASE UNCHANGED vars
    BY <2>1 DEF vars, Leases!vars, Held, InUse, Live
  <2>2. CASE Next
    BY <2>2, StepsAreLeases
  <2> QED
    BY <2>1, <2>2
<1> QED
  BY <1>1, <1>2, AlwaysReserved, AlwaysSaves, TypeCorrect, NoDoubleOwner, PTL
  DEF Spec, ImplementsLeases, Leases!Spec
=============================================================================
