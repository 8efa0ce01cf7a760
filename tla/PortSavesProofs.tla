--------------------------- MODULE PortSavesProofs ---------------------------
(***************************************************************************)
(* Machine-checked proofs of what every save, and every return of a        *)
(* repair, promises, whatever fails around it: backups that cannot be      *)
(* written, env files that cannot be removed and abandoned ledgers         *)
(* included.  They rest on the lock, on what its holder still knows of the *)
(* files it has read, and on the shape of a move under way.                *)
(***************************************************************************)
EXTENDS PortLedgerProofs

-----------------------------------------------------------------------------
(* The invariant.                                                          *)

\* The steps at which a process holds the ledger as it is; those before the
\* first save of a plan; those after an entry has settled; and those without
\* an env file in memory.
Written == {"bakPending", "writeMovedEnv", "saveMoved", "bakMoved", "bakEntry",
            "writeEnv", "bakOnly", "bakRestored", "import"}
Planned == {"savePending", "saveEntry", "saveOnly"}
Settling == {"saveEntry", "bakEntry", "writeEnv", "bakMoved"}
Blank == {"idle", "fastLoad", "waiting", "locked", "saveOnly", "bakOnly",
          "saveRestored", "bakRestored", "import"}

\* Steps under the lock are steps of its holder.
LockInv == \A p \in Procs : pc[p] \in Critical => lock = p

\* No entry is moving to the block it has.
TargetsApart(reg) ==
  \A w \in Tracked(reg) : reg.worktrees[w].block \notin reg.worktrees[w].pending

\* f replaces the entry e: its generation tells whether the block changed.
Counts(e, f) ==
  /\ f.generation >= e.generation
  /\ f.block # e.block => f.generation > e.generation
  /\ f.block = e.block => f.generation = e.generation

\* Every entry that stays counts its changes; the pinned ones process p drops
\* are those its command gives up.
Renews(new, old) ==
  \A w \in Tracked(old) \cap Tracked(new) : Counts(old.worktrees[w], new.worktrees[w])
Drops(p, new, old) ==
  \A w \in Tracked(old) \ Tracked(new) :
    old.worktrees[w].pinned => At(p, "saveOnly") /\ GivesUp(p, w)

\* Entry e owns the block of env file o; it is moving to it; env file f agrees.
Owns(e, o) == e # None /\ e.pending = {} /\ e.block = o.block /\ e.generation = o.generation
MovesTo(e, o) == e # None /\ e.block # o.block /\ o.generation = e.generation + 1
Agrees(f, o) == f # None => f.block = o.block /\ f.generation = o.generation

\* Every env file of w's project is accounted for in reg; none of a tracked
\* worktree is newer than reg, or as new.
Accounted(reg, w) ==
  \A v \in SameProject(w) \ unlisted :
    env[v] # None => \/ v \in Tracked(reg)
                     \/ ~Apart({env[v].block}, AllBlocks(reg))
Reached(reg, w) == \A s \in TrackedEnvSequences(reg, w) : s <= reg.sequence
Passed(reg, w) == \A s \in TrackedEnvSequences(reg, w) : s < reg.sequence

\* What the holder of the lock knows.
KnowsInv(p) ==
  LET w == job[p].wt
  IN /\ TargetsApart(mem[p])
     /\ pc[p] \in Written => mem[p] = registry
     /\ pc[p] = "saveRestored" => corrupt
     /\ pc[p] \in Planned => Renews(mem[p], registry) /\ Drops(p, mem[p], registry)
     /\ pc[p] \in MoveSteps => MovesTo(mem[p].worktrees[w], out[p])
     /\ pc[p] \in Settling => Owns(mem[p].worktrees[w], out[p])
     /\ pc[p] \in {"saveMoved", "bakMoved"} => Agrees(env[w], out[p])
     /\ pc[p] = "saveOnly" /\ Repairing(p) => Accounted(mem[p], w) /\ Reached(mem[p], w)
     /\ pc[p] = "bakOnly" /\ Repairing(p) => Accounted(mem[p], w) /\ Passed(mem[p], w)

SavesInv ==
  /\ LockInv
  /\ \A w \in absent : env[w] = None
  /\ TargetsApart(registry) /\ (backup # None => TargetsApart(backup))
  /\ \A p \in Procs : pc[p] \in Blank => out[p] = None
  /\ \A p \in Procs : pc[p] \in Holding => KnowsInv(p)

-----------------------------------------------------------------------------
(* What the helpers do to the entries.                                     *)

\* Numbering a save changes no entry.
LEMMA SavedEntries ==
  ASSUME NEW reg \in Registry
  PROVE  /\ Saved(reg).worktrees = reg.worktrees
         /\ Saved(reg).reservations = reg.reservations
         /\ Saved(reg).sequence = reg.sequence + 1
BY DEF Saved, Registry

\* A registry that is saved keeps its targets apart, its blocks, and what it
\* made of its predecessor.
LEMMA SavedSame ==
  ASSUME NEW reg \in Registry
  PROVE  /\ Tracked(Saved(reg)) = Tracked(reg)
         /\ AllBlocks(Saved(reg)) = AllBlocks(reg)
         /\ TargetsApart(reg) => TargetsApart(Saved(reg))
         /\ \A w : Accounted(reg, w) => Accounted(Saved(reg), w)
<1>1. Tracked(Saved(reg)) = Tracked(reg)
  BY SavedEntries DEF Tracked
<1>2. \A w : Held(Saved(reg), w) = Held(reg, w)
  BY SavedEntries DEF Held
<1>3. AllBlocks(Saved(reg)) = AllBlocks(reg)
  BY <1>2, SavedEntries DEF AllBlocks
<1> QED
  BY <1>1, <1>3, SavedEntries DEF TargetsApart, Accounted

\* Dropping entries changes no other one.
LEMMA WithoutEntries ==
  ASSUME NEW reg \in Registry, NEW S
  PROVE  /\ \A v \in Worktrees : Without(reg, S).worktrees[v]
                                   = IF v \in S THEN None ELSE reg.worktrees[v]
         /\ Tracked(Without(reg, S)) = Tracked(reg) \ S
         /\ TargetsApart(reg) => TargetsApart(Without(reg, S))
<1>1. \A v \in Worktrees : Without(reg, S).worktrees[v]
                             = IF v \in S THEN None ELSE reg.worktrees[v]
  BY DEF Without, Registry
<1>2. Tracked(Without(reg, S)) = Tracked(reg) \ S
  BY <1>1 DEF Tracked
<1> QED
  BY <1>1, <1>2 DEF TargetsApart, Tracked

\* Committing a block settles the entry.
LEMMA CommittedEntries ==
  ASSUME NEW reg \in Registry, NEW w \in Worktrees, NEW o \in EnvFile
  PROVE  /\ \A v \in Worktrees : v # w =>
              Committed(reg, w, o).worktrees[v] = reg.worktrees[v]
         /\ Tracked(Committed(reg, w, o)) = Tracked(reg) \cup {w}
         /\ Owns(Committed(reg, w, o).worktrees[w], o)
         /\ TargetsApart(reg) => TargetsApart(Committed(reg, w, o))
<1> DEFINE e == [block |-> o.block, pending |-> {}, generation |-> o.generation,
                 manifest_hash |-> o.manifest,
                 pinned |-> IF reg.worktrees[w] = None THEN FALSE
                            ELSE reg.worktrees[w].pinned]
           r == Committed(reg, w, o)
<1>1. e \in WorktreeEntry
  BY DEF WorktreeEntry, EnvFile, Registry, Option
<1>2. \A v \in Worktrees : r.worktrees[v] = IF v = w THEN e ELSE reg.worktrees[v]
  BY DEF Committed, Registry
<1>3. Owns(e, o)
  BY <1>1, NoneAssumption DEF Owns
<1> HIDE DEF e, r
<1>4. Tracked(r) = Tracked(reg) \cup {w}
  BY <1>2, <1>3 DEF Tracked, Owns
<1>5. TargetsApart(reg) => TargetsApart(r)
  BY <1>2, <1>3, <1>4 DEF TargetsApart, Owns, Tracked
<1> QED
  BY <1>2, <1>3, <1>4, <1>5 DEF r

\* Starting a move changes the target only.
LEMMA MovingEntries ==
  ASSUME NEW reg \in Registry, NEW w \in Worktrees, reg.worktrees[w] # None,
         NEW b \in Block
  PROVE  LET r == Moving(reg, w, b)
             e == reg.worktrees[w]
             f == r.worktrees[w]
         IN /\ \A v \in Worktrees : v # w => r.worktrees[v] = reg.worktrees[v]
            /\ Tracked(r) = Tracked(reg)
            /\ f.block = e.block /\ f.generation = e.generation /\ f # None
            /\ f.pending = {b}
            /\ TargetsApart(reg) /\ b # e.block => TargetsApart(r)
<1> DEFINE e == reg.worktrees[w]
           f == [e EXCEPT !.pending = {b}]
           r == Moving(reg, w, b)
<1>1. e \in WorktreeEntry
  BY DEF Registry
<1>2. /\ f \in WorktreeEntry /\ f.pending = {b}
      /\ f.block = e.block /\ f.generation = e.generation
  BY <1>1 DEF WorktreeEntry, Option
<1>3. f # None
  BY <1>2, NoneAssumption
<1>4. \A v \in Worktrees : r.worktrees[v] = IF v = w THEN f ELSE reg.worktrees[v]
  BY DEF Moving, Registry
<1> HIDE DEF f, r
<1>5. Tracked(r) = Tracked(reg)
  BY <1>3, <1>4 DEF Tracked
<1>6. TargetsApart(reg) /\ b # e.block => TargetsApart(r)
  BY <1>2, <1>4, <1>5 DEF TargetsApart, Tracked
<1> QED
  BY <1>2, <1>3, <1>4, <1>5, <1>6 DEF r

\* Resolving an interrupted move settles the entry, and counts the move if the
\* env file completed it: its target was not the block it had.
LEMMA ResolveEntries ==
  ASSUME NEW reg \in Registry, NEW w \in Worktrees, TargetsApart(reg)
  PROVE  LET r == ResolvePendingMove(reg, w)
             e == reg.worktrees[w]
             f == r.worktrees[w]
         IN /\ \A v \in Worktrees : v # w => r.worktrees[v] = reg.worktrees[v]
            /\ Tracked(r) = Tracked(reg)
            /\ e # None => Counts(e, f) /\ f.pending = {} /\ f.pinned = e.pinned
            /\ TargetsApart(r)
<1> DEFINE r == ResolvePendingMove(reg, w)
           e == reg.worktrees[w]
<1>1. CASE e = None
  <2>1. r = reg
    BY <1>1 DEF ResolvePendingMove
  <2> QED
    BY <1>1, <2>1
<1>2. CASE e # None
  <2> DEFINE handedOut == env[w] # None /\ env[w].block \in e.pending
             settled == [e EXCEPT !.pending = {},
                             !.block = IF handedOut THEN env[w].block ELSE @,
                             !.generation = IF handedOut THEN @ + 1 ELSE @]
  <2>1. e \in WorktreeEntry /\ e.generation \in Nat
    BY <1>2 DEF Registry, WorktreeEntry
  <2>2. PICK f : f = settled
    OBVIOUS
  <2>3. /\ f.pending = {} /\ f.pinned = e.pinned
        /\ f.block = IF handedOut THEN env[w].block ELSE e.block
        /\ f.generation = IF handedOut THEN e.generation + 1 ELSE e.generation
    BY <2>1, <2>2 DEF WorktreeEntry
  <2>4. e.block \notin e.pending
    BY <1>2 DEF TargetsApart, Tracked
  <2>5. Counts(e, f)
    BY <2>1, <2>3, <2>4 DEF Counts
  <2>6. r = [reg EXCEPT !.worktrees[w] = f]
    <3>1. r = [reg EXCEPT !.worktrees[w] = settled]
      BY <1>2 DEF ResolvePendingMove
    <3> HIDE DEF settled
    <3> QED
      BY <2>2, <3>1
  <2>7. f # None
    <3>1. CASE handedOut
      <4>1. f = [e EXCEPT !.pending = {}, !.block = env[w].block,
                          !.generation = e.generation + 1]
        BY <2>2, <3>1
      <4>2. e.generation + 1 \in Nat \ {0} /\ env[w].block \in Block
        BY <2>1, <3>1 DEF WorktreeEntry, Option
      <4>3. f \in WorktreeEntry
        BY <2>1, <4>1, <4>2 DEF WorktreeEntry, Option
      <4> QED
        BY <4>3, NoneAssumption
    <3>2. CASE ~handedOut
      <4>1. f = [e EXCEPT !.pending = {}, !.block = e.block, !.generation = e.generation]
        BY <2>2, <3>2
      <4>2. f \in WorktreeEntry
        BY <2>1, <4>1 DEF WorktreeEntry, Option
      <4> QED
        BY <4>2, NoneAssumption
    <3> QED
      BY <3>1, <3>2
  <2>8. \A v \in Worktrees : r.worktrees[v] = IF v = w THEN f ELSE reg.worktrees[v]
    BY <2>6 DEF Registry
  <2> HIDE DEF r
  <2>9. Tracked(r) = Tracked(reg)
    BY <1>2, <2>7, <2>8 DEF Tracked
  <2>10. TargetsApart(r)
    BY <2>3, <2>8, <2>9 DEF TargetsApart, Tracked
  <2> QED
    BY <2>3, <2>5, <2>8, <2>9, <2>10 DEF r
<1> QED
  BY <1>1, <1>2

\* Pinning changes no block, target or generation.
LEMMA PinnedEntries ==
  ASSUME NEW reg \in Registry, NEW w \in Worktrees, reg.worktrees[w] # None,
         NEW flag \in BOOLEAN
  PROVE  LET r == [reg EXCEPT !.worktrees[w].pinned = flag]
         IN /\ Tracked(r) = Tracked(reg)
            /\ TargetsApart(reg) => TargetsApart(r)
            /\ Renews(r, reg)
<1> DEFINE e == reg.worktrees[w]
           f == [e EXCEPT !.pinned = flag]
           r == [reg EXCEPT !.worktrees[w].pinned = flag]
<1>1. e \in WorktreeEntry
  BY DEF Registry
<1>2. /\ f \in WorktreeEntry /\ f.pending = e.pending
      /\ f.block = e.block /\ f.generation = e.generation /\ e.generation \in Nat
  BY <1>1 DEF WorktreeEntry
<1>3. f # None
  BY <1>2, NoneAssumption
<1>4. \A v \in Worktrees : r.worktrees[v] = IF v = w THEN f ELSE reg.worktrees[v]
  BY DEF Registry
<1>5. \A v \in Tracked(reg) : reg.worktrees[v].generation \in Nat
  BY DEF Tracked, Registry, WorktreeEntry
<1> HIDE DEF f, r
<1>6. Tracked(r) = Tracked(reg)
  BY <1>3, <1>4 DEF Tracked
<1>7. TargetsApart(reg) => TargetsApart(r)
  BY <1>2, <1>4, <1>6 DEF TargetsApart, Tracked
<1>8. Renews(r, reg)
  BY <1>2, <1>4, <1>5, <1>6 DEF Renews, Counts, Tracked
<1> QED
  BY <1>6, <1>7, <1>8 DEF r

\* A registry that has the same entries, as far as it has them, renews another.
LEMMA SameRenews ==
  ASSUME NEW old \in Registry, NEW reg,
         \A v \in Tracked(reg) \cap Tracked(old) : reg.worktrees[v] = old.worktrees[v]
  PROVE  Renews(reg, old)
<1>1. \A v \in Tracked(old) : old.worktrees[v].generation \in Nat
  BY DEF Tracked, Registry, WorktreeEntry
<1> QED
  BY <1>1 DEF Renews, Counts

\* An import adds settled entries and changes none.
LEMMA ImportsEntries ==
  ASSUME NEW reg \in Registry, NEW I \in SUBSET Worktrees, I \cap Tracked(reg) = {},
         env \in [Worktrees -> EnvFile \cup {None}], \A v \in I : env[v] # None
  PROVE  LET r == WithImports(reg, I)
         IN /\ \A v \in Worktrees \ I : r.worktrees[v] = reg.worktrees[v]
            /\ \A v \in I : Held(r, v) = {env[v].block}
            /\ Tracked(r) = Tracked(reg) \cup I
            /\ r.reservations = reg.reservations
            /\ TargetsApart(reg) => TargetsApart(r)
<1> DEFINE r == WithImports(reg, I)
           e(v) == [block |-> env[v].block, pending |-> {}, generation |-> 1,
                    manifest_hash |-> None, pinned |-> FALSE]
<1>1. ASSUME NEW v \in I
      PROVE  e(v) # None
  <2>1. env[v] \in EnvFile
    OBVIOUS
  <2>2. e(v) \in WorktreeEntry
    BY <2>1 DEF WorktreeEntry, EnvFile, Option
  <2> QED
    BY <2>2, NoneAssumption
<1>2. /\ \A v \in Worktrees : r.worktrees[v] = IF v \in I THEN e(v) ELSE reg.worktrees[v]
      /\ r.reservations = reg.reservations
  BY DEF WithImports, Registry
<1>3. \A v : e(v).pending = {} /\ e(v).block = env[v].block
  OBVIOUS
<1> HIDE DEF e, r
<1>4. Tracked(r) = Tracked(reg) \cup I
  BY <1>1, <1>2 DEF Tracked
<1>5. \A v \in I : Held(r, v) = {env[v].block}
  BY <1>1, <1>2, <1>3 DEF Held
<1>6. TargetsApart(reg) => TargetsApart(r)
  BY <1>2, <1>3, <1>4 DEF TargetsApart, Tracked
<1> QED
  BY <1>2, <1>4, <1>5, <1>6 DEF r

-----------------------------------------------------------------------------
(* The invariant, one kind of step at a time.                              *)

\* A process that holds a registry runs a command in some worktree, and nobody
\* else is in the critical section.
LEMMA Holder ==
  ASSUME TypeOK, LockInv, NEW p \in Procs, pc[p] \in Critical
  PROVE  /\ job[p].wt \in Worktrees
         /\ \A q \in Procs : q # p => pc[q] \notin Critical
<1>1. pc[p] # "idle"
  BY DEF Critical
<1> QED
  BY <1>1 DEF TypeOK, LockInv, Job

\* Env files that are removed, and worktrees that lose their record, leave what
\* the holder of the lock knows as it is.
LEMMA KnowsShrinks ==
  ASSUME NEW p \in Procs, KnowsInv(p), job[p].wt \in Worktrees,
         UNCHANGED registry, corrupt => corrupt',
         \A w \in Worktrees : env'[w] \in {env[w], None},
         \A w \in Worktrees \ unlisted' : env'[w] # None => w \notin unlisted,
         pc'[p] = pc[p], mem'[p] = mem[p], out'[p] = out[p], job'[p] = job[p]
  PROVE  KnowsInv(p)'
<1> DEFINE w == job[p].wt
<1>1. Accounted(mem[p], w) => Accounted(mem[p], w)'
  BY DEF Accounted, SameProject
<1>2. \A s \in TrackedEnvSequences(mem[p], w)' : s \in TrackedEnvSequences(mem[p], w)
  BY DEF TrackedEnvSequences, SameProject
<1>3. /\ Reached(mem[p], w) => Reached(mem[p], w)'
      /\ Passed(mem[p], w) => Passed(mem[p], w)'
  BY <1>2 DEF Reached, Passed
<1>4. Drops(p, mem[p], registry) => Drops(p, mem[p], registry)'
  BY DEF Drops, At, GivesUp
<1>5. Agrees(env[w], out[p]) => Agrees(env[w], out[p])'
  BY DEF Agrees
<1> QED
  BY <1>1, <1>3, <1>4, <1>5 DEF KnowsInv, Repairing

\* Steps that change no ledger, and no process that holds a registry.
LEMMA QuietSaves ==
  ASSUME TypeOK, SavesInv, UNCHANGED <<registry, backup>>, corrupt => corrupt', LockInv',
         \A w \in Worktrees : env'[w] \in {env[w], None},
         \A w \in absent' : env'[w] = None,
         \A w \in Worktrees \ unlisted' : env'[w] # None => w \notin unlisted,
         \A q \in Procs : pc'[q] \in Holding =>
           pc'[q] = pc[q] /\ mem'[q] = mem[q] /\ out'[q] = out[q] /\ job'[q] = job[q],
         \A q \in Procs : pc'[q] \in Blank => out'[q] = None
  PROVE  SavesInv'
<1>1. ASSUME NEW q \in Procs, pc'[q] \in Holding
      PROVE  KnowsInv(q)'
  <2>1. KnowsInv(q) /\ job[q].wt \in Worktrees
    BY <1>1, Holder DEF SavesInv, Holding
  <2> QED
    BY <1>1, <2>1, KnowsShrinks
<1> QED
  BY <1>1 DEF SavesInv

\* What happens around the commands: only a worktree without a directory, and
\* so without an env file, is listed anew.
LEMMA EnvironmentSaves ==
  ASSUME TypeOK, SavesInv, Environment
  PROVE  SavesInv'
<1>1. UNCHANGED <<registry, backup, procs>> /\ (corrupt => corrupt')
  BY DEF Environment, EditManifest, RemoveDirectory, RemoveRecord, AddWorktree, LoseEnv,
         DeleteRepository, CorruptRegistry, files, world
<1>2. /\ \A w \in Worktrees : env'[w] \in {env[w], None}
      /\ \A w \in absent' : env'[w] = None
      /\ \A w \in Worktrees \ unlisted' : env'[w] # None => w \notin unlisted
  BY DEF Environment, EditManifest, RemoveDirectory, RemoveRecord, AddWorktree, LoseEnv,
         DeleteRepository, CorruptRegistry, files, world, TypeOK, SavesInv
<1>3. LockInv'
  BY <1>1 DEF procs, SavesInv, LockInv
<1>4. UNCHANGED <<pc, mem, out, job>>
  BY <1>1 DEF procs
<1>5. \A q \in Procs : pc'[q] \in Blank => out'[q] = None
  BY <1>4 DEF SavesInv
<1> QED
  BY <1>1, <1>2, <1>3, <1>4, <1>5, QuietSaves

\* Starting, locking and ending a command, and the lock-free path.
LEMMA ControlSaves ==
  ASSUME TypeOK, SavesInv, NEW p \in Procs,
         \/ Acquire(p) \/ LockTimeout(p) \/ Refuse(p) \/ Exit(p) \/ Crash(p)
         \/ FastLoad(p) \/ FastCompare(p) \/ FastRevalidate(p)
         \/ \E c \in Commands, w \in Worktrees : Start(p, c, w)
  PROVE  SavesInv'
<1>1. \A q \in Procs : q # p => pc'[q] = pc[q] /\ mem'[q] = mem[q] /\ out'[q] = out[q]
                                /\ job'[q] = job[q]
  BY DEF TypeOK, Acquire, LockTimeout, Refuse, Exit, Crash, Terminated, FastLoad,
         FastCompare, FastRevalidate, FallThrough, Start, Goto
<1>2. /\ UNCHANGED <<registry, backup, corrupt, env, absent, unlisted>>
  BY DEF Acquire, LockTimeout, Refuse, Exit, Crash, Terminated, FastLoad, FastCompare,
         FastRevalidate, Start, files, world
<1>3. pc'[p] \notin Holding
  BY DEF TypeOK, Acquire, LockTimeout, Refuse, Exit, Crash, Terminated, FastLoad,
         FastCompare, FastRevalidate, FallThrough, Start, Goto, Holding, Critical
<1>4. pc'[p] \in Blank => out'[p] = None
  <2>1. CASE Acquire(p) \/ \E c \in Commands, w \in Worktrees : Start(p, c, w)
    BY <2>1 DEF Acquire, Start, At, SavesInv, Blank
  <2>2. CASE LockTimeout(p) \/ Refuse(p) \/ Exit(p) \/ Crash(p)
    BY <2>2 DEF LockTimeout, Refuse, Exit, Crash, Terminated, TypeOK
  <2>3. CASE FastLoad(p)
    BY <2>3 DEF FastLoad, At, Goto, TypeOK, SavesInv, Blank
  <2>4. CASE FastCompare(p) \/ FastRevalidate(p)
    BY <2>4 DEF FastCompare, FastRevalidate, FallThrough, At, Goto, TypeOK, Blank
  <2> QED
    BY <2>1, <2>2, <2>3, <2>4
<1>5. LockInv'
  <2>1. CASE Acquire(p)
    <3>1. \A q \in Procs : pc[q] \notin Critical
      BY <2>1, LedgerAssumption DEF Acquire, SavesInv, LockInv
    <3> QED
      BY <1>1, <2>1, <3>1 DEF Acquire, LockInv
  <2>2. CASE LockTimeout(p) \/ Refuse(p) \/ Exit(p) \/ Crash(p)
    <3>1. Terminated(p)
      BY <2>2 DEF LockTimeout, Refuse, Exit, Crash
    <3>2. pc'[p] = "idle" /\ lock' = IF lock = p THEN None ELSE lock
      BY <3>1 DEF Terminated, Goto, TypeOK
    <3> QED
      BY <1>1, <3>2 DEF SavesInv, LockInv, Critical
  <2>3. CASE \/ FastLoad(p) \/ FastCompare(p) \/ FastRevalidate(p)
             \/ \E c \in Commands, w \in Worktrees : Start(p, c, w)
    <3>1. pc'[p] \notin Critical /\ lock' = lock
      BY <2>3 DEF TypeOK, FastLoad, FastCompare, FastRevalidate, FallThrough, Start, Goto,
                  Critical
    <3> QED
      BY <1>1, <3>1 DEF SavesInv, LockInv
  <2> QED
    BY <2>1, <2>2, <2>3
<1>6. \A q \in Procs : pc'[q] \in Blank => out'[q] = None
  BY <1>1, <1>4 DEF SavesInv
<1>7. \A q \in Procs : pc'[q] \in Holding =>
        pc'[q] = pc[q] /\ mem'[q] = mem[q] /\ out'[q] = out[q] /\ job'[q] = job[q]
  BY <1>1, <1>3
<1>8. \A w \in absent' : env'[w] = None
  BY <1>2 DEF SavesInv
<1> QED
  BY <1>2, <1>5, <1>6, <1>7, <1>8, QuietSaves

\* Planning a save under the lock, or the import.
LEMMA PlanSaves ==
  ASSUME TypeOK, SavesInv, NEW p \in Procs, pc[p] \in Critical,
         NEW step \in Planned \cup {"saveRestored", "import"}, NEW reg, NEW o,
         Plan(p, step, reg, o), TargetsApart(reg),
         step \in Planned => Renews(reg, registry),
         step \in Planned =>
           \A v \in Tracked(registry) \ Tracked(reg) : ~registry.worktrees[v].pinned,
         step = "import" => reg = registry,
         step = "saveRestored" => corrupt,
         step \in Blank => o = None,
         step = "savePending" => MovesTo(reg.worktrees[job[p].wt], o),
         step = "saveEntry" => Owns(reg.worktrees[job[p].wt], o),
         step = "saveOnly" /\ Repairing(p) =>
           Accounted(reg, job[p].wt) /\ Reached(reg, job[p].wt)
  PROVE  SavesInv'
<1> DEFINE w == job[p].wt
<1>1. UNCHANGED <<registry, corrupt, backup, env, absent, unlisted, lock, job>>
  BY DEF Plan, files, world
<1>2. \A q \in Procs : pc'[q] = IF q = p THEN step ELSE pc[q]
  BY DEF Plan, Goto, TypeOK
<1>3. /\ mem'[p] = reg /\ out'[p] = o
      /\ \A q \in Procs : q # p => out'[q] = out[q]
  BY DEF Plan, TypeOK
<1>4. /\ step \in Critical /\ (step \in Written => step = "import")
      /\ (step \in MoveSteps => step = "savePending")
      /\ (step \in Settling => step = "saveEntry")
      /\ step \notin {"saveMoved", "bakMoved", "bakOnly"}
  BY DEF Planned, Critical, Written, MoveSteps, Settling
<1>5. LockInv'
  BY <1>1, <1>2, <1>4 DEF SavesInv, LockInv
<1>6. KnowsInv(p)'
  <2>1. step \in Planned => Drops(p, mem[p], registry)'
    BY <1>1, <1>3 DEF Drops
  <2>2. step = "saveOnly" /\ Repairing(p)' =>
          Accounted(mem[p], w)' /\ Reached(mem[p], w)'
    BY <1>1, <1>3 DEF Repairing, Accounted, Reached, TrackedEnvSequences
  <2> QED
    BY <1>1, <1>2, <1>3, <1>4, <2>1, <2>2 DEF KnowsInv
<1>7. \A q \in Procs : q # p => pc'[q] \notin Holding
  BY <1>2, Holder DEF SavesInv, Holding
<1>8. \A q \in Procs : pc'[q] \in Blank => out'[q] = None
  BY <1>2, <1>3 DEF SavesInv
<1> QED
  BY <1>1, <1>5, <1>6, <1>7, <1>8 DEF SavesInv

\* Giving a worktree a block, in a registry whose entry for it is settled.
LEMMA SettleSaves ==
  ASSUME TypeOK, SavesInv, NEW p \in Procs, pc[p] \in Critical,
         NEW reg \in Registry, NEW b \in Block, TargetsApart(reg), Renews(reg, registry),
         \A v \in Tracked(registry) \ Tracked(reg) :
           ~registry.worktrees[v].pinned /\ v # job[p].wt,
         Settle(p, reg, job[p].wt, b)
  PROVE  SavesInv'
<1> DEFINE w == job[p].wt
           e == reg.worktrees[w]
           g == IF e = None THEN 1 ELSE IF e.block # b THEN e.generation + 1
                ELSE e.generation
           o == Rendered(reg, w, b, g)
<1>1. w \in Worktrees
  BY Holder DEF SavesInv
<1>2. e # None => e.generation \in Nat \ {0}
  BY <1>1 DEF Registry, WorktreeEntry
<1>3. g \in Nat \ {0}
  BY <1>2
<1>4. o \in EnvFile /\ o.block = b /\ o.generation = g
  BY <1>1, <1>3 DEF Rendered, EnvFile, Registry, TypeOK
<1>5. (e = None => g = 1) /\ (e # None /\ e.block # b => g = e.generation + 1)
      /\ (e # None /\ e.block = b => g = e.generation)
  OBVIOUS
<1>6. /\ (e # None /\ e.block # b) => Plan(p, "savePending", Moving(reg, w, b), o)
      /\ ~(e # None /\ e.block # b) => Plan(p, "saveEntry", Committed(reg, w, o), o)
  BY DEF Settle
<1> HIDE DEF g, o
<1>7. CASE e # None /\ e.block # b
  <2> DEFINE r == Moving(reg, w, b)
             f == r.worktrees[w]
  <2>1. /\ \A v \in Worktrees : v # w => r.worktrees[v] = reg.worktrees[v]
        /\ Tracked(r) = Tracked(reg) /\ TargetsApart(r)
        /\ f.block = e.block /\ f.generation = e.generation /\ f # None
    BY <1>1, <1>7, MovingEntries
  <2> HIDE DEF r
  <2>2. Renews(r, registry)
    BY <2>1 DEF Renews, Counts, Tracked
  <2>3. MovesTo(f, o)
    BY <1>4, <1>5, <1>7, <2>1 DEF MovesTo
  <2>4. Plan(p, "savePending", r, o)
    BY <1>6, <1>7 DEF r
  <2> QED
    BY <2>1, <2>2, <2>3, <2>4, PlanSaves DEF Planned, Blank
<1>8. CASE ~(e # None /\ e.block # b)
  <2> DEFINE r == Committed(reg, w, o)
  <2>1. /\ \A v \in Worktrees : v # w => r.worktrees[v] = reg.worktrees[v]
        /\ Tracked(r) = Tracked(reg) \cup {w} /\ TargetsApart(r)
        /\ Owns(r.worktrees[w], o)
    BY <1>1, <1>4, CommittedEntries
  <2> HIDE DEF r
  <2>2. w \in Tracked(registry) => w \in Tracked(reg)
    OBVIOUS
  <2>3. w \in Tracked(registry) =>
          Counts(registry.worktrees[w], r.worktrees[w])
    <3>1. SUFFICES ASSUME w \in Tracked(registry)
                   PROVE  Counts(registry.worktrees[w], r.worktrees[w])
      OBVIOUS
    <3>2. e # None /\ Counts(registry.worktrees[w], e)
      BY <2>2, <3>1 DEF Renews, Tracked
    <3>3. r.worktrees[w].block = e.block /\ r.worktrees[w].generation = e.generation
      BY <1>4, <1>5, <1>8, <2>1, <3>2 DEF Owns
    <3> QED
      BY <3>2, <3>3 DEF Counts
  <2>4. Renews(r, registry)
    BY <2>1, <2>3 DEF Renews, Tracked
  <2>5. Plan(p, "saveEntry", r, o)
    BY <1>6, <1>8 DEF r
  <2> QED
    BY <2>1, <2>4, <2>5, PlanSaves DEF Planned, Blank
<1> QED
  BY <1>7, <1>8

\* The commands that plan under the lock.
LEMMA PlanningSaves ==
  ASSUME TypeOK, SavesInv, NEW p \in Procs,
         \/ Sync(p) \/ Reallocate(p) \/ Pin(p) \/ Unpin(p) \/ Prune(p) \/ PruneAll(p)
         \/ Reserve(p) \/ Unreserve(p) \/ Doctor(p)
  PROVE  SavesInv'
<1> DEFINE w == job[p].wt
           resolved == ResolvePendingMove(registry, w)
<1>1. pc[p] \in Critical
  BY DEF Sync, Reallocate, Pin, Unpin, SetPinned, Prune, PruneAll, Reserve, Unreserve,
         Doctor, Running, At, Critical
<1>2. w \in Worktrees /\ registry \in Registry /\ TargetsApart(registry)
  BY <1>1, Holder DEF SavesInv, TypeOK
<1>3. resolved \in Registry
  BY <1>2, ResolveType DEF TypeOK
<1>4. /\ \A v \in Worktrees : v # w => resolved.worktrees[v] = registry.worktrees[v]
      /\ Tracked(resolved) = Tracked(registry) /\ TargetsApart(resolved)
      /\ registry.worktrees[w] # None =>
           /\ Counts(registry.worktrees[w], resolved.worktrees[w])
           /\ resolved.worktrees[w].pinned = registry.worktrees[w].pinned
  BY <1>2, ResolveEntries
<1> HIDE DEF resolved
<1>5. Renews(resolved, registry)
  <2>1. \A v \in Tracked(registry) : registry.worktrees[v].generation \in Nat
    BY <1>2 DEF Tracked, Registry, WorktreeEntry
  <2> QED
    BY <1>4, <2>1 DEF Renews, Counts, Tracked
<1>6. "saveOnly" \in Planned /\ "saveOnly" \in Blank /\ "import" \notin Planned
      /\ "saveRestored" \notin Planned /\ "import" \in Blank /\ "saveRestored" \in Blank
  BY DEF Planned, Blank
<1>7. CASE Sync(p)
  <2>1. PICK c \in Configs, S \in SUBSET Collectable(resolved, ProjectOf[w]) :
          /\ InRepository(w) \/ SameProject(w) \cap Tracked(registry) = {}
          /\ \E b \in SyncBlocks(Without(resolved, S), w, manifest[w], c) :
               Settle(p, Without(resolved, S), w, b)
    BY <1>7 DEF Sync, resolved
  <2> DEFINE reg == Without(resolved, S)
  <2>2. /\ reg \in Registry /\ TargetsApart(reg)
        /\ \A v \in Worktrees : reg.worktrees[v]
                                  = IF v \in S THEN None ELSE resolved.worktrees[v]
        /\ Tracked(reg) = Tracked(resolved) \ S
    BY <1>3, <1>4, WithoutType, WithoutEntries
  <2>3. PICK b \in SyncBlocks(reg, w, manifest[w], c) : Settle(p, reg, w, b)
    BY <2>1
  <2>4. manifest[w] \in Manifests
    BY <1>2 DEF TypeOK
  <2>5. b \in Block
    BY <1>2, <2>2, <2>3, <2>4, SyncBlocksAreBlocks
  <2> HIDE DEF reg
  <2>6. Renews(reg, registry)
    <3>1. \A v \in Tracked(reg) : /\ reg.worktrees[v] = resolved.worktrees[v]
                                 /\ v \in Tracked(resolved)
      BY <2>2 DEF Tracked
    <3> QED
      BY <1>5, <3>1 DEF Renews
  <2>7. w \notin S
    BY <1>2, <1>4, <2>1 DEF Collectable, InRepository, SameProject
  <2>8. \A v \in Tracked(registry) \ Tracked(reg) :
          ~registry.worktrees[v].pinned /\ v # w
    <3>1. \A v \in S : ~resolved.worktrees[v].pinned /\ v \in Worktrees
      BY DEF Collectable, Tracked
    <3> QED
      BY <1>4, <2>2, <2>7, <3>1
  <2> QED
    BY <1>1, <2>2, <2>3, <2>5, <2>6, <2>8, SettleSaves
<1>8. CASE Reallocate(p)
  <2>1. PICK c \in Configs :
          \E b \in FreeSlots(c, Size[manifest[w]], AllBlocks(resolved)) :
            Settle(p, resolved, w, b)
    BY <1>8 DEF Reallocate, resolved
  <2>2. PICK b \in FreeSlots(c, Size[manifest[w]], AllBlocks(resolved)) :
          Settle(p, resolved, w, b)
    BY <2>1
  <2>3. c \in Config /\ Size[manifest[w]] \in 1..MaxPort
    BY <1>2, LedgerAssumption DEF TypeOK
  <2>4. b \in Block
    BY <2>2, <2>3, SlotsAreBlocks DEF FreeSlots
  <2> QED
    BY <1>1, <1>3, <1>4, <1>5, <2>2, <2>4, SettleSaves
<1>9. ASSUME NEW c \in {"pin", "unpin"}, NEW flag \in BOOLEAN, SetPinned(p, c, flag)
      PROVE  SavesInv'
  <2> DEFINE reg == [registry EXCEPT !.worktrees[w].pinned = flag]
  <2>1. /\ registry.worktrees[w] # None /\ Plan(p, "saveOnly", reg, None)
        /\ ~Repairing(p)
    BY <1>9 DEF SetPinned, Running, Repairing
  <2>2. Tracked(reg) = Tracked(registry) /\ TargetsApart(reg) /\ Renews(reg, registry)
    BY <1>2, <2>1, PinnedEntries
  <2> QED
    BY <1>1, <1>6, <2>1, <2>2, PlanSaves
<1>10. ASSUME NEW S, Plan(p, "saveOnly", Without(registry, S), None), ~Repairing(p),
              \A v \in S \cap Tracked(registry) : ~registry.worktrees[v].pinned
       PROVE  SavesInv'
  <2> DEFINE reg == Without(registry, S)
  <2>1. /\ \A v \in Worktrees : reg.worktrees[v]
                                  = IF v \in S THEN None ELSE registry.worktrees[v]
        /\ Tracked(reg) = Tracked(registry) \ S /\ TargetsApart(reg)
    BY <1>2, WithoutEntries
  <2>2. Renews(reg, registry)
    BY <1>2, <2>1, SameRenews DEF Tracked
  <2> QED
    BY <1>1, <1>6, <1>10, <2>1, <2>2, PlanSaves
<1>11. CASE Prune(p)
  <2>1. PICK S \in SUBSET Collectable(registry, ProjectOf[w]) :
          Plan(p, "saveOnly", Without(registry, S), None)
    BY <1>11 DEF Prune
  <2>2. ~Repairing(p)
    BY <1>11 DEF Prune, Running, Repairing
  <2> QED
    BY <1>10, <2>1, <2>2 DEF Collectable
<1>12. CASE PruneAll(p)
  <2> DEFINE orphans == {v \in Tracked(registry) :
                           ProjectOf[v] \in deleted /\ ~registry.worktrees[v].pinned}
             stale == UNION {Collectable(registry, j) : j \in Projects \ deleted}
  <2>1. PICK S \in SUBSET (orphans \cup stale) :
          Plan(p, "saveOnly", Without(registry, S), None)
    BY <1>12 DEF PruneAll
  <2>2. ~Repairing(p)
    BY <1>12 DEF PruneAll, Running, Repairing
  <2>3. \A v \in S : ~registry.worktrees[v].pinned
    BY DEF Collectable
  <2> QED
    BY <1>10, <2>1, <2>2, <2>3
<1>13. ASSUME NEW R, Plan(p, "saveOnly", [registry EXCEPT !.reservations = R], None),
              ~Repairing(p)
       PROVE  SavesInv'
  <2> DEFINE reg == [registry EXCEPT !.reservations = R]
  <2>1. reg.worktrees = registry.worktrees
    BY <1>2 DEF Registry
  <2>2. Tracked(reg) = Tracked(registry)
    BY <2>1 DEF Tracked
  <2>3. Renews(reg, registry)
    BY <1>2, <2>1, SameRenews
  <2>4. TargetsApart(reg)
    BY <1>2, <2>1, <2>2 DEF TargetsApart
  <2> HIDE DEF reg
  <2>5. Plan(p, "saveOnly", reg, None)
    BY <1>13 DEF reg
  <2> QED
    BY <1>1, <1>6, <1>13, <2>2, <2>3, <2>4, <2>5, PlanSaves
<1>14. CASE Reserve(p)
  <2>1. PICK b \in Reservable :
          Plan(p, "saveOnly", [registry EXCEPT !.reservations = @ \cup {b}], None)
    BY <1>14 DEF Reserve
  <2>2. Plan(p, "saveOnly",
             [registry EXCEPT !.reservations = registry.reservations \cup {b}], None)
    BY <1>2, <2>1 DEF Registry
  <2>3. ~Repairing(p)
    BY <1>14 DEF Reserve, Running, Repairing
  <2> QED
    BY <1>13, <2>2, <2>3
<1>15. CASE Unreserve(p)
  <2>1. PICK b \in registry.reservations :
          Plan(p, "saveOnly", [registry EXCEPT !.reservations = @ \ {b}], None)
    BY <1>15 DEF Unreserve
  <2>2. Plan(p, "saveOnly",
             [registry EXCEPT !.reservations = registry.reservations \ {b}], None)
    BY <1>2, <2>1 DEF Registry
  <2>3. ~Repairing(p)
    BY <1>15 DEF Unreserve, Running, Repairing
  <2> QED
    BY <1>13, <2>2, <2>3
<1>16. CASE Doctor(p)
  <2>1. CASE corrupt /\ backup # None /\ Plan(p, "saveRestored", backup, None)
    BY <1>1, <1>6, <2>1, PlanSaves DEF SavesInv
  <2>2. CASE ~corrupt /\ Plan(p, "import", registry, None)
    BY <1>1, <1>2, <1>6, <2>2, PlanSaves
  <2> QED
    BY <1>16, <2>1, <2>2 DEF Doctor
<1> QED
  BY <1>7, <1>8, <1>9, <1>11, <1>12, <1>14, <1>15, <1>16 DEF Pin, Unpin

\* The commands that remove env files first.
LEMMA RemovalSaves ==
  ASSUME TypeOK, SavesInv, NEW p \in Procs, Release(p) \/ Deinit(p)
  PROVE  SavesInv'
<1> DEFINE w == job[p].wt
<1>1. /\ pc[p] \in Critical /\ pc[p] \in Blank /\ out[p] = None
      /\ job[p].cmd \in {"release", "deinit"}
  BY DEF Release, Deinit, Running, At, Critical, Blank, SavesInv
<1>2. w \in Worktrees /\ registry \in Registry /\ TargetsApart(registry)
      /\ job[p] \in Job
  <2>1. pc[p] # "idle"
    BY <1>1 DEF Critical
  <2> QED
    BY <1>1, <2>1, Holder DEF SavesInv, TypeOK
<1>3. UNCHANGED <<registry, corrupt, backup, absent, unlisted, deleted, job, out>>
  BY DEF Release, Deinit, world
<1>4. \A v \in Worktrees : env'[v] \in {env[v], None}
  BY DEF Release, Deinit, TypeOK
<1>5. PICK step \in {"saveOnly", "returned"} : Goto(p, step)
  BY DEF Release, Deinit
<1>6. \A q \in Procs : pc'[q] = IF q = p THEN step ELSE pc[q]
  BY <1>5 DEF Goto, TypeOK
<1>7. step = "saveOnly" => /\ lock' = lock
                           /\ \E S \in SUBSET Worktrees :
                                /\ mem'[p] = Without(registry, S)
                                /\ \A v \in S : GivesUp(p, v)
  <2>1. CASE Release(p)
    <3>1. job[p] = [cmd |-> "release", wt |-> w]
      BY <1>2, <2>1 DEF Release, Running, Job
    <3>2. step = "saveOnly" => lock' = lock /\ mem'[p] = Without(registry, {w})
      BY <1>5, <1>6, <2>1 DEF Release, Goto, TypeOK
    <3> QED
      BY <1>2, <3>1, <3>2 DEF GivesUp
  <2>2. CASE Deinit(p)
    <3>1. step = "saveOnly" => lock' = lock /\ mem'[p] = Without(registry, SameProject(w))
      BY <1>5, <1>6, <2>2 DEF Deinit, Goto, TypeOK
    <3>2. \A v \in SameProject(w) : GivesUp(p, v)
      BY <2>2 DEF Deinit, Running, GivesUp, SameProject
    <3> QED
      BY <3>1, <3>2 DEF SameProject
  <2> QED
    BY <2>1, <2>2
<1>8. \A v \in absent' : env'[v] = None
  BY <1>3, <1>4 DEF SavesInv, TypeOK
<1>9. \A q \in Procs : pc'[q] \in Blank => out'[q] = None
  BY <1>1, <1>3, <1>6 DEF SavesInv
<1>10. CASE step = "saveOnly"
  <2>1. PICK S \in SUBSET Worktrees : /\ mem'[p] = Without(registry, S)
                                     /\ \A v \in S : GivesUp(p, v)
    BY <1>7, <1>10
  <2> DEFINE reg == Without(registry, S)
  <2>2. /\ \A v \in Worktrees : reg.worktrees[v]
                                  = IF v \in S THEN None ELSE registry.worktrees[v]
        /\ Tracked(reg) = Tracked(registry) \ S /\ TargetsApart(reg)
    BY <1>2, WithoutEntries
  <2>3. Renews(reg, registry)
    BY <1>2, <2>2, SameRenews DEF Tracked
  <2>4. mem'[p] = reg
    BY <2>1
  <2> HIDE DEF reg
  <2>5. pc'[p] = "saveOnly" /\ registry' = registry
    BY <1>3, <1>6, <1>10
  <2>6. Drops(p, mem[p], registry)'
    <3>1. \A v \in Tracked(registry) \ Tracked(reg) : GivesUp(p, v)'
      BY <1>3, <2>1, <2>2 DEF GivesUp
    <3> QED
      BY <2>4, <2>5, <3>1 DEF Drops, At
  <2>7. ~Repairing(p)'
    BY <1>1, <1>3 DEF Repairing
  <2>8. KnowsInv(p)'
    BY <2>2, <2>3, <2>4, <2>5, <2>6, <2>7
    DEF KnowsInv, Written, Planned, MoveSteps, Settling
  <2>9. LockInv'
    BY <1>1, <1>6, <1>7, <1>10 DEF SavesInv, LockInv
  <2>10. \A q \in Procs : q # p => pc'[q] \notin Holding
    BY <1>1, <1>6, Holder DEF SavesInv, Holding
  <2> QED
    BY <1>3, <1>8, <1>9, <2>8, <2>9, <2>10 DEF SavesInv
<1>11. CASE step = "returned"
  <2>1. \A q \in Procs : pc'[q] \notin Critical
    BY <1>1, <1>6, <1>11, Holder DEF SavesInv, Critical
  <2> QED
    BY <1>3, <1>8, <1>9, <2>1 DEF SavesInv, LockInv, Holding
<1> QED
  BY <1>5, <1>10, <1>11

\* What the import leaves unlisted is kept for somebody else, and what it adds
\* the lift of the sequence takes into account.
LEMMA ImportsAccount ==
  ASSUME NEW reg \in Registry, NEW w, NEW I \in Imports(reg, w),
         env \in [Worktrees -> EnvFile \cup {None}],
         NEW r \in Reconciled(WithImports(reg, I), w)
  PROVE  /\ I \in SUBSET Worktrees /\ I \cap Tracked(reg) = {}
         /\ \A v \in I : env[v] # None
         /\ r.worktrees = WithImports(reg, I).worktrees
         /\ r.reservations = WithImports(reg, I).reservations
         /\ Accounted(r, w) /\ Reached(r, w)
<1> DEFINE imported == WithImports(reg, I)
<1>1. /\ I \in SUBSET Importable(reg, w)
      /\ \A u \in Importable(reg, w) \ I : \E v \in I :
           Overlaps(env[u].block, env[v].block)
  BY DEF Imports
<1>2. /\ I \in SUBSET Worktrees /\ I \cap Tracked(reg) = {}
      /\ \A v \in I : env[v] # None
  BY <1>1 DEF Importable, SameProject
<1>3. imported \in Registry
  BY <1>2, WithImportsType
<1>4. /\ \A v \in Worktrees \ I : imported.worktrees[v] = reg.worktrees[v]
      /\ \A v \in I : Held(imported, v) = {env[v].block}
      /\ Tracked(imported) = Tracked(reg) \cup I
      /\ imported.reservations = reg.reservations
  BY <1>2, ImportsEntries
<1> HIDE DEF imported
<1>5. r \in {imported} \/ \E s \in Behind(imported, w) :
        r = [imported EXCEPT !.sequence = s] /\ \A u \in Behind(imported, w) : u <= s
  BY DEF Reconciled, imported
<1>6. r.worktrees = imported.worktrees /\ r.reservations = imported.reservations
  BY <1>3, <1>5 DEF Registry
<1>7. /\ Tracked(r) = Tracked(imported) /\ \A v : Held(r, v) = Held(imported, v)
      /\ AllBlocks(r) = AllBlocks(imported)
  BY <1>6 DEF Tracked, Held, AllBlocks
<1>8. AllBlocks(reg) \subseteq AllBlocks(r) /\ \A v \in I : env[v].block \in AllBlocks(r)
  <2>1. \A v \in Worktrees \ I : Held(imported, v) = Held(reg, v)
    BY <1>4 DEF Held
  <2>2. \A v \in I : Held(reg, v) = {}
    BY <1>2 DEF Held, Tracked
  <2> QED
    BY <1>2, <1>4, <1>7, <2>1, <2>2 DEF AllBlocks
<1>9. ASSUME NEW v \in SameProject(w) \ unlisted, env[v] # None, v \notin Tracked(r)
      PROVE  ~Apart({env[v].block}, AllBlocks(r))
  <2>1. v \notin I /\ v \notin Tracked(reg)
    BY <1>4, <1>7, <1>9
  <2>2. CASE Apart({env[v].block}, AllBlocks(reg))
    <3>1. v \in Importable(reg, w) \ I
      BY <1>9, <2>1, <2>2 DEF Importable
    <3>2. PICK u \in I : Overlaps(env[v].block, env[u].block)
      BY <1>1, <3>1
    <3> QED
      BY <1>8, <3>2 DEF Apart
  <2>3. CASE ~Apart({env[v].block}, AllBlocks(reg))
    BY <1>8, <2>3 DEF Apart
  <2> QED
    BY <2>2, <2>3
<1>10. Accounted(r, w)
  BY <1>9 DEF Accounted
<1>11. Reached(r, w)
  <2>1. TrackedEnvSequences(r, w) = TrackedEnvSequences(imported, w)
    BY <1>7 DEF TrackedEnvSequences
  <2>2. TrackedEnvSequences(imported, w) \subseteq Nat /\ imported.sequence \in Nat
    BY <1>3 DEF TrackedEnvSequences, SameProject, EnvFile, Registry
  <2>3. CASE Behind(imported, w) = {}
    <3>1. r = imported
      BY <2>3 DEF Reconciled, imported
    <3> QED
      BY <2>2, <2>3, <3>1 DEF Behind, Reached
  <2>4. CASE Behind(imported, w) # {}
    <3>1. PICK s \in Behind(imported, w) :
            r = [imported EXCEPT !.sequence = s] /\ \A u \in Behind(imported, w) : u <= s
      BY <2>4 DEF Reconciled, imported
    <3>2. r.sequence = s /\ s \in Nat /\ s >= imported.sequence
      BY <1>3, <2>2, <3>1 DEF Registry, Behind
    <3>3. ASSUME NEW t \in TrackedEnvSequences(imported, w)
          PROVE  t <= s
      BY <2>2, <3>1, <3>2, <3>3 DEF Behind
    <3> QED
      BY <2>1, <3>2, <3>3 DEF Reached
  <2> QED
    BY <2>3, <2>4
<1> QED
  BY <1>2, <1>6, <1>10, <1>11 DEF imported

\* The import of doctor.
LEMMA ImportSaves ==
  ASSUME TypeOK, SavesInv, NEW p \in Procs, Import(p)
  PROVE  SavesInv'
<1> DEFINE w == job[p].wt
<1>1. /\ pc[p] = "import" /\ pc[p] \in Critical /\ pc[p] \in Holding /\ pc[p] \in Written
      /\ pc[p] \in Blank
  BY DEF Import, At, Critical, Holding, Written, Blank
<1>2. /\ mem[p] \in Registry /\ mem[p] = registry /\ TargetsApart(registry)
      /\ out[p] = None
  BY <1>1 DEF SavesInv, KnowsInv, TypeOK
<1>3. PICK I \in Imports(mem[p], w) :
        IF I = {} /\ Behind(WithImports(mem[p], I), w) = {}
        THEN /\ Goto(p, "returned")
             /\ lock' = None
             /\ mem' = [mem EXCEPT ![p] = None]
             /\ UNCHANGED <<files, world, job, out>>
        ELSE \E reg \in Reconciled(WithImports(mem[p], I), w) :
               Plan(p, "saveOnly", reg, None)
  BY DEF Import
<1> DEFINE imported == WithImports(mem[p], I)
<1>4. CASE I = {} /\ Behind(imported, w) = {}
  <2>1. /\ Goto(p, "returned")
        /\ UNCHANGED <<files, world, job, out>>
    BY <1>3, <1>4
  <2>2. \A q \in Procs : pc'[q] = IF q = p THEN "returned" ELSE pc[q]
    BY <2>1 DEF Goto, TypeOK
  <2>3. \A q \in Procs : pc'[q] \notin Critical
    BY <1>1, <2>2, Holder DEF SavesInv, Critical
  <2>4. \A q \in Procs : pc'[q] \in Blank => out'[q] = None
    BY <2>1, <2>2 DEF SavesInv, Blank
  <2>5. \A v \in absent' : env'[v] = None
    BY <2>1 DEF SavesInv, files, world
  <2> QED
    BY <2>1, <2>3, <2>4, <2>5 DEF SavesInv, LockInv, Holding, files
<1>5. CASE ~(I = {} /\ Behind(imported, w) = {})
  <2>1. PICK reg \in Reconciled(imported, w) : Plan(p, "saveOnly", reg, None)
    BY <1>3, <1>5
  <2>2. /\ I \in SUBSET Worktrees /\ I \cap Tracked(registry) = {}
        /\ \A v \in I : env[v] # None
        /\ reg.worktrees = imported.worktrees
        /\ Accounted(reg, w) /\ Reached(reg, w)
    BY <1>2, <2>1, ImportsAccount DEF TypeOK
  <2>3. /\ \A v \in Worktrees \ I : imported.worktrees[v] = registry.worktrees[v]
        /\ Tracked(imported) = Tracked(registry) \cup I
        /\ TargetsApart(imported)
    BY <1>2, <2>2, ImportsEntries DEF TypeOK
  <2> HIDE DEF imported
  <2>4. Tracked(reg) = Tracked(registry) \cup I /\ TargetsApart(reg)
    BY <2>2, <2>3 DEF Tracked, TargetsApart
  <2>5. Renews(reg, registry)
    <3>1. \A v \in Tracked(reg) \cap Tracked(registry) :
            reg.worktrees[v] = registry.worktrees[v]
      BY <2>2, <2>3 DEF Tracked
    <3> QED
      BY <1>2, <3>1, SameRenews
  <2> QED
    BY <1>1, <2>1, <2>2, <2>4, <2>5, PlanSaves DEF Planned, Blank
<1> QED
  BY <1>4, <1>5

\* Replacing registry.json, with the entry settled where a move ends.
LEMMA SaveSaves ==
  ASSUME TypeOK, SavesInv, NEW p \in Procs, NEW from \in Holding,
         NEW to \in {"bakPending", "bakEntry", "bakOnly", "bakRestored", "bakMoved"},
         NEW reg \in Registry, Save(p, from, reg, to), TargetsApart(reg),
         to \in Blank => out[p] = None,
         to = "bakPending" => MovesTo(reg.worktrees[job[p].wt], out[p]),
         to \in {"bakEntry", "bakMoved"} => Owns(reg.worktrees[job[p].wt], out[p]),
         to = "bakMoved" => Agrees(env[job[p].wt], out[p]),
         to = "bakOnly" /\ Repairing(p) =>
           Accounted(reg, job[p].wt) /\ Reached(reg, job[p].wt)
  PROVE  SavesInv'
<1> DEFINE w == job[p].wt
           s == Saved(reg)
<1>1. /\ UNCHANGED <<backup, env, absent, unlisted, lock, out, job>>
      /\ registry' = s /\ mem'[p] = s
  BY DEF Save, world, TypeOK
<1>2. pc[p] \in Critical /\ \A q \in Procs : pc'[q] = IF q = p THEN to ELSE pc[q]
  BY DEF Save, At, Goto, Holding, TypeOK
<1>3. /\ to \in Critical /\ to \notin Planned
      /\ to \notin {"saveRestored", "saveOnly", "saveMoved"}
      /\ (to \in MoveSteps => to = "bakPending")
      /\ (to \in Settling => to \in {"bakEntry", "bakMoved"})
  BY DEF Critical, Planned, MoveSteps, Settling
<1>4. s.worktrees = reg.worktrees /\ s.sequence = reg.sequence + 1
      /\ Tracked(s) = Tracked(reg) /\ TargetsApart(s)
      /\ \A v : Accounted(reg, v) => Accounted(s, v)
  BY SavedEntries, SavedSame
<1> HIDE DEF s
<1>5. LockInv'
  BY <1>1, <1>2, <1>3 DEF SavesInv, LockInv
<1>6. to = "bakOnly" /\ Repairing(p)' => Accounted(mem[p], w)' /\ Passed(mem[p], w)'
  <2>1. SUFFICES ASSUME to = "bakOnly", Repairing(p)'
                 PROVE  Accounted(mem[p], w)' /\ Passed(mem[p], w)'
    OBVIOUS
  <2>2. Accounted(reg, w) /\ Reached(reg, w)
    BY <1>1, <2>1 DEF Repairing
  <2>3. Accounted(mem[p], w)'
    BY <1>1, <1>4, <2>2 DEF Accounted
  <2>4. TrackedEnvSequences(mem[p], w)' = TrackedEnvSequences(reg, w)
    BY <1>1, <1>4 DEF TrackedEnvSequences
  <2>5. TrackedEnvSequences(reg, w) \subseteq Nat /\ reg.sequence \in Nat
    BY DEF TrackedEnvSequences, SameProject, TypeOK, EnvFile, Registry
  <2>6. Passed(mem[p], w)'
    BY <1>1, <1>4, <2>2, <2>4, <2>5 DEF Passed, Reached
  <2> QED
    BY <2>3, <2>6
<1>7. KnowsInv(p)'
  BY <1>1, <1>2, <1>3, <1>4, <1>6 DEF KnowsInv
<1>8. \A q \in Procs : q # p => pc'[q] \notin Holding
  BY <1>2, Holder DEF SavesInv, Holding
<1>9. \A q \in Procs : pc'[q] \in Blank => out'[q] = None
  BY <1>1, <1>2 DEF SavesInv
<1> QED
  BY <1>1, <1>4, <1>5, <1>7, <1>8, <1>9 DEF SavesInv

\* The replacements of registry.json.
LEMMA SavingSaves ==
  ASSUME TypeOK, SavesInv, NEW p \in Procs,
         \/ SavePending(p) \/ SaveEntry(p) \/ SaveOnly(p) \/ SaveRestored(p)
         \/ SaveMoved(p)
  PROVE  SavesInv'
<1> DEFINE w == job[p].wt
<1>1. /\ pc[p] \in {"savePending", "saveEntry", "saveOnly", "saveRestored", "saveMoved"}
      /\ pc[p] \in Holding /\ pc[p] \in Critical
  BY DEF SavePending, SaveEntry, SaveOnly, SaveRestored, SaveMoved, Save, At, Holding, Critical
<1>2. w \in Worktrees /\ mem[p] \in Registry /\ KnowsInv(p) /\ TargetsApart(mem[p])
  BY <1>1, Holder DEF SavesInv, TypeOK, KnowsInv
<1>3. pc[p] \in Rendering => out[p] \in EnvFile
  BY DEF TypeOK
<1>4. CASE SavePending(p)
  <2>1. pc[p] = "savePending" /\ pc[p] \in MoveSteps
    BY <1>4 DEF SavePending, Save, At, MoveSteps
  <2> QED
    BY <1>1, <1>2, <1>4, <2>1, SaveSaves DEF SavePending, KnowsInv, Blank
<1>5. CASE SaveEntry(p)
  <2>1. pc[p] = "saveEntry" /\ pc[p] \in Settling
    BY <1>5 DEF SaveEntry, Save, At, Settling
  <2> QED
    BY <1>1, <1>2, <1>5, <2>1, SaveSaves DEF SaveEntry, KnowsInv, Blank
<1>6. CASE SaveOnly(p)
  <2>1. pc[p] = "saveOnly" /\ pc[p] \in Blank
    BY <1>6 DEF SaveOnly, Save, At, Blank
  <2>2. out[p] = None
    BY <2>1 DEF SavesInv
  <2> QED
    BY <1>1, <1>2, <1>6, <2>1, <2>2, SaveSaves DEF SaveOnly, KnowsInv
<1>7. CASE SaveRestored(p)
  <2>1. pc[p] = "saveRestored" /\ pc[p] \in Blank
    BY <1>7 DEF SaveRestored, Save, At, Blank
  <2>2. out[p] = None
    BY <2>1 DEF SavesInv
  <2> QED
    BY <1>1, <1>2, <1>7, <2>1, <2>2, SaveSaves DEF SaveRestored
<1>8. CASE SaveMoved(p)
  <2>1. pc[p] = "saveMoved"
    BY <1>8 DEF SaveMoved, Save, At
  <2>2. out[p] \in EnvFile /\ Agrees(env[w], out[p])
    BY <1>2, <1>3, <2>1 DEF Rendering, KnowsInv
  <2> DEFINE reg == Committed(mem[p], w, out[p])
  <2>3. reg \in Registry /\ TargetsApart(reg) /\ Owns(reg.worktrees[w], out[p])
    BY <1>2, <2>2, CommittedType, CommittedEntries
  <2> HIDE DEF reg
  <2>4. Save(p, "saveMoved", reg, "bakMoved")
    BY <1>8 DEF SaveMoved, reg
  <2> QED
    BY <1>1, <2>1, <2>2, <2>3, <2>4, SaveSaves DEF Blank
<1> QED
  BY <1>4, <1>5, <1>6, <1>7, <1>8

\* The replacements of the backup, written or not.
LEMMA BackupSaves ==
  ASSUME TypeOK, SavesInv, NEW p \in Procs, SaveBackup(p) \/ SaveLastBackup(p)
  PROVE  SavesInv'
<1>1. /\ pc[p] \in {"bakPending", "bakEntry", "bakRestored", "bakMoved", "bakOnly"}
      /\ pc[p] \in Critical /\ pc[p] \in Holding /\ pc[p] \in Written
  BY DEF SaveBackup, SaveLastBackup, AfterBackup, Critical, Holding, Written
<1>2. mem[p] = registry /\ KnowsInv(p) /\ TargetsApart(registry) /\ job[p].wt \in Worktrees
  BY <1>1, Holder DEF SavesInv, KnowsInv
<1>3. /\ UNCHANGED <<registry, corrupt, env, absent, unlisted, job, out>>
      /\ backup' = registry \/ UNCHANGED backup
  BY <1>2 DEF SaveBackup, SaveLastBackup, BackupWritten, Finish, world
<1>4. backup' # None => TargetsApart(backup')
  BY <1>2, <1>3 DEF SavesInv
<1>5. CASE SaveBackup(p)
  <2>1. PICK step \in {"writeMovedEnv", "writeEnv", "import"} :
          /\ pc[p] \in {"bakPending", "bakEntry", "bakRestored"}
          /\ step = AfterBackup[pc[p]]
          /\ \A q \in Procs : pc'[q] = IF q = p THEN step ELSE pc[q]
    BY <1>5 DEF SaveBackup, AfterBackup, Goto, TypeOK
  <2>2. UNCHANGED <<lock, mem>>
    BY <1>5 DEF SaveBackup
  <2>3. /\ step \in MoveSteps => pc[p] \in MoveSteps
        /\ step \in Settling => pc[p] \in Settling
        /\ step \in Blank => pc[p] \in Blank
    BY <2>1 DEF AfterBackup, MoveSteps, Settling, Blank
  <2>4. step \in Critical /\ step \notin Planned
        /\ step \notin {"saveRestored", "saveOnly", "bakOnly", "saveMoved", "bakMoved"}
    BY DEF Critical, Planned
  <2>5. KnowsInv(p)'
    BY <1>2, <1>3, <2>1, <2>2, <2>3, <2>4 DEF KnowsInv
  <2>6. LockInv'
    BY <1>1, <2>1, <2>2, <2>4 DEF SavesInv, LockInv
  <2>7. \A q \in Procs : q # p => pc'[q] \notin Holding
    BY <1>1, <2>1, Holder DEF SavesInv, Holding
  <2>8. \A q \in Procs : pc'[q] \in Blank => out'[q] = None
    BY <1>3, <2>1, <2>3 DEF SavesInv
  <2> QED
    BY <1>2, <1>3, <1>4, <2>5, <2>6, <2>7, <2>8 DEF SavesInv
<1>6. CASE SaveLastBackup(p)
  <2>1. \A q \in Procs : pc'[q] = IF q = p THEN "returned" ELSE pc[q]
    BY <1>6 DEF SaveLastBackup, Finish, Goto, TypeOK
  <2>2. \A q \in Procs : pc'[q] \notin Critical
    BY <1>1, <2>1, Holder DEF SavesInv, Critical
  <2>3. \A q \in Procs : pc'[q] \in Blank => out'[q] = None
    BY <1>3, <2>1 DEF SavesInv, Blank
  <2> QED
    BY <1>2, <1>3, <1>4, <2>2, <2>3 DEF SavesInv, LockInv, Holding
<1> QED
  BY <1>5, <1>6

\* Writing an env file, which creates its directory.
LEMMA EnvSaves ==
  ASSUME TypeOK, SavesInv, NEW p \in Procs, WriteMovedEnv(p) \/ WriteEnv(p)
  PROVE  SavesInv'
<1> DEFINE w == job[p].wt
<1>1. /\ pc[p] \in {"writeMovedEnv", "writeEnv"}
      /\ pc[p] \in Critical /\ pc[p] \in Holding /\ pc[p] \in Written /\ pc[p] \in Rendering
  BY DEF WriteMovedEnv, WriteEnv, At, Critical, Holding, Written, Rendering
<1>2. w \in Worktrees /\ mem[p] = registry /\ KnowsInv(p) /\ out[p] # None
  BY <1>1, Holder DEF SavesInv, KnowsInv, TypeOK
<1>3. /\ UNCHANGED <<registry, backup, job, out>>
      /\ absent' = absent \ {w}
      /\ \A v \in Worktrees : env'[v] = IF v = w THEN out[p] ELSE env[v]
  BY <1>2 DEF WriteMovedEnv, WriteEnv, EnvWritten, Finish, TypeOK
<1>4. \A v \in absent' : env'[v] = None
  BY <1>3 DEF SavesInv, TypeOK
<1>5. CASE WriteMovedEnv(p)
  <2>1. UNCHANGED <<lock, mem>> /\ \A q \in Procs : pc'[q] = IF q = p THEN "saveMoved" ELSE pc[q]
    BY <1>5 DEF WriteMovedEnv, Goto, TypeOK
  <2>2. pc[p] = "writeMovedEnv"
    BY <1>5 DEF WriteMovedEnv, At
  <2>3. KnowsInv(p)'
    BY <1>2, <1>3, <2>1, <2>2 DEF KnowsInv, Planned, Settling, MoveSteps, Agrees
  <2>4. LockInv'
    BY <1>1, <2>1 DEF SavesInv, LockInv
  <2>5. \A q \in Procs : q # p => pc'[q] \notin Holding
    BY <1>1, <2>1, Holder DEF SavesInv, Holding
  <2>6. \A q \in Procs : pc'[q] \in Blank => out'[q] = None
    BY <1>3, <2>1 DEF SavesInv, Blank
  <2> QED
    BY <1>3, <1>4, <2>3, <2>4, <2>5, <2>6 DEF SavesInv
<1>6. CASE WriteEnv(p)
  <2>1. \A q \in Procs : pc'[q] = IF q = p THEN "returned" ELSE pc[q]
    BY <1>6 DEF WriteEnv, Finish, Goto, TypeOK
  <2>2. \A q \in Procs : pc'[q] \notin Critical
    BY <1>1, <2>1, Holder DEF SavesInv, Critical
  <2>3. \A q \in Procs : pc'[q] \in Blank => out'[q] = None
    BY <1>3, <2>1 DEF SavesInv, Blank
  <2> QED
    BY <1>3, <1>4, <2>2, <2>3 DEF SavesInv, LockInv, Holding
<1> QED
  BY <1>5, <1>6

\* Abandoning a corrupt ledger.
LEMMA AbandonSaves ==
  ASSUME TypeOK, SavesInv, NEW p \in Procs, Abandon(p)
  PROVE  SavesInv'
<1>1. pc[p] \in Critical /\ pc[p] \in Blank
  BY DEF Abandon, Running, At, Critical, Blank
<1>2. TargetsApart(Empty)
  BY DEF TargetsApart, Tracked, Empty
<1>3. /\ UNCHANGED <<backup, env, absent, lock, out>>
      /\ mem'[p] = registry' /\ TargetsApart(registry')
      /\ \A q \in Procs : pc'[q] = IF q = p THEN "import" ELSE pc[q]
  BY <1>2 DEF Abandon, Goto, world, TypeOK, SavesInv
<1>4. KnowsInv(p)'
  BY <1>3 DEF KnowsInv, Planned, MoveSteps, Settling
<1>5. LockInv'
  BY <1>1, <1>3 DEF SavesInv, LockInv
<1>6. \A q \in Procs : q # p => pc'[q] \notin Holding
  BY <1>1, <1>3, Holder DEF SavesInv, Holding
<1>7. \A q \in Procs : pc'[q] \in Blank => out'[q] = None
  BY <1>1, <1>3 DEF SavesInv
<1> QED
  BY <1>3, <1>4, <1>5, <1>6, <1>7 DEF SavesInv

\* The invariant holds in every reachable state, whatever fails.
LEMMA AlwaysSaves == Spec => []SavesInv
<1>1. Init => SavesInv
  BY DEF Init, SavesInv, LockInv, TargetsApart, Tracked, Empty, Critical, Holding
<1>2. TypeOK /\ SavesInv /\ [Next]_vars => SavesInv'
  <2> SUFFICES ASSUME TypeOK, SavesInv, [Next]_vars
               PROVE  SavesInv'
    OBVIOUS
  <2>1. CASE UNCHANGED vars
    <3>1. LockInv'
      BY <2>1 DEF vars, SavesInv, LockInv
    <3>2. /\ UNCHANGED <<registry, backup, corrupt, unlisted>>
          /\ UNCHANGED <<env, absent, pc, mem, out, job>>
      BY <2>1 DEF vars
    <3> QED
      BY <3>1, <3>2, QuietSaves DEF SavesInv
  <2>2. CASE Environment
    BY <2>2, EnvironmentSaves
  <2>3. ASSUME NEW p \in Procs, \E c \in Commands, w \in Worktrees : Start(p, c, w)
        PROVE  SavesInv'
    BY <2>3, ControlSaves
  <2>4. ASSUME NEW p \in Procs, Step(p) \/ Crash(p)
        PROVE  SavesInv'
    BY <2>4, ControlSaves, PlanningSaves, RemovalSaves, ImportSaves, SavingSaves,
       BackupSaves, EnvSaves, AbandonSaves
    DEF Step
  <2> QED
    BY <2>1, <2>2, <2>3, <2>4 DEF Next
<1> QED
  BY <1>1, <1>2, TypeCorrect, PTL DEF Spec

-----------------------------------------------------------------------------
(* What follows for the ledger.                                            *)

\* Only a save changes the ledger, or its abandonment.
LEMMA SavesChangeTheLedger ==
  ASSUME Next, registry' # registry
  PROVE  \E p \in Procs : \/ SavePending(p) \/ SaveEntry(p) \/ SaveOnly(p)
                          \/ SaveRestored(p) \/ SaveMoved(p) \/ Abandon(p)
<1>1. ~Environment
  BY DEF Environment, EditManifest, RemoveDirectory, RemoveRecord, AddWorktree, LoseEnv,
         DeleteRepository, CorruptRegistry, files
<1>2. PICK p \in Procs : \/ \E c \in Commands, w \in Worktrees : Start(p, c, w)
                        \/ Step(p) \/ Crash(p)
  BY <1>1 DEF Next
<1>3. ~\E c \in Commands, w \in Worktrees : Start(p, c, w)
  BY DEF Start, files
<1>4. ~Terminated(p)
  BY DEF Terminated, files
<1>5. ~\/ Acquire(p) \/ FastLoad(p) \/ FastCompare(p) \/ FastRevalidate(p)
  BY DEF Acquire, FastLoad, FastCompare, FastRevalidate, files
<1>6. \A step, reg, o : ~Plan(p, step, reg, o)
  BY DEF Plan, files
<1>7. ~\/ Sync(p) \/ Reallocate(p) \/ Pin(p) \/ Unpin(p) \/ Prune(p) \/ PruneAll(p)
       \/ Reserve(p) \/ Unreserve(p) \/ Doctor(p)
  BY <1>6 DEF Sync, Reallocate, Settle, Pin, Unpin, SetPinned, Prune, PruneAll, Reserve,
              Unreserve, Doctor
<1>8. ~\/ Release(p) \/ Deinit(p) \/ Import(p)
  BY <1>6 DEF Release, Deinit, Import, files
<1>9. ~\/ SaveBackup(p) \/ SaveLastBackup(p) \/ WriteMovedEnv(p) \/ WriteEnv(p)
  BY DEF SaveBackup, SaveLastBackup, WriteMovedEnv, WriteEnv, EnvWritten
<1> QED
  BY <1>2, <1>3, <1>4, <1>5, <1>7, <1>8, <1>9 DEF Step, Crash, LockTimeout, Refuse, Exit

\* What a sound ledger is replaced by: every entry that stays counts its
\* changes, and the pinned entries that go are given up on purpose.
LEMMA LedgerSteps ==
  ASSUME TypeOK, SavesInv, Next, registry' # registry, ~corrupt
  PROVE  \E p \in Procs : Renews(registry', registry) /\ Drops(p, registry', registry)
<1>1. PICK p \in Procs : \/ SavePending(p) \/ SaveEntry(p) \/ SaveOnly(p)
                        \/ SaveRestored(p) \/ SaveMoved(p) \/ Abandon(p)
  BY SavesChangeTheLedger
<1>2. ~Abandon(p)
  BY DEF Abandon
<1>3. /\ pc[p] \in {"savePending", "saveEntry", "saveOnly", "saveRestored", "saveMoved"}
      /\ pc[p] \in Holding /\ pc[p] \in Critical
  BY <1>1, <1>2 DEF SavePending, SaveEntry, SaveOnly, SaveRestored, SaveMoved, Save, At,
                    Holding, Critical
<1>4. job[p].wt \in Worktrees /\ mem[p] \in Registry /\ KnowsInv(p)
  BY <1>3, Holder DEF SavesInv, TypeOK
<1>5. ~SaveRestored(p)
  BY <1>4 DEF SaveRestored, Save, At, KnowsInv
<1>6. CASE SavePending(p) \/ SaveEntry(p) \/ SaveOnly(p)
  <2>1. registry' = Saved(mem[p]) /\ pc[p] \in Planned
    BY <1>6 DEF SavePending, SaveEntry, SaveOnly, Save, At, Planned
  <2>2. registry'.worktrees = mem[p].worktrees /\ Tracked(registry') = Tracked(mem[p])
    BY <1>4, <2>1, SavedEntries, SavedSame
  <2>3. Renews(mem[p], registry) /\ Drops(p, mem[p], registry)
    BY <1>4, <2>1 DEF KnowsInv
  <2> QED
    BY <2>2, <2>3 DEF Renews, Drops
<1>7. CASE SaveMoved(p)
  <2> DEFINE w == job[p].wt
             reg == Committed(mem[p], w, out[p])
  <2>1. pc[p] = "saveMoved" /\ registry' = Saved(reg)
    BY <1>7 DEF SaveMoved, Save, At
  <2>2. out[p] \in EnvFile /\ mem[p] = registry /\ MovesTo(registry.worktrees[w], out[p])
    BY <1>4, <2>1 DEF TypeOK, Rendering, KnowsInv, Written, MoveSteps
  <2>3. /\ reg \in Registry /\ Tracked(reg) = Tracked(mem[p]) \cup {w}
        /\ \A v \in Worktrees : v # w => reg.worktrees[v] = mem[p].worktrees[v]
        /\ Owns(reg.worktrees[w], out[p])
    BY <1>4, <2>2, CommittedType, CommittedEntries
  <2> HIDE DEF reg
  <2>4. registry'.worktrees = reg.worktrees /\ Tracked(registry') = Tracked(reg)
    BY <2>1, <2>3, SavedEntries, SavedSame
  <2>5. \A v \in Tracked(registry) : v \in Worktrees /\ registry.worktrees[v].generation \in Nat
    BY <1>4, <2>2 DEF Tracked, Registry, WorktreeEntry
  <2>6. w \in Tracked(registry)
    BY <1>4, <2>2 DEF MovesTo, Tracked
  <2>7. Renews(registry', registry)
    <3>1. Counts(registry.worktrees[w], registry'.worktrees[w])
      BY <2>2, <2>3, <2>4, <2>5, <2>6 DEF MovesTo, Owns, Counts
    <3>2. ASSUME NEW v \in Tracked(registry), v # w
          PROVE  Counts(registry.worktrees[v], registry'.worktrees[v])
      BY <2>2, <2>3, <2>4, <2>5, <3>2 DEF Counts
    <3> QED
      BY <3>1, <3>2 DEF Renews
  <2>8. Drops(p, registry', registry)
    BY <2>2, <2>3, <2>4 DEF Drops
  <2> QED
    BY <2>7, <2>8
<1> QED
  BY <1>1, <1>2, <1>5, <1>6, <1>7

\* While an entry lives, its generation grows exactly when its block changes:
\* over interrupted moves, failed backups and repairs too.
THEOREM MovesAreCounted == Spec => GenerationCountsMoves
<1>1. ASSUME TypeOK, SavesInv, Next, ~corrupt, NEW w \in Worktrees,
             registry.worktrees[w] # None, registry'.worktrees[w] # None
      PROVE  Counts(registry.worktrees[w], registry'.worktrees[w])
  <2>1. CASE registry' = registry
    <3>1. registry.worktrees[w].generation \in Nat
      BY <1>1 DEF TypeOK, Registry, WorktreeEntry
    <3> QED
      BY <2>1, <3>1 DEF Counts
  <2>2. CASE registry' # registry
    <3>1. Renews(registry', registry)
      BY <1>1, <2>2, LedgerSteps
    <3> QED
      BY <1>1, <3>1 DEF Renews, Tracked
  <2> QED
    BY <2>1, <2>2
<1>2. TypeOK /\ SavesInv /\ [Next]_vars
        => [\A w \in Worktrees :
              LET e == registry.worktrees[w]
                  f == registry'.worktrees[w]
              IN e # None /\ f # None /\ ~corrupt =>
                   /\ f.generation >= e.generation
                   /\ f.block # e.block => f.generation > e.generation
                   /\ f.block = e.block => f.generation = e.generation]_vars
  BY <1>1 DEF Counts
<1> QED
  BY <1>2, AlwaysSaves, TypeCorrect, PTL DEF Spec, GenerationCountsMoves

\* A pinned entry leaves the ledger only by `release` of its own worktree or by
\* `deinit` of its repository: what a collection decided to drop it drops
\* before anyone can pin it.
THEOREM PinnedEntriesSurvive == Spec => PinnedSurvivesCollection
<1>1. ASSUME TypeOK, SavesInv, Next, ~corrupt, NEW w \in Worktrees,
             registry.worktrees[w] # None, registry.worktrees[w].pinned,
             registry'.worktrees[w] = None
      PROVE  \E p \in Procs : At(p, "saveOnly") /\ GivesUp(p, w)
  <2>1. registry' # registry
    BY <1>1
  <2>2. PICK p \in Procs : Drops(p, registry', registry)
    BY <1>1, <2>1, LedgerSteps
  <2> QED
    BY <1>1, <2>2 DEF Drops, Tracked
<1>2. TypeOK /\ SavesInv /\ [Next]_vars
        => [\A w \in Worktrees :
              /\ registry.worktrees[w] # None
              /\ registry.worktrees[w].pinned
              /\ registry'.worktrees[w] = None
              /\ ~corrupt
              => \E p \in Procs : At(p, "saveOnly") /\ GivesUp(p, w)]_vars
  BY <1>1
<1> QED
  BY <1>2, AlwaysSaves, TypeCorrect, PTL DEF Spec, PinnedSurvivesCollection

-----------------------------------------------------------------------------
(* What follows for a repair.                                              *)

\* A repair hands out no block, with the lock or without it.
Serving == Rendering \cup {"fastLoad", "bakMoved"}
RepairInv == \A p \in Procs : pc[p] \in Serving => ~Repairing(p)

\* The steps of a process that lead to one at which it hands out a block.
LEMMA HandingSteps ==
  ASSUME TypeOK, NEW p \in Procs,
         \/ Step(p) \/ Crash(p) \/ \E c \in Commands, w \in Worktrees : Start(p, c, w),
         pc'[p] \in Serving
  PROVE  \/ UNCHANGED job /\ pc[p] \in Serving
         \/ UNCHANGED job /\ job[p].cmd \in {"sync", "reallocate"}
         \/ job'[p].cmd = "sync"
<1>1. ~Terminated(p)
  BY DEF Terminated, Goto, TypeOK, Serving, Rendering
<1>2. CASE Acquire(p) \/ FastLoad(p) \/ FastCompare(p) \/ FastRevalidate(p)
  BY <1>2 DEF Acquire, FastLoad, FastCompare, FastRevalidate, FallThrough, At, Goto,
              TypeOK, Serving, Rendering
<1>3. CASE \E c \in Commands, w \in Worktrees : Start(p, c, w)
  BY <1>3 DEF Start, Goto, TypeOK, Serving, Rendering
<1>4. CASE Sync(p) \/ Reallocate(p)
  BY <1>4 DEF Sync, Reallocate, Settle, Plan, Running
<1>5. ASSUME NEW reg, NEW o, NEW step \in {"saveOnly", "saveRestored", "import"},
             Plan(p, step, reg, o)
      PROVE  FALSE
  BY <1>5 DEF Plan, Goto, TypeOK, Serving, Rendering
<1>6. ~\/ Pin(p) \/ Unpin(p) \/ Prune(p) \/ PruneAll(p) \/ Reserve(p) \/ Unreserve(p)
       \/ Doctor(p)
  BY <1>5 DEF Pin, Unpin, SetPinned, Prune, PruneAll, Reserve, Unreserve, Doctor
<1>7. ~\/ Release(p) \/ Deinit(p) \/ Abandon(p)
  BY DEF Release, Deinit, Abandon, Goto, TypeOK, Serving, Rendering
<1>8. ~Import(p)
  <2>1. SUFFICES ASSUME Import(p)
                 PROVE  FALSE
    OBVIOUS
  <2>2. ~Goto(p, "returned")
    BY DEF Goto, TypeOK, Serving, Rendering
  <2> QED
    BY <1>5, <2>1, <2>2 DEF Import
<1>9. CASE \/ SavePending(p) \/ SaveEntry(p) \/ SaveOnly(p) \/ SaveRestored(p)
           \/ SaveMoved(p)
  BY <1>9 DEF SavePending, SaveEntry, SaveOnly, SaveRestored, SaveMoved, Save, At, Goto,
              TypeOK, Serving, Rendering
<1>10. CASE SaveBackup(p)
  <2>1. pc'[p] = AfterBackup[pc[p]] /\ pc[p] \in {"bakPending", "bakEntry", "bakRestored"}
        /\ UNCHANGED job
    BY <1>10 DEF SaveBackup, AfterBackup, Goto, TypeOK
  <2> QED
    BY <2>1 DEF AfterBackup, Serving, Rendering
<1>11. CASE SaveLastBackup(p) \/ WriteMovedEnv(p) \/ WriteEnv(p)
  BY <1>11 DEF SaveLastBackup, WriteMovedEnv, WriteEnv, Finish, At, Goto, TypeOK, Serving, Rendering
<1> QED
  BY <1>1, <1>2, <1>3, <1>4, <1>6, <1>7, <1>8, <1>9, <1>10, <1>11
  DEF Step, Crash, LockTimeout, Refuse, Exit

\* A step of a process leaves the others where they are.
LEMMA OthersStay ==
  ASSUME TypeOK, NEW p \in Procs,
         \/ Step(p) \/ Crash(p) \/ \E c \in Commands, w \in Worktrees : Start(p, c, w),
         NEW q \in Procs, q # p
  PROVE  pc'[q] = pc[q] /\ job'[q] = job[q] /\ out'[q] = out[q]
<1>1. CASE \/ Acquire(p) \/ LockTimeout(p) \/ Refuse(p) \/ Exit(p) \/ Crash(p)
           \/ FastLoad(p) \/ FastCompare(p) \/ FastRevalidate(p)
           \/ \E c \in Commands, w \in Worktrees : Start(p, c, w)
  BY <1>1 DEF TypeOK, Acquire, LockTimeout, Refuse, Exit, Crash, Terminated, FastLoad,
         FastCompare, FastRevalidate, FallThrough, Start, Goto
<1>2. ASSUME NEW step, NEW reg, NEW o, Plan(p, step, reg, o)
      PROVE  pc'[q] = pc[q] /\ job'[q] = job[q] /\ out'[q] = out[q]
  BY <1>2 DEF Plan, Goto, TypeOK
<1>3. CASE \/ Sync(p) \/ Reallocate(p) \/ Pin(p) \/ Unpin(p) \/ Prune(p) \/ PruneAll(p)
           \/ Reserve(p) \/ Unreserve(p) \/ Doctor(p)
  BY <1>2, <1>3 DEF Sync, Reallocate, Settle, Pin, Unpin, SetPinned, Prune, PruneAll,
                    Reserve, Unreserve, Doctor
<1>4. CASE Release(p) \/ Deinit(p) \/ Abandon(p)
  BY <1>4 DEF Release, Deinit, Abandon, Goto, TypeOK
<1>5. CASE Import(p)
  BY <1>2, <1>5 DEF Import, Goto, TypeOK
<1>6. CASE \/ SavePending(p) \/ SaveEntry(p) \/ SaveOnly(p) \/ SaveRestored(p)
           \/ SaveMoved(p) \/ SaveBackup(p) \/ SaveLastBackup(p) \/ WriteMovedEnv(p)
           \/ WriteEnv(p)
  BY <1>6 DEF SavePending, SaveEntry, SaveOnly, SaveRestored, SaveMoved, Save, SaveBackup,
              SaveLastBackup, WriteMovedEnv, WriteEnv, Finish, Goto, TypeOK
<1> QED
  BY <1>1, <1>3, <1>4, <1>5, <1>6 DEF Step

\* No repair ever hands out a block.
LEMMA RepairsHandOutNothing == Spec => []RepairInv
<1>1. Init => RepairInv
  BY DEF Init, RepairInv, Serving, Rendering
<1>2. TypeOK /\ RepairInv /\ [Next]_vars => RepairInv'
  <2> SUFFICES ASSUME TypeOK, RepairInv, [Next]_vars
               PROVE  RepairInv'
    OBVIOUS
  <2>1. CASE UNCHANGED vars \/ Environment
    <3>1. UNCHANGED <<pc, job>>
      BY <2>1 DEF vars, Environment, EditManifest, RemoveDirectory, RemoveRecord,
                  AddWorktree, LoseEnv, DeleteRepository, CorruptRegistry, procs
    <3> QED
      BY <3>1 DEF RepairInv, Repairing
  <2>2. ASSUME NEW p \in Procs, \/ Step(p) \/ Crash(p)
                               \/ \E c \in Commands, w \in Worktrees : Start(p, c, w)
        PROVE  RepairInv'
    <3>1. \A q \in Procs : q # p => pc'[q] = pc[q] /\ job'[q] = job[q]
      BY <2>2, OthersStay
    <3>2. pc'[p] \in Serving => ~Repairing(p)'
      BY <2>2, HandingSteps DEF RepairInv, Repairing
    <3> QED
      BY <3>1, <3>2 DEF RepairInv, Repairing
  <2> QED
    BY <2>1, <2>2 DEF Next
<1> QED
  BY <1>1, <1>2, TypeCorrect, PTL DEF Spec

\* The steps with which a command returns.
LEMMA Returning ==
  ASSUME TypeOK, Next, NEW p \in Procs, ~At(p, "returned"), pc'[p] = "returned"
  PROVE  /\ \/ FastRevalidate(p) \/ Release(p) \/ Deinit(p) \/ Import(p)
            \/ SaveLastBackup(p) \/ WriteEnv(p)
         /\ Step(p)
<1>1. ~Environment
  BY DEF Environment, EditManifest, RemoveDirectory, RemoveRecord, AddWorktree, LoseEnv,
         DeleteRepository, CorruptRegistry, procs, At
<1>2. \/ Step(p) \/ Crash(p) \/ \E c \in Commands, w \in Worktrees : Start(p, c, w)
  <2>1. PICK q \in Procs : \/ Step(q) \/ Crash(q)
                          \/ \E c \in Commands, w \in Worktrees : Start(q, c, w)
    BY <1>1 DEF Next
  <2>2. q # p => pc'[p] = pc[p]
    BY <2>1, OthersStay
  <2> QED
    BY <2>1, <2>2 DEF At
<1>3. \A c, w : ~Start(p, c, w)
  BY DEF Start, Goto, TypeOK
<1>4. ~Terminated(p)
  BY DEF Terminated, Goto, TypeOK
<1>5. ~Acquire(p) /\ ~FastLoad(p) /\ ~FastCompare(p)
  BY DEF Acquire, FastLoad, FastCompare, FallThrough, Goto, TypeOK
<1>6. \A reg, o : \A step \in {"savePending", "saveEntry", "saveOnly", "saveRestored", "import"} :
        ~Plan(p, step, reg, o)
  BY DEF Plan, Goto, TypeOK
<1>7. ~\/ Sync(p) \/ Reallocate(p) \/ Pin(p) \/ Unpin(p) \/ Prune(p) \/ PruneAll(p)
       \/ Reserve(p) \/ Unreserve(p) \/ Doctor(p)
  BY <1>6 DEF Sync, Reallocate, Settle, Pin, Unpin, SetPinned, Prune, PruneAll, Reserve,
              Unreserve, Doctor
<1>8. ~\/ SavePending(p) \/ SaveEntry(p) \/ SaveOnly(p) \/ SaveRestored(p)
       \/ SaveMoved(p) \/ Abandon(p) \/ WriteMovedEnv(p)
  BY DEF SavePending, SaveEntry, SaveOnly, SaveRestored, SaveMoved, Save, Abandon,
         WriteMovedEnv, Goto, TypeOK
<1>9. ~SaveBackup(p)
  BY DEF SaveBackup, AfterBackup, Goto, TypeOK
<1> QED
  BY <1>2, <1>3, <1>4, <1>5, <1>7, <1>8, <1>9 DEF Step, Crash, LockTimeout, Refuse, Exit

\* The state in which a repair returns.
LEMMA RepairReturns ==
  ASSUME TypeOK, SavesInv, RepairInv, Next, NEW p \in Procs, ~At(p, "returned"),
         pc'[p] = "returned", Repairing(p)
  PROVE  (Accounted(registry, job[p].wt) /\ Passed(registry, job[p].wt))'
<1> DEFINE w == job[p].wt
<1>1. ~\/ FastRevalidate(p) \/ Release(p) \/ Deinit(p) \/ WriteEnv(p)
  BY DEF FastRevalidate, Release, Deinit, WriteEnv, Running, At, Repairing, RepairInv,
         Serving, Rendering
<1>2. CASE Import(p)
  <2>1. /\ pc[p] = "import" /\ pc[p] \in Holding /\ pc[p] \in Written
    BY <1>2 DEF Import, At, Holding, Critical, Written
  <2>2. mem[p] = registry /\ registry \in Registry
    BY <2>1 DEF SavesInv, KnowsInv, TypeOK
  <2>3. \A reg : ~Plan(p, "saveOnly", reg, None)
    BY DEF Plan, Goto, TypeOK
  <2>4. PICK I \in Imports(registry, w) :
          /\ I = {} /\ Behind(WithImports(registry, I), w) = {}
          /\ UNCHANGED <<files, world, job>>
    BY <1>2, <2>2, <2>3 DEF Import
  <2> DEFINE r == WithImports(registry, I)
  <2>5. r \in Reconciled(r, w)
    BY <2>4 DEF Reconciled
  <2>6. Accounted(r, w)
    BY <2>2, <2>5, ImportsAccount DEF TypeOK
  <2>7. r = registry
    BY <2>2, <2>4 DEF WithImports, Registry
  <2>8. TrackedEnvSequences(registry, w) \subseteq Nat /\ registry.sequence \in Nat
    BY <2>2 DEF TrackedEnvSequences, SameProject, TypeOK, EnvFile, Registry
  <2>9. Passed(registry, w)
    BY <2>4, <2>7, <2>8 DEF Passed, Behind
  <2>10. UNCHANGED <<registry, env, unlisted, job>>
    BY <2>4 DEF files, world
  <2> QED
    BY <2>6, <2>7, <2>9, <2>10 DEF Accounted, Passed, TrackedEnvSequences
<1>3. CASE SaveLastBackup(p)
  <2>1. /\ pc[p] \in {"bakMoved", "bakOnly"} /\ pc[p] \in Holding /\ pc[p] \in Written
    BY <1>3 DEF SaveLastBackup, Holding, Critical, Written
  <2>2. pc[p] = "bakOnly"
    BY <2>1 DEF RepairInv, Serving
  <2>3. Accounted(registry, w) /\ Passed(registry, w)
    BY <2>1, <2>2 DEF SavesInv, KnowsInv
  <2>4. UNCHANGED <<registry, env, unlisted, job>>
    BY <1>3 DEF SaveLastBackup, Finish, world
  <2> QED
    BY <2>3, <2>4 DEF Accounted, Passed, TrackedEnvSequences
<1> QED
  BY <1>1, <1>2, <1>3, Returning

\* When doctor returns, its project's sync is not quarantined, whatever the
\* backup it restored and wherever an earlier repair was cut short.
THEOREM RepairsLiftQuarantine == Spec => DoctorLiftsQuarantine
<1>1. TypeOK /\ SavesInv /\ RepairInv /\ [Next]_vars
        => [\A p \in Procs :
              (~At(p, "returned") /\ pc'[p] = "returned" /\ Repairing(p)) =>
                (\A s \in TrackedEnvSequences(registry, job[p].wt) :
                   s < registry.sequence)']_vars
  BY RepairReturns DEF Passed
<1> QED
  BY <1>1, AlwaysSaves, RepairsHandOutNothing, TypeCorrect, PTL
  DEF Spec, DoctorLiftsQuarantine

\* When doctor returns, every env file of its project is accounted for: also
\* that of a worktree which was added, or whose record was removed, while the
\* ledger was being saved.
THEOREM RepairsAccountForEnvs == Spec => DoctorAccountsForEnvs
<1>1. TypeOK /\ SavesInv /\ RepairInv /\ [Next]_vars
        => [\A p \in Procs :
              (~At(p, "returned") /\ pc'[p] = "returned" /\ Repairing(p)) =>
                (\A v \in SameProject(job[p].wt) \ unlisted :
                   env[v] # None => \/ v \in Tracked(registry)
                                    \/ ~Apart({env[v].block}, AllBlocks(registry)))']_vars
  BY RepairReturns DEF Accounted
<1> QED
  BY <1>1, AlwaysSaves, RepairsHandOutNothing, TypeCorrect, PTL
  DEF Spec, DoctorAccountsForEnvs
=============================================================================
