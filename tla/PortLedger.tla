----------------------------- MODULE PortLedger -----------------------------
(***************************************************************************)
(* The shared port ledger of portool: registry.json and its backup, the    *)
(* .env.portool of every worktree, the ledger lock, and the commands that  *)
(* run against them as concurrent processes.  One action is one durable    *)
(* step of a command (take the lock, read and plan, replace one file), so  *)
(* a process can be killed or fail between any two file writes.            *)
(***************************************************************************)
EXTENDS PortBlocks, FiniteSets

CONSTANTS
  Procs,        \* slots for concurrently running portool processes
  Worktrees,    \* worktree paths
  Projects,     \* git repositories (their common dirs)
  ProjectOf,    \* the repository a worktree belongs to
  Manifests,    \* possible contents of .portool.toml (their hashes)
  Size,         \* the block size a manifest asks for, alignment included
  Configs,      \* the user configurations a process may read
  Reservable,   \* the ranges users pass to `reserve`
  Commands,     \* the commands a run exercises
  Events,       \* what may happen around the commands of a run
  FastPath,     \* FALSE: entry metadata is always stale, sync takes the lock
  MaxSequence,  \* no command starts once the ledger was saved this often
  None          \* absence: no entry, no file, no process

AllCommands == {"sync", "reallocate", "release", "pin", "unpin", "prune",
                "pruneAll", "reserve", "unreserve", "deinit", "doctor", "abandon"}

AllEvents == {"edit", "remove", "loseEnv", "deleteRepo", "corrupt", "backupFails",
              "removeFails"}

ASSUME LedgerAssumption ==
  /\ ProjectOf \in [Worktrees -> Projects]
  /\ Size \in [Manifests -> 1..MaxPort]
  /\ Configs \subseteq Config
  /\ Reservable \subseteq Block
  /\ Commands \subseteq AllCommands
  /\ Events \subseteq AllEvents
  /\ FastPath \in BOOLEAN
  /\ MaxSequence \in Nat
  /\ None \notin Procs
  /\ None \notin Manifests

-----------------------------------------------------------------------------
(* What the files hold.                                                    *)

\* An option is a set of at most one value.
Option(S) == {{}} \cup {{x} : x \in S}

WorktreeEntry == [block : Block, pending : Option(Block), generation : Nat \ {0},
                  manifest_hash : Manifests \cup {None}, pinned : BOOLEAN]

Registry == [worktrees : [Worktrees -> WorktreeEntry \cup {None}],
             reservations : SUBSET Block,
             sequence : Nat]

EnvFile == [block : Block, generation : Nat \ {0}, sequence : Nat,
            manifest : Manifests]

\* What a process was started for.
Job == [cmd : Commands, wt : Worktrees]

ASSUME NoneAssumption == None \notin WorktreeEntry \cup Registry \cup EnvFile \cup Job

\* A missing ledger reads as this one.
Empty == [worktrees |-> [w \in Worktrees |-> None], reservations |-> {},
          sequence |-> 0]

VARIABLES
  registry,   \* registry.json: its last valid contents
  corrupt,    \* TRUE: registry.json no longer parses or validates
  backup,     \* registry.json.bak, or None
  env,        \* .env.portool of each worktree, or None
  manifest,   \* .portool.toml of each worktree
  absent,     \* worktrees whose directory does not exist
  unlisted,   \* worktrees that git does not list
  deleted,    \* projects whose repository was deleted
  lock,       \* the process that holds registry.json.lock, or None
  pc,         \* the next step of each process
  job,        \* the command a process runs and the worktree it runs in
  mem,        \* the registry a process holds in memory, or None
  out         \* the env file a process compares or writes, or None

files == <<registry, corrupt, backup, env>>
world == <<manifest, absent, unlisted, deleted>>
procs == <<lock, pc, job, mem, out>>
vars == <<registry, corrupt, backup, env, manifest, absent, unlisted, deleted,
          lock, pc, job, mem, out>>

\* Steps that are taken while holding the ledger lock.
Critical == {"locked", "savePending", "bakPending", "writeMovedEnv", "saveMoved",
             "bakMoved", "saveEntry", "bakEntry", "writeEnv", "saveOnly",
             "bakOnly", "saveRestored", "bakRestored", "import"}

Steps == {"idle", "fastLoad", "fastCompare", "fastRevalidate", "waiting",
          "returned"} \cup Critical

\* Steps with a registry, or an env file, in memory.
Holding == Critical \ {"locked"}
Rendering == {"fastCompare", "fastRevalidate", "savePending", "bakPending",
              "writeMovedEnv", "saveMoved", "bakMoved", "saveEntry", "bakEntry",
              "writeEnv"}

TypeOK ==
  /\ registry \in Registry
  /\ corrupt \in BOOLEAN
  /\ backup \in Registry \cup {None}
  /\ env \in [Worktrees -> EnvFile \cup {None}]
  /\ manifest \in [Worktrees -> Manifests]
  /\ absent \subseteq Worktrees
  /\ unlisted \subseteq Worktrees
  /\ deleted \subseteq Projects
  /\ lock \in Procs \cup {None}
  /\ pc \in [Procs -> Steps]
  /\ job \in [Procs -> Job \cup {None}]
  /\ mem \in [Procs -> Registry \cup {None}]
  /\ out \in [Procs -> EnvFile \cup {None}]
  /\ \A p \in Procs :
       /\ pc[p] # "idle" => job[p] # None
       /\ pc[p] \in Holding => mem[p] # None
       /\ pc[p] \in Rendering => out[p] # None

Init ==
  /\ registry = Empty
  /\ corrupt = FALSE
  /\ backup = None
  /\ env = [w \in Worktrees |-> None]
  /\ manifest \in [Worktrees -> Manifests]
  /\ absent = {}
  /\ unlisted = {}
  /\ deleted = {}
  /\ lock = None
  /\ pc = [p \in Procs |-> "idle"]
  /\ job = [p \in Procs |-> None]
  /\ mem = [p \in Procs |-> None]
  /\ out = [p \in Procs |-> None]

-----------------------------------------------------------------------------
(* Reading a registry.                                                     *)

Tracked(reg) == {w \in Worktrees : reg.worktrees[w] # None}

\* The blocks an entry keeps from everyone else: its own and a pending one.
Held(reg, w) ==
  IF reg.worktrees[w] = None
  THEN {}
  ELSE {reg.worktrees[w].block} \cup reg.worktrees[w].pending

\* Mutant of AllBlocks: forgets the targets of moves under way.
AllBlocksButPending(reg) ==
  reg.reservations \cup {reg.worktrees[w].block : w \in Tracked(reg)}

AllBlocks(reg) == reg.reservations \cup UNION {Held(reg, w) : w \in Worktrees}

SameProject(w) == {v \in Worktrees : ProjectOf[v] = ProjectOf[w]}

\* Mutant of ResolvePendingMove: rolls forward without counting the move.
ResolveUncounted(reg, w) ==
  IF reg.worktrees[w] = None
  THEN reg
  ELSE LET e == reg.worktrees[w]
           handedOut == env[w] # None /\ env[w].block \in e.pending
       IN [reg EXCEPT !.worktrees[w] =
             [e EXCEPT !.pending = {}, !.block = IF handedOut THEN env[w].block ELSE @]]

\* Undo or complete a move of w that was interrupted before its last save:
\* the env file tells whether the pending block was already handed out.
ResolvePendingMove(reg, w) ==
  IF reg.worktrees[w] = None
  THEN reg
  ELSE LET e == reg.worktrees[w]
           handedOut == env[w] # None /\ env[w].block \in e.pending
       IN [reg EXCEPT !.worktrees[w] =
             [e EXCEPT !.pending = {},
                       !.block = IF handedOut THEN env[w].block ELSE @,
                       !.generation = IF handedOut THEN @ + 1 ELSE @]]

\* The sequences recorded in the env files of the tracked worktrees of w's
\* project.
TrackedEnvSequences(reg, w) ==
  {env[v].sequence : v \in {u \in SameProject(w) \cap Tracked(reg) : env[u] # None}}

\* The status `check` gives a ledger and a backup it can both load.
BackupFresh == ~corrupt /\ backup # None /\ backup.sequence >= registry.sequence

Quarantined(reg, w) == \E s \in TrackedEnvSequences(reg, w) : s > reg.sequence

\* Mutant of Collectable: an unlisted worktree has no directory.
CollectableUnlisted(reg, j) ==
  {v \in Tracked(reg) \cap unlisted : ProjectOf[v] = j /\ ~reg.worktrees[v].pinned}

\* The entries of project j that garbage collection may remove; whether it
\* does depends on a bind check of their ports.
Collectable(reg, j) ==
  {v \in Tracked(reg) \cap absent \cap unlisted :
     ProjectOf[v] = j /\ ~reg.worktrees[v].pinned}

Without(reg, S) ==
  [reg EXCEPT !.worktrees = [v \in Worktrees |-> IF v \in S THEN None ELSE @[v]]]

\* The blocks sync may settle on for w when its manifest is m.
SyncBlocks(reg, w, m, c) ==
  LET e == reg.worktrees[w]
      occupied == AllBlocks(reg)
  IN IF e = None
     THEN FreeSlots(c, Size[m], occupied)
     ELSE IF e.manifest_hash = m \/ Size[m] <= Width(e.block)
     THEN {e.block}
     ELSE GrownInPlace(c, Size[m], e.block, occupied)
          \cup FreeSlots(c, Size[m], occupied \ {e.block})

\* The entry of w once it owns the block its env file o records.
Committed(reg, w, o) ==
  [reg EXCEPT !.worktrees[w] =
     [block |-> o.block, pending |-> {}, generation |-> o.generation,
      manifest_hash |-> o.manifest,
      pinned |-> IF reg.worktrees[w] = None THEN FALSE ELSE reg.worktrees[w].pinned]]

\* Mutant of Moving: the target replaces the old block at once.
MovingAtOnce(reg, w, b) == [reg EXCEPT !.worktrees[w].block = b]

\* The entry of w while it moves to block b: both blocks stay reserved.
Moving(reg, w, b) == [reg EXCEPT !.worktrees[w].pending = {b}]

\* Mutant of Saved: versions are not told apart.
SavedUnnumbered(reg) == reg

\* store::save numbers every version of the ledger.
Saved(reg) == [reg EXCEPT !.sequence = @ + 1]

-----------------------------------------------------------------------------
(* Starting, locking and ending a command.                                 *)

At(p, step) == pc[p] = step
Goto(p, step) == pc' = [pc EXCEPT ![p] = step]

\* Whether git can be run in worktree w.
InRepository(w) == w \notin absent /\ ProjectOf[w] \notin deleted

\* Commands on the ledger as a whole, wherever they are run.
Anywhere == {"pruneAll", "reserve", "unreserve"}

\* All others have git tell them first where they are.
Start(p, c, w) ==
  /\ At(p, "idle")
  /\ registry.sequence < MaxSequence
  /\ c \notin Anywhere => InRepository(w) /\ w \notin unlisted
  /\ job' = [job EXCEPT ![p] = [cmd |-> c, wt |-> w]]
  /\ Goto(p, IF c = "sync" /\ FastPath THEN "fastLoad" ELSE "waiting")
  /\ UNCHANGED <<files, world, lock, mem, out>>

\* Mutant of Acquire: does not wait for the holder.
AcquireRegardless(p) ==
  /\ At(p, "waiting")
  /\ lock' = p
  /\ Goto(p, "locked")
  /\ UNCHANGED <<files, world, job, mem, out>>

Acquire(p) ==
  /\ At(p, "waiting")
  /\ lock = None
  /\ lock' = p
  /\ Goto(p, "locked")
  /\ UNCHANGED <<files, world, job, mem, out>>

\* The process forgets everything; the kernel drops its lock with it.
Terminated(p) ==
  /\ Goto(p, "idle")
  /\ lock' = IF lock = p THEN None ELSE lock
  /\ job' = [job EXCEPT ![p] = None]
  /\ mem' = [mem EXCEPT ![p] = None]
  /\ out' = [out EXCEPT ![p] = None]
  /\ UNCHANGED <<files, world>>

\* Mutant of LockTimeout: polls without a deadline.
PollForever(p) == FALSE

LockTimeout(p) == At(p, "waiting") /\ lock # None /\ Terminated(p)

\* An early return with nothing written: pool exhausted, quarantine, no
\* entry, corrupt ledger, nothing to do, git or configuration error; or, with
\* the ledger restored, the repository to import from is gone.
Refuse(p) ==
  /\ At(p, "locked") \/ (At(p, "import") /\ ~InRepository(job[p].wt))
  /\ Terminated(p)

\* Killed, or a file operation failed, before its next step.
Crash(p) == ~At(p, "idle") /\ Terminated(p)

Exit(p) == At(p, "returned") /\ Terminated(p)

-----------------------------------------------------------------------------
(* sync without the lock: two reads of the ledger around one of the env.   *)

\* Mutant of Settled: forgets moves under way.
SettledOrMoving(w) == ~corrupt /\ registry.worktrees[w] # None

\* An entry the fast path may trust so far.
Settled(w) ==
  /\ ~corrupt
  /\ registry.worktrees[w] # None
  /\ registry.worktrees[w].pending = {}

\* The env file can be rendered: the block has a port for all m asks for.
Fits(m, b) == Size[m] <= Width(b)

FastLoad(p) ==
  /\ At(p, "fastLoad")
  /\ LET w == job[p].wt
         e == registry.worktrees[w]
     IN IF Settled(w) /\ e.manifest_hash = manifest[w] /\ Fits(manifest[w], e.block)
        THEN /\ Goto(p, "fastCompare")
             /\ out' = [out EXCEPT ![p] =
                  [block |-> e.block, generation |-> e.generation,
                   sequence |-> registry.sequence, manifest |-> manifest[w]]]
        ELSE Goto(p, "waiting") /\ UNCHANGED out
  /\ UNCHANGED <<files, world, lock, job, mem>>

\* The env file is the rendered one, its sequence line apart.
SameEnv(f, o) == f # None /\ [f EXCEPT !.sequence = 0] = [o EXCEPT !.sequence = 0]

FallThrough(p) ==
  /\ Goto(p, "waiting")
  /\ out' = [out EXCEPT ![p] = None]

\* Stale metadata (branch, day) sends sync to the slow path as well.
FastCompare(p) ==
  /\ At(p, "fastCompare")
  /\ \/ SameEnv(env[job[p].wt], out[p]) /\ Goto(p, "fastRevalidate") /\ UNCHANGED out
     \/ FallThrough(p)
  /\ UNCHANGED <<files, world, lock, job, mem>>

StillCurrent(w, o) ==
  /\ Settled(w)
  /\ registry.worktrees[w].block = o.block
  /\ registry.worktrees[w].generation = o.generation

FastRevalidate(p) ==
  /\ At(p, "fastRevalidate")
  /\ IF StillCurrent(job[p].wt, out[p])
     THEN Goto(p, "returned") /\ UNCHANGED out
     ELSE FallThrough(p)
  /\ UNCHANGED <<files, world, lock, job, mem>>

-----------------------------------------------------------------------------
(* Planning under the lock: read the files, decide what to write.          *)

Running(p, c) == At(p, "locked") /\ job[p].cmd = c

\* Plan to save reg; o is the env file to write, if any.
Plan(p, step, reg, o) ==
  /\ Goto(p, step)
  /\ mem' = [mem EXCEPT ![p] = reg]
  /\ out' = [out EXCEPT ![p] = o]
  /\ UNCHANGED <<files, world, lock, job>>

\* Mutant of Rendered: the sequence of the save to come instead of the last.
RenderedAhead(reg, w, b, g) ==
  [block |-> b, generation |-> g, sequence |-> reg.sequence + 1, manifest |-> manifest[w]]

Rendered(reg, w, b, g) ==
  [block |-> b, generation |-> g, sequence |-> reg.sequence, manifest |-> manifest[w]]

\* Give w the block b: a move reserves it first, anything else commits.  The env
\* file is rendered before that, which is an error if b is too small.
Settle(p, reg, w, b) ==
  LET e == reg.worktrees[w]
      o == Rendered(reg, w, b, IF e = None THEN 1
                               ELSE IF e.block # b THEN e.generation + 1
                               ELSE e.generation)
  IN /\ Fits(manifest[w], b)
     /\ IF e # None /\ e.block # b
        THEN Plan(p, "savePending", Moving(reg, w, b), o)
        ELSE Plan(p, "saveEntry", Committed(reg, w, o), o)

\* git lists the worktrees for the collection, if the project has entries.
Sync(p) ==
  /\ Running(p, "sync")
  /\ ~corrupt
  /\ LET w == job[p].wt
         resolved == ResolvePendingMove(registry, w)
     IN /\ InRepository(w) \/ SameProject(w) \cap Tracked(registry) = {}
        /\ ~Quarantined(resolved, w)
        /\ \E c \in Configs, S \in SUBSET Collectable(resolved, ProjectOf[w]) :
             LET reg == Without(resolved, S)
             IN \E b \in SyncBlocks(reg, w, manifest[w], c) : Settle(p, reg, w, b)

Reallocate(p) ==
  /\ Running(p, "reallocate")
  /\ ~corrupt
  /\ LET w == job[p].wt
         reg == ResolvePendingMove(registry, w)
     IN /\ reg.worktrees[w] # None
        /\ \E c \in Configs :
             \E b \in FreeSlots(c, Size[manifest[w]], AllBlocks(reg)) :
               Settle(p, reg, w, b)

SetPinned(p, c, flag) ==
  /\ Running(p, c)
  /\ ~corrupt
  /\ registry.worktrees[job[p].wt] # None
  /\ Plan(p, "saveOnly", [registry EXCEPT !.worktrees[job[p].wt].pinned = flag], None)

Pin(p) == SetPinned(p, "pin", TRUE)
Unpin(p) == SetPinned(p, "unpin", FALSE)

Prune(p) ==
  /\ Running(p, "prune")
  /\ ~corrupt
  /\ InRepository(job[p].wt)
  /\ \E S \in SUBSET Collectable(registry, ProjectOf[job[p].wt]) \ {{}} :
       Plan(p, "saveOnly", Without(registry, S), None)

\* Mutant of PruneAll: the entries of a deleted repository go, pinned or not.
PruneAllPinned(p) ==
  /\ Running(p, "pruneAll")
  /\ ~corrupt
  /\ LET orphans == {v \in Tracked(registry) : ProjectOf[v] \in deleted}
         stale == UNION {Collectable(registry, j) : j \in Projects \ deleted}
     IN \E S \in SUBSET (orphans \cup stale) :
          /\ S # {} \/ deleted # {}
          /\ Plan(p, "saveOnly", Without(registry, S), None)

\* Entries of a deleted repository go even if their directory remains; a
\* deleted repository left without entries is dropped, which is a save too.
PruneAll(p) ==
  /\ Running(p, "pruneAll")
  /\ ~corrupt
  /\ LET orphans == {v \in Tracked(registry) :
                       ProjectOf[v] \in deleted /\ ~registry.worktrees[v].pinned}
         stale == UNION {Collectable(registry, j) : j \in Projects \ deleted}
     IN \E S \in SUBSET (orphans \cup stale) :
          /\ S # {} \/ deleted # {}
          /\ Plan(p, "saveOnly", Without(registry, S), None)

\* A range that is already reserved may still be saved with a new label.
Reserve(p) ==
  /\ Running(p, "reserve")
  /\ ~corrupt
  /\ \E b \in Reservable :
       /\ b \in registry.reservations \/ Apart({b}, AllBlocks(registry))
       /\ Plan(p, "saveOnly", [registry EXCEPT !.reservations = @ \cup {b}], None)

Unreserve(p) ==
  /\ Running(p, "unreserve")
  /\ ~corrupt
  /\ \E b \in registry.reservations :
       Plan(p, "saveOnly", [registry EXCEPT !.reservations = @ \ {b}], None)

\* Mutant of Release: leaves the env file behind.
ReleaseButEnv(p) ==
  /\ Running(p, "release")
  /\ ~corrupt
  /\ registry.worktrees[job[p].wt] # None
  /\ Plan(p, "saveOnly", Without(registry, {job[p].wt}), None)

\* The env file goes first, so the block stays reserved if that fails.
Release(p) ==
  /\ Running(p, "release")
  /\ ~corrupt
  /\ LET w == job[p].wt
     IN /\ env' = [env EXCEPT ![w] = None]
        /\ IF registry.worktrees[w] = None
           THEN Goto(p, "returned") /\ lock' = None /\ UNCHANGED mem
           ELSE /\ Goto(p, "saveOnly")
                /\ mem' = [mem EXCEPT ![p] = Without(registry, {w})]
                /\ UNCHANGED lock
  /\ UNCHANGED <<registry, corrupt, backup, world, job, out>>

\* deinit, once it has dealt with the hooks: the env files of listed and of
\* tracked worktrees are removed, then the entries, but only if no hook still
\* runs portool.  A removal that fails is reported and changes nothing else.
Deinit(p) ==
  /\ Running(p, "deinit")
  /\ ~corrupt
  /\ InRepository(job[p].wt)
  /\ LET mine == SameProject(job[p].wt)
         found == mine \ (unlisted \ Tracked(registry))
     IN /\ \E kept \in SUBSET {v \in found : env[v] # None} :
             /\ kept # {} => "removeFails" \in Events
             /\ env' = [v \in Worktrees |-> IF v \in found \ kept THEN None ELSE env[v]]
        /\ \/ /\ registry.sequence > 0
              /\ Goto(p, "saveOnly")
              /\ mem' = [mem EXCEPT ![p] = Without(registry, mine)]
              /\ UNCHANGED lock
           \/ Goto(p, "returned") /\ lock' = None /\ UNCHANGED mem
  /\ UNCHANGED <<registry, corrupt, backup, world, job, out>>

\* Mutant of Doctor: a repair starts from an empty ledger.
DoctorFromEmpty(p) ==
  /\ Running(p, "doctor")
  /\ \/ corrupt /\ Plan(p, "saveRestored", Empty, None)
     \/ ~corrupt /\ Plan(p, "import", registry, None)

\* doctor --repair: a corrupt ledger is replaced by its backup, which must
\* itself load; then, or with a sound ledger, the import follows.
Doctor(p) ==
  /\ Running(p, "doctor")
  /\ \/ corrupt /\ backup # None /\ Plan(p, "saveRestored", backup, None)
     \/ ~corrupt /\ Plan(p, "import", registry, None)

\* doctor --repair --abandon-other-projects: a corrupt ledger is renamed, so
\* that until the next save there is none, and the import starts from nothing.
Abandon(p) ==
  /\ Running(p, "abandon")
  /\ Goto(p, "import")
  /\ registry' = IF corrupt THEN Empty ELSE registry
  /\ corrupt' = FALSE
  /\ mem' = [mem EXCEPT ![p] = registry']
  /\ UNCHANGED <<backup, env, world, lock, job, out>>

-----------------------------------------------------------------------------
(* doctor: rebuild the entries of this project's live, untracked worktrees *)
(* from their env files, then lift the sequence past every env file.       *)

\* Mutant of Importable: imports only into a project without entries.
ImportableAtOnce(reg, w) ==
  {v \in SameProject(w) \ unlisted :
     /\ SameProject(w) \cap Tracked(reg) = {}
     /\ env[v] # None
     /\ Apart({env[v].block}, AllBlocks(reg))}

Importable(reg, w) ==
  {v \in SameProject(w) \ (unlisted \cup Tracked(reg)) :
     env[v] # None /\ Apart({env[v].block}, AllBlocks(reg))}

\* Mutant of Imports: forgets what it has imported so far.
ImportsUnchecked(reg, w) == {Importable(reg, w)}

\* Worktrees are imported one by one, so of two that overlap the first wins.
Imports(reg, w) ==
  {I \in SUBSET Importable(reg, w) :
     LET Clash(u, v) == u # v /\ Overlaps(env[u].block, env[v].block)
     IN /\ \A u, v \in I : ~Clash(u, v)
        /\ \A u \in Importable(reg, w) \ I : \E v \in I : Clash(u, v)}

WithImports(reg, I) ==
  [reg EXCEPT !.worktrees = [v \in Worktrees |->
     IF v \in I
     THEN [block |-> env[v].block, pending |-> {}, generation |-> 1,
           manifest_hash |-> None, pinned |-> FALSE]
     ELSE @[v]]]

\* Mutant of Behind: an env file as new as the ledger is not behind it.
BehindStrictly(reg, w) == {s \in TrackedEnvSequences(reg, w) : s > reg.sequence}

\* The env files of tracked worktrees the ledger's sequence has not passed.
Behind(reg, w) == {s \in TrackedEnvSequences(reg, w) : s >= reg.sequence}

Reconciled(reg, w) ==
  IF Behind(reg, w) = {}
  THEN {reg}
  ELSE {[reg EXCEPT !.sequence = s] :
          s \in {t \in Behind(reg, w) : \A u \in Behind(reg, w) : u <= t}}

Import(p) ==
  /\ At(p, "import")
  /\ LET w == job[p].wt
     IN /\ InRepository(w)
        /\ \E I \in Imports(mem[p], w) :
             LET imported == WithImports(mem[p], I)
             IN IF I = {} /\ Behind(imported, w) = {}
                THEN /\ Goto(p, "returned")
                     /\ lock' = None
                     /\ mem' = [mem EXCEPT ![p] = None]
                     /\ UNCHANGED <<files, world, job, out>>
                ELSE \E reg \in Reconciled(imported, w) : Plan(p, "saveOnly", reg, None)

-----------------------------------------------------------------------------
(* Writing.  Saving replaces registry.json, then registry.json.bak.        *)

Save(p, from, reg, to) ==
  /\ At(p, from)
  /\ registry' = Saved(reg)
  /\ mem' = [mem EXCEPT ![p] = Saved(reg)]
  /\ corrupt' = FALSE
  /\ Goto(p, to)
  /\ UNCHANGED <<backup, env, world, lock, job, out>>

SavePending(p) == Save(p, "savePending", mem[p], "bakPending")
\* Mutant of SaveEntry: the env file is written before the backup.
SaveEntryFirst(p) == Save(p, "saveEntry", mem[p], "writeEnv")

SaveEntry(p) == Save(p, "saveEntry", mem[p], "bakEntry")
SaveOnly(p) == Save(p, "saveOnly", mem[p], "bakOnly")
SaveRestored(p) == Save(p, "saveRestored", mem[p], "bakRestored")
SaveMoved(p) ==
  Save(p, "saveMoved", Committed(mem[p], job[p].wt, out[p]), "bakMoved")

\* A backup that cannot be written is a warning only.
BackupWritten(p) == backup' = mem[p] \/ ("backupFails" \in Events /\ UNCHANGED backup)

AfterBackup == [bakPending |-> "writeMovedEnv", bakEntry |-> "writeEnv",
                bakRestored |-> "import"]

SaveBackup(p) ==
  /\ pc[p] \in DOMAIN AfterBackup
  /\ BackupWritten(p)
  /\ Goto(p, AfterBackup[pc[p]])
  /\ UNCHANGED <<registry, corrupt, env, world, lock, job, mem, out>>

\* The command's last save: it returns and the lock is dropped.
Finish(p) ==
  /\ Goto(p, "returned")
  /\ lock' = None
  /\ mem' = [mem EXCEPT ![p] = None]
  /\ UNCHANGED <<job, out>>

SaveLastBackup(p) ==
  /\ pc[p] \in {"bakMoved", "bakOnly"}
  /\ BackupWritten(p)
  /\ Finish(p)
  /\ UNCHANGED <<registry, corrupt, env, world>>

\* Writing the env file creates the worktree's directory if it has vanished.
EnvWritten(p) ==
  /\ env' = [env EXCEPT ![job[p].wt] = out[p]]
  /\ absent' = absent \ {job[p].wt}
  /\ UNCHANGED <<registry, corrupt, backup, manifest, unlisted, deleted>>

WriteMovedEnv(p) ==
  /\ At(p, "writeMovedEnv")
  /\ EnvWritten(p)
  /\ Goto(p, "saveMoved")
  /\ UNCHANGED <<lock, job, mem, out>>

WriteEnv(p) ==
  /\ At(p, "writeEnv")
  /\ EnvWritten(p)
  /\ Finish(p)

-----------------------------------------------------------------------------
(* What users, git and the disk do meanwhile.                              *)

\* .portool.toml is edited, or appears or vanishes with a checkout.
EditManifest(w, m) ==
  /\ "edit" \in Events
  /\ manifest[w] # m
  /\ manifest' = [manifest EXCEPT ![w] = m]
  /\ UNCHANGED <<files, absent, unlisted, deleted, procs>>

\* `git worktree remove` deletes the directory, then git's record of it; with
\* `rm` the record stays until `git worktree prune`.
RemoveDirectory(w) ==
  /\ "remove" \in Events
  /\ w \notin absent
  /\ absent' = absent \cup {w}
  /\ env' = [env EXCEPT ![w] = None]
  /\ UNCHANGED <<registry, corrupt, backup, manifest, unlisted, deleted, procs>>

RemoveRecord(w) ==
  /\ w \in absent \ unlisted
  /\ unlisted' = unlisted \cup {w}
  /\ UNCHANGED <<files, manifest, absent, deleted, procs>>

\* `git worktree add` at a path used before.
AddWorktree(w) ==
  /\ w \in absent
  /\ absent' = absent \ {w}
  /\ unlisted' = unlisted \ {w}
  /\ UNCHANGED <<files, manifest, deleted, procs>>

\* `git clean -x`, or by hand: the env file is ignored by git.
LoseEnv(w) ==
  /\ "loseEnv" \in Events
  /\ env[w] # None
  /\ env' = [env EXCEPT ![w] = None]
  /\ UNCHANGED <<registry, corrupt, backup, world, procs>>

DeleteRepository(j) ==
  /\ "deleteRepo" \in Events
  /\ j \notin deleted
  /\ deleted' = deleted \cup {j}
  /\ UNCHANGED <<files, manifest, absent, unlisted, procs>>

CorruptRegistry ==
  /\ "corrupt" \in Events
  /\ registry.sequence > 0
  /\ ~corrupt
  /\ corrupt' = TRUE
  /\ UNCHANGED <<registry, backup, env, world, procs>>

-----------------------------------------------------------------------------

\* One step of a started command, faults apart.
Step(p) ==
  \/ Acquire(p) \/ LockTimeout(p) \/ Refuse(p) \/ Exit(p)
  \/ FastLoad(p) \/ FastCompare(p) \/ FastRevalidate(p)
  \/ Sync(p) \/ Reallocate(p) \/ Pin(p) \/ Unpin(p) \/ Prune(p) \/ PruneAll(p)
  \/ Reserve(p) \/ Unreserve(p) \/ Release(p) \/ Deinit(p)
  \/ Doctor(p) \/ Abandon(p) \/ Import(p)
  \/ SavePending(p) \/ SaveEntry(p) \/ SaveOnly(p) \/ SaveRestored(p) \/ SaveMoved(p)
  \/ SaveBackup(p) \/ SaveLastBackup(p)
  \/ WriteMovedEnv(p) \/ WriteEnv(p)

Environment ==
  \/ \E w \in Worktrees : \/ \E m \in Manifests : EditManifest(w, m)
                          \/ RemoveDirectory(w)
                          \/ RemoveRecord(w)
                          \/ AddWorktree(w)
                          \/ LoseEnv(w)
  \/ \E j \in Projects : DeleteRepository(j)
  \/ CorruptRegistry

Next ==
  \/ \E p \in Procs : \/ \E c \in Commands, w \in Worktrees : Start(p, c, w)
                      \/ Step(p)
                      \/ Crash(p)
  \/ Environment

Spec == Init /\ [][Next]_vars
=============================================================================
