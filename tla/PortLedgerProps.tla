--------------------------- MODULE PortLedgerProps ---------------------------
(***************************************************************************)
(* What the shared port ledger promises, whatever the interleaving of      *)
(* commands and wherever one of them is cut short.                         *)
(***************************************************************************)
EXTENDS PortLedger

\* The blocks of different owners are apart; an entry's own block and its
\* pending block belong to one owner and may overlap (growth in place).
Disjoint(reg) ==
  /\ \A v, w \in Worktrees : v # w => Apart(Held(reg, v), Held(reg, w))
  /\ \A w \in Worktrees : Apart(Held(reg, w), reg.reservations)
  /\ \A r, s \in reg.reservations : r # s => ~Overlaps(r, s)

\* The env file of w hands out a block that reg keeps for w.
Covers(reg, w) == env[w].block \in Held(reg, w)

\* Worktrees with an env file, in a repository that still exists (`prune
\* --all` gives up the blocks of a deleted repository on purpose).
Live == {w \in Worktrees : env[w] # None /\ ProjectOf[w] \notin deleted}

InUse == [w \in Worktrees |-> IF w \in Live THEN {env[w].block} ELSE {}]

Leases == INSTANCE PortLeases WITH
  held <- [w \in Worktrees |-> Held(registry, w)],
  reserved <- registry.reservations,
  used <- InUse

-----------------------------------------------------------------------------
(* Invariants.                                                             *)

\* Two worktrees, or a worktree and a reservation, never own a common port,
\* in the ledger and in the backup doctor may restore: every allocation,
\* growth, move, import and reservation must take pending blocks into account
\* (sync.rs slow_path and reallocate, reserve.rs, doctor.rs).
LedgerDisjoint ==
  /\ Disjoint(registry)
  /\ backup # None => Disjoint(backup)

\* The ports an env file hands out stay reserved for its worktree, at every
\* instant and after a crash between any two writes: the two-phase move of
\* sync.rs, the write order of release.rs, and garbage collection.
EnvReserved == \A w \in Live : Covers(registry, w)

\* No two worktrees are ever handed a common port.
NoSharedPorts ==
  \A v, w \in Live : v # w => ~Overlaps(env[v].block, env[w].block)

\* The backup reserves every block in use as well, although it may be one
\* save behind: no env file is written before both copies of the ledger know
\* its block (store.rs save), so restoring the backup loses no live block.
BackupCoversEnvs == \A w \in Live : backup # None /\ Covers(backup, w)

\* An env file records a sequence the ledger has passed, so the stale-backup
\* quarantine of sync.rs never refuses a healthy ledger, not even one that was
\* restored from a backup one save behind.
EnvSequenceBehind ==
  \A w \in Worktrees : env[w] # None => env[w].sequence < registry.sequence

\* What `check` calls a fresh backup is the ledger itself, also after a kill
\* between the two replacements of a save and after a restore (store.rs
\* backup_status, which compares sequences only; a ledger that was abandoned
\* starts a new count, and is excepted).
FreshBackupIsCurrent == BackupFresh => backup = registry

-----------------------------------------------------------------------------
(* Action properties.                                                      *)

\* Every save follows from the version it replaces: no process writes back a
\* registry that another one has changed since it was read (lock.rs, store.rs).
SavesAreSerial ==
  [][registry' # registry /\ ~corrupt => registry'.sequence = registry.sequence + 1]_vars

\* While an entry lives, its generation grows exactly when its block changes,
\* over interrupted moves too: the fast path of sync.rs relies on it to see
\* A -> B -> A moves.
GenerationCountsMoves ==
  [][\A w \in Worktrees :
       LET e == registry.worktrees[w]
           f == registry'.worktrees[w]
       IN e # None /\ f # None /\ ~corrupt =>
            /\ f.generation >= e.generation
            /\ f.block # e.block => f.generation > e.generation
            /\ f.block = e.block => f.generation = e.generation]_vars

\* Whether the command of process p gives up the entry of w on purpose.
GivesUp(p, w) ==
  \/ job[p] = [cmd |-> "release", wt |-> w]
  \/ job[p].cmd = "deinit" /\ ProjectOf[job[p].wt] = ProjectOf[w]

\* A pinned entry leaves the ledger only by `release` of its own worktree or by
\* `deinit` of its repository: no collection decided before the pin is carried
\* out after it (gc.rs, prune.rs, pin.rs).
PinnedSurvivesCollection ==
  [][\A w \in Worktrees :
       /\ registry.worktrees[w] # None
       /\ registry.worktrees[w].pinned
       /\ registry'.worktrees[w] = None
       /\ ~corrupt
       => \E p \in Procs : At(p, "saveOnly") /\ GivesUp(p, w)]_vars

Repairing(p) == job[p].cmd \in {"doctor", "abandon"}

\* When sync or reallocate returns a block, the ledger gives this worktree
\* that block, no move is under way, and the env file agrees unless it was
\* removed, or its repository deleted: on the slow path and on the lock-free
\* one, whose three reads a concurrent move can fall between (sync.rs
\* try_fast_path).
ReturnedBlockIsOwned ==
  [][\A p \in Procs :
       (~At(p, "returned") /\ pc'[p] = "returned" /\ out[p] # None) =>
         LET w == job[p].wt
             o == out[p]
         IN /\ StillCurrent(w, o)' \/ corrupt'
            /\ w \in Live' =>
                 env'[w].block = o.block /\ env'[w].generation = o.generation]_vars

\* When doctor returns, the ledger covers every env file of its project: the
\* comment of doctor.rs calls the ledger authoritative, "having just reconciled
\* every live block", before it lifts the quarantine.  Entries the restored
\* backup still tracks are skipped, so an outdated one stays as it is.
DoctorReconciles ==
  [][\A p \in Procs :
       (~At(p, "returned") /\ pc'[p] = "returned" /\ job[p].cmd = "doctor") =>
         \A v \in Live \cap SameProject(job[p].wt) : Covers(registry, v)']_vars

\* When doctor returns, its project's sync is not quarantined: every env file of
\* a tracked worktree records a sequence the ledger has passed, whatever the
\* backup it restored and wherever an earlier repair was cut short.
DoctorLiftsQuarantine ==
  [][\A p \in Procs :
       (~At(p, "returned") /\ pc'[p] = "returned" /\ Repairing(p)) =>
         (\A s \in TrackedEnvSequences(registry, job[p].wt) : s < registry.sequence)']_vars

\* When doctor returns, every env file of its project is accounted for: its
\* worktree has an entry again, or the block it records overlaps one that the
\* ledger keeps for somebody else.
DoctorAccountsForEnvs ==
  [][\A p \in Procs :
       (~At(p, "returned") /\ pc'[p] = "returned" /\ Repairing(p)) =>
         (\A v \in SameProject(job[p].wt) \ unlisted :
            env[v] # None => \/ v \in Tracked(registry)
                             \/ ~Apart({env[v].block}, AllBlocks(registry)))']_vars

\* deinit drops no block that an env file still hands out: init.rs keeps the
\* allocations "rather than dropping a block a live env still points at" when
\* a hook is left, and release.rs calls that state the unsafe one; but an env
\* file that could not be removed is only reported before the entries go.
DeinitDropsNoLiveBlock ==
  [][\A p \in Procs :
       (At(p, "saveOnly") /\ pc'[p] = "bakOnly" /\ job[p].cmd = "deinit") =>
         \A v \in Live \cap SameProject(job[p].wt) :
           Covers(registry, v) => Covers(registry, v)']_vars

\* The commands implement exclusive leases: every write of a ledger only grants
\* leases on free ports and takes away none an env file still hands out, and an
\* env file is written only with a block its worktree holds (all of sync.rs,
\* release.rs, gc.rs, prune.rs, reserve.rs, doctor.rs).
ImplementsLeases == Leases!Spec

-----------------------------------------------------------------------------
(* Liveness.                                                               *)

\* A started process keeps being scheduled; nothing is assumed of users, of
\* faults, or of who wins the lock.
FairSpec == Spec /\ \A p \in Procs : WF_vars(Step(p))

\* Every command ends, waiting for the lock included: it gets the lock or the
\* timeout of lock.rs, and no later step can block.
CommandsEnd == \A p \in Procs : ~At(p, "idle") ~> At(p, "idle")
=============================================================================
