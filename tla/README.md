# portool: verification of the shared port ledger

portool gives every git worktree of a machine its own block of TCP ports. One
JSON file, `registry.json`, records who owns which block; each worktree carries
the ports it was given in `.env.portool`; short-lived commands, started by
people, git hooks and build tools at the same time, keep the two in step. There
is no server: the only coordination is one file lock and the order in which
files are replaced. This directory models that protocol, and the git hooks that
set it in motion and the programs started under it, in TLA+, checks them with
TLC and proves their core with TLAPS.

## 1. The system

| Part | State it keeps | Operations | What makes it correct |
| --- | --- | --- | --- |
| ledger (`registry.rs`) | per project and worktree: block, pending block, generation, manifest hash, pin; reservations; sequence | lookup, `all_blocks`, `validate` | blocks of different owners never overlap |
| storage (`store.rs`) | `registry.json`, `registry.json.bak` | load, save (bumps the sequence, then refreshes the backup), atomic replacement of one file | a save replaces the version it was made from; the backup is at most one save behind unless writing it fails |
| lock (`lock.rs`) | one exclusive file lock | acquire with a 10 s timeout; released by exit, failure or kill | every ledger write happens under it; waiting ends |
| allocator (`alloc.rs`, `ports.rs`) | none | scan the aligned slots of the pool | returns only free slots inside the pool |
| sync, reallocate (`cmd/sync.rs`) | none between runs | lock-free fast path; locked slow path; two-phase move; resolution of an interrupted move; stale-backup quarantine | the block an env file hands out is reserved at every instant |
| collection (`gc.rs`, `cmd/prune.rs`) | none | drop entries of vanished worktrees | never drops a live or a pinned entry |
| release, pin, reserve (`cmd/*.rs`) | none | edit one entry or reservation | release removes the env file before the entry |
| doctor (`cmd/doctor.rs`) | none | restore the backup or abandon the ledger, import lost entries from env files, lift the quarantine | after it, allocation is safe again |
| env file (`envfile.rs`, `identity.rs`) | block, generation, sequence, variables | render, read back | agrees with the entry |
| init, unhook, deinit (`cmd/init.rs`, `hooks.rs`) | hook scripts, `info/exclude` | install, refresh, migrate, remove; verify | no line of the user is lost, no foreign hook written; success means git runs portool (with Husky, once that is set up), or no longer does |
| exec (`cmd/exec.rs`, `envread.rs`) | none | sync, optional reallocate, expand env files, replace the process | the program sees the ports of its worktree |
| ls, check (`cmd/*.rs`, `store.rs`) | none | report; `check` compares ledger and backup | a backup called fresh is the ledger |
| main, paths, errors, display | none | formatting | - |

How they interact: every command that writes takes the lock, reads the ledger,
plans in memory, and then replaces files one at a time - ledger, backup, env
file, in an order that differs by command. A process can be killed between any
two of these writes, and `sync` reads ledger and env file *without* the lock
when nothing seems to have changed. That is where the hard behaviour is:
interleavings with the fast path, crashes inside a move, a corrupt ledger and
an outdated backup, and decisions (collection, restore) made from facts that
may no longer hold. `PROJECT.json` lists each hazard at its line, with the
properties that would notice it going wrong.

## 2. The modules

    PortBlocks          port ranges, overlap, what the allocator may return
      PortLeases        the abstract promise: exclusive leases
      PortLedger        files, lock, and every command as a concurrent process
        PortLedgerProps   invariants, action properties, refinement, liveness
          MCPortLedger      small instances for TLC
          PortLedgerProofs  theorems: types, disjoint blocks
            PortSavesProofs   theorems: moves, pins, repairs
              PortReserveProofs theorems: reserved blocks, backup, leases
      PortLoad          how registry.json is parsed and validated
      PortAlloc         how one block is sized, grown or searched for
      PortPlacement     load, resolution of an interrupted move, allocation
        MCPortPlacement
        PortPlacementProofs  theorems: loading, allocating, both together
    PortEnvText         values and references as text
      PortExec          exec: reading, merging, expanding, starting
        PortExecProps     what the text means; liveness
          MCPortExec
          PortExecProofs    theorems: types, nesting, the environment
            PortReadingProofs theorem: lines are read as what they say
            PortMeaningProofs theorem: values expand to what they mean
    PortHookFiles       one hook file: install, migrate, remove, recognise
      PortHooks         init, unhook, deinit over the hooks of a repository
        MCPortHooks, PortHooksProofs

**PortBlocks** is state-free. A block is a pair of ports. `Slots` are the
aligned candidates that fit the pool. The real scan starts at a hash of the
names and skips slots whose ports cannot be bound; both are unpredictable to the
rest of the system, so `FreeSlots` leaves the choice open, "none at all"
included (that case is `Refuse`).

**PortLoad** and **PortAlloc** are the two algorithms behind that, one action
per iteration or straight-line part. `PortLoad` tags the blocks of each owner
(`Group`), checks them, sorts them and sweeps over them with one accumulator
(`Sweep`); its outcome "corrupt" (in `stage`) is the flag `corrupt` of
`PortLedger`. `PortAlloc` sizes the block of a manifest (`Measure`), keeps or
widens the worktree's own block (`Keep`, `Grow`; `current` is empty for a new
worktree and for `reallocate`; a block whose manifest is `unchanged` is kept
whatever its size would be now, and ends in "misfit" if the env file then has an
offset outside of it), and otherwise scans the pool (`Prepare`,
`Probe`, `Exhaust`) from an arbitrary slot, narrowing ports to 16 bits where the
code does. The outcome of each bind test is open; `refused` remembers the
failed ones.

**PortPlacement** composes the two as `sync` and `reallocate` do between taking
the lock and their first write. `Load` is a step of `PortLoad`; once the ledger
is loaded, `Take` picks the worktree's entry (or none), resolves a move that was
interrupted to either of its two blocks, and hands all blocks of the ledger to
`PortAlloc`, of which `Place` is a step. A request is a ledger with the
configuration and the manifest it meets.

**PortLedger** has the files (`registry`, `corrupt`, `backup`, `env`), the world
(`manifest`, `absent` directories, worktrees `unlisted` by git, `deleted`
repositories) and the processes (`lock`, and for each process its next step
`pc`, its `job`, the registry `mem` and the env file `out` it holds in memory).
The granularity is that of the code's durable effects:

| Action | Code |
| --- | --- |
| `Start`, `Acquire`, `LockTimeout`, `Refuse`, `Exit` | discovery of the repository (all commands but `prune --all`, `reserve` and `unreserve`), `lock::acquire`, an early return that wrote nothing - before any plan, or of `doctor` between restoring and importing - and the end of `main` |
| `FastLoad`, `FastCompare`, `FastRevalidate` | the three reads of `try_fast_path` |
| `Sync`, `Reallocate`, `Pin`, `Prune`, `Reserve`, ... | everything a command does between taking the lock and its first write: read, decide, change the registry in memory |
| `SavePending`, `SaveEntry`, `SaveOnly`, `SaveRestored`, `SaveMoved` | the replacement of `registry.json` in `store::save`, one action per place it is called from |
| `SaveBackup`, `SaveLastBackup` | the replacement of `registry.json.bak` in the same call |
| `WriteMovedEnv`, `WriteEnv` | the env file, before or after the entry is committed |
| `Doctor`, `Abandon`, `Import` | restore, move aside, rebuild and reconcile |
| `Crash` | a kill, or any failing file operation, before the next step; the kernel drops the lock |
| `EditManifest`, `RemoveDirectory`, `RemoveRecord`, `AddWorktree`, `LoseEnv`, `DeleteRepository`, `CorruptRegistry` | users, git and the disk |

A write of a file is one action because the code writes a temporary file and
renames it. `Release` and `Deinit` remove env files first, so that removal and
the planning before it are one action, and the save a second. `Crash` needs no
fault model of its own: `fault.rs` marks some of the states it can happen in,
the model allows all of them.

Abstractions: a manifest is a value with a size, so the contents of
`.portool.toml` and its hash are one; its env file can be rendered for a block of
at least that size (`Fits`; the code asks for a port for each offset, so a block
that only lacks what the size was rounded up by would do: `PortAlloc` has that); timestamps, labels, branches and names are
left out, and the fast path may therefore give up at any comparison ("metadata
is stale"). The env file keeps block, generation, sequence and manifest. A
project that has no entry left and one that never had any are the same.
`corrupt` stands for anything that makes loading fail, and keeps the last good
contents beside it so that properties can speak of them; every command fails on
it except a repair. The sequence is a natural number (64 bits in the code).
`check` changes nothing, so it is not an action: `BackupFresh` is what it says of
a backup, and holds or not in every state.

**PortHookFiles** is state-free: a hook is a sequence of lines, each known by
what the code compares it with, and `Installed` and `Removed` are `install_into`
and `deinit_hook`, one case per branch. The lines between the markers of a
block count as one (what they call, `call1` or `call2`, is the path of the
binary), and whether the last line ends in a newline is left out. Two
recognisers are kept apart as in the code: line-exact (`IsManaged`) and by
substrings (`Mentions`). `Runs` is what git and the shell do with the hook.

**PortHooks** puts the two hooks of each directory git may look in beside
`info/exclude`, and runs commands over them as concurrent processes:

| Action | Code |
| --- | --- |
| `Start`, `Locate` | `HooksLocation::resolve`; the cases of `install_hook` |
| `ReadHook`, `WriteHook` | reading and deciding about one hook, and the rename, chmod or unlink that follows; nothing locks the file in between |
| `Verify` | `unneutralized_hooks` |
| `Acquire`, `RemoveEnv`, `Drop` | steps 3 and 4 of `deinit`, under the ledger's lock |
| `ReadExclude`, `WriteExclude` | `update_exclude` and `deinit_exclude` |
| `Sync` | the sync at the end of `init` or run by a hook, as one step: `PortLedger` has its parts |
| `Report` | the exit status |
| `Crash` | a kill, a failing file operation, or the lock not obtained in time |
| `Checkout`, `EditHook`, `SetHooksPath`, `MoveBinary` | git runs the hook; people edit hooks and settings between commands |

A value of `core.hooksPath` is classified, not spelled: the directory it leads
to, where that directory really is (`RealRegion`), where it is as written, before
symlinks are followed, and whether it exists. The first two places differ behind a
symlink; `WriteRefused` is what the walk in `store.rs` then does. git looks into a
directory that exists (`GitLooks`); Husky's is generated by a package manager, and
until then the hook portool put beside it is not run (`GitWillLook`). A hook git
would run, now or then, is `Armed`. Ledger and env files are one bit each,
"there are any". `overlapped` is history: the processes whose run overlapped
with another's. A promise about the end of a command cannot hold while another
one works on the same files, and is stated for commands that ran alone.

**PortEnvText** and **PortExec** are exec, from the moment `sync` has returned
the worktree's variables. A text is a sequence of tokens: a name, or one of the
marks the code tells apart (quotes, backslash, blank, `${`, `:-`, `}`); "/" is
any other character, "~" a byte that is not UTF-8 and "?" what it is decoded to.
`ReadValue` reads what stands after `KEY=`, `References` what stands after `${`.
The recursion of `resolve_entry` and `expand` is a stack of calls in `PortExec`:

| Action | Code |
| --- | --- |
| `ReadLine`, `Compose` | `parse_env_file` line by line; `compose`, the precedence of portool, shell and files |
| `Literal`, `Circular`, `Enter` | the three ways into `resolve_entry` for a name without a final value |
| `Copy`, `Refer` | plain text up to the next `${`; scanning of one reference |
| `Undefined`, `Substitute`, `EnterDefault` | how `expand` answers a reference |
| `Return`, `ReturnDefault` | the end of a value or of a default |
| `Exec`, `NotExecuted` | `exec_command`: only what is `SetOnChild` is set, the rest is inherited as bytes |

The `sync` before it, and the `reallocate` that may follow a failed bind test,
are `PortLedger`'s; nothing of the ledger is held while the files are read.

**PortLeases** says what all of this is for, with no files, locks or processes:
worktrees and reservations *hold* blocks, no two share a port, a worktree *uses*
only a block it holds, and a lease in use is never taken away.

## 3. What is checked

The runs of `PortLedger` use two worktrees, ports 1 to 2 or 1 to 3, and all but
`recovery` and `rebuild` two processes. `MaxSequence` stops commands from
*starting* once the ledger was saved that often; commands already running finish,
so the bound cuts no command short. Deadlock checking is off because a system in
which no command may start any more has legitimately stopped. Processes are
interchangeable, which the symmetry sets use; the liveness run does without.

| Run | Question | Properties |
| --- | --- | --- |
| `moves` | sync, reallocate, release, deinit and the lock-free path, lost env files, kills at every step | `LedgerDisjoint`, `EnvReserved`, `SavesAreSerial`, `GenerationCountsMoves`, `ReturnedBlockIsOwned` |
| `collection` | the worktrees and the repository of a project vanish, worktrees come back, beside sync, release, pin, prune, reserve | `NoSharedPorts`, `PinnedSurvivesCollection`, `ImplementsLeases` |
| `recovery` | manifests that grow and shrink, corruption at any moment, restore from the backup | `TypeOK`, `LedgerDisjoint`, `BackupCoversEnvs`, `EnvSequenceBehind`, `EnvReserved`, `FreshBackupIsCurrent` |
| `rebuild` | backups of any age, ledgers abandoned and rebuilt, `reallocate` on a ledger that was rolled back | `LedgerDisjoint`, `DoctorLiftsQuarantine`, `DoctorAccountsForEnvs` |
| `placement` | every small ledger is loaded and every small request settled, in one go | `VerdictExact`, `SettledRight`, `ExhaustedRight`, `SavedLedgerLoads` |
| `expand` | env files as they may be written, values that refer to each other, layers of files, shell and portool | `TypeOK`, `LinesReadRight`, `ExpansionExact`, `ChildSeesItsPorts`, `NoReentry`, `Ends` |
| `liveness` | every command, `doctor` included, ends, also if its worktree vanishes meanwhile | `CommandsEnd` |
| `hook_edits` | install, unhook and deinit, two at a time, on 13 forms of a post-checkout hook beside a foreign post-merge hook, with one edit or a moved binary in between | `InstallSettles`, `InstallUndone`, `UserLinesKept`, `UnhookSilences` |
| `hooks_path` | init, unhook, deinit and checkouts under 16 values of `core.hooksPath`: default, Husky before and after `.husky/_` was generated, custom, missing, the main worktree's, another repository's, with symlinks either way | `TypeOK`, `WritesStayHome`, `InitWires`, `EntriesOutliveHooks`, `DeinitLeavesNothing` |
| `unhook_silent` | finding, see below | `UnhookSilences` is violated |
| `deinit` | finding, see below | `DeinitDropsNoLiveBlock` is violated |
| `stale_backup` | finding, see below | `DoctorReconciles` is violated |

*Why these bounds.* The pool has room for two moved worktrees to collide (three
ports) or to compete for the last free port (two ports). In `recovery` a
manifest can need one port or two, so growth in place, growth by moving and an
exhausted pool all happen. `MaxSequence` is two to four: enough for an
allocation, an interrupted move and a second command on top; `moves` has four,
for a worktree that moves from A to B and back to A while the lock-free path reads, and
`recovery` has four, for a move, a restore and another command. A third process
adds no new pair of steps: at most one holds the lock and the others wait or
are on the lock-free path. `recovery` and `rebuild` have one process because
everything they ask about happens under the lock (`SavesAreSerial` is checked
in `moves`); it can still be killed anywhere. In `rebuild` the age of the backup
and the number of abandoned ledgers are not bounded by `MaxSequence`
(abandoning restarts the sequence).

The requests of `placement` are exhaustive in two directions: every ledger of up
to three owners and four blocks - nested, touching, reversed, zero or pending -
before one pool; and every pool within six ports with an alignment of up to
three, with five manifests, before every sound ledger of up to two blocks and
ledgers in the middle of a move. Three owners are what a sweep needs to forget a
block that encloses the next two; six ports let a scan wrap around and a block
end at the last port.

The inputs of `expand` are exhaustive in what each is about: every value of up
to five tokens as it may be written with quotes, backslashes and blanks; every
value of up to five tokens with references, beside one that may refer back;
three values, each of 18 forms (plain, defaulted, nested, quoted, malformed),
which has every graph of references among three names, cycles behind defaults
included; and up to two lines with what shell and portool say of the same two
names, with and without `--env-file-overrides`. Five tokens hold an escaped quote
between quotes, and a reference with a default; a default that holds a defaulted
reference is among the forms.

The hooks in `hook_edits` have up to six lines and every form the code tells
apart: absent, a symlink, unreadable, empty, foreign shell and non-shell
scripts, own scripts of this and of an older version, blocks, appended lines,
two of them, a block and a line, and a mention by the user. One edit
(`MaxEdits`) takes the end marker or the execute bit away or adds a line of the
user; a missing *begin* marker is left to `unhook_silent`, since there the
property fails. Two processes are enough to have a file replaced between the
other's read and write. `hooks_path` has one process, and portool in the main
worktree's hooks, or only a mention of it, or nothing.

*What they show.* Between the pending save and the final save of a move the env
file may hand out either block; the entry keeps both until the next command
learns from the env file which one it is (`EnvReserved`), and counts the move if
it happened (`GenerationCountsMoves`), which is what makes the second ledger
read of the fast path sufficient (`ReturnedBlockIsOwned`; only a deleted
repository may take the env file away meanwhile). A pinned entry leaves the
ledger when its own worktree is released or its repository deinitialised, and
never by a collection, however old the reasons for it
(`PinnedSurvivesCollection`). A backup written
after every save, and env files written only after both copies know the block,
make a restore harmless (`BackupCoversEnvs`, `EnvSequenceBehind`); that every
save is numbered makes comparing two numbers enough to tell whether the backup
is the ledger (`FreshBackupIsCurrent`). Growth and search leave the worktree's own
block out of the occupied ones by value and know nothing of owners; what they
settle on still passes the validation at the next load (`SavedLedgerLoads`).
`ExpansionExact` compares the recursive expansion with a definition without calls
or order, in which values become known in rounds: a cycle is reported exactly
where there is one on the path that is needed, a default that is not needed
cannot fail, and `ChildSeesItsPorts` says that no env file and no shell can hide
a port from the program. The order
"env file, then entry" in release, and the reverse in sync, are what
`ImplementsLeases` needs: it fails if either is swapped. Hook files need no lock:
whatever two commands do to the same file, each writes back the user's lines it
read, and those are the same for both (`UserLinesKept`).

*Fairness.* `FairSpec` asks for weak fairness of the steps of each process: a
program that can continue is scheduled. Nothing is assumed about users, git,
faults, or who gets the lock. A process waiting for the lock can always take a
step while it waits only because of the timeout in `lock.rs`; without it
(`PollForever`) a waiting command could starve. That the *effect* of a command
is ever reached is not claimed: it may time out or be killed. exec is one
sequential program; its `FairSpec` is weak fairness of its next step.

Each property comes with a mutant: an operator next to the definition it
replaces that makes a plausible mistake (forgetting pending blocks, a missing
increment, a swapped order, an off-by-one), under which TLC finds the property
violated.

### Findings

* `deinit`: an env file that cannot be removed is reported as residue, and the
  entries are dropped all the same. The env file then hands out ports the ledger
  considers free - what the comment above that code and the one in `release.rs`
  say must not happen. (`cmd/init.rs:634`)
* `stale_backup`: if backups could not be written for a while, a restored ledger
  may track a worktree at the block it had before a move. `doctor --repair`
  skips worktrees that are tracked, lifts the sequence and returns: `sync` is no
  longer quarantined, and the block the env file hands out can be given to
  somebody else. The comments call the ledger authoritative at that point
  because every live block was "just reconciled". (`cmd/doctor.rs:130`)
* `unhook_silent`: a block that lost its begin marker is malformed and left
  alone, but the substring test does not recognise it either - its lines call
  `"$PORTOOL_BIN" sync`, not `portool sync`. `unhook` and `deinit` succeed, the
  latter drops the allocations, and git goes on running portool. Comment and
  README promise that a malformed block is reported. (`cmd/init.rs:499`)

Limits that no run shows, because the properties are stated around them. In the
first three the code disagrees with its own comments:

* A `core.hooksPath` that ends in `.husky/_` is Husky's, whether that directory
  exists or not (`hooks.rs:239`). `init` writes `.husky/post-checkout` and succeeds;
  git runs nothing until `.husky/_` has been generated. A note that `init` prints
  and a caveat of the README tell of the delay; the comment at `init.rs:224`
  ("mean git will actually run the hook") and the README's list of exit codes
  (a directory "that doesn't exist" fails) do not. `hooks_path` has this case, and
  `InitWires` says of it that the hook runs portool once the directory is there.
* A block behind a top-level `exit` is refreshed in place or found current, and
  `init` succeeds although the shell never reaches it; `doctor` warns of it, and
  sends the user to `init` "to move it". No hook in `hooks_path` is like that.
* A `reallocate` on a smaller manifest that is killed after the env file, before the
  last save, is rolled forward to the smaller block but not to the manifest it was
  made for (`sync.rs:648`). If the old manifest is put back, `sync` finds its hash
  unchanged, keeps the block (`sync.rs:300`), cannot render the env file, and fails -
  each time, with the advice to run `sync` "to resize". `reallocate` gets out of it.
  `PortLedger` has these steps; they end in `Refuse`, and no property promises that
  `sync` succeeds.
* A sync that a hook started before `deinit` removed it may be waiting for the
  lock; once `deinit` has released it, that sync allocates again.
  `DeinitLeavesNothing` speaks of a `deinit` that ran alone.
* Hooks in a directory shared with other repositories are never looked at, so
  `unhook` and `deinit` call them neutralised. `EntriesOutliveHooks` excepts them.
* `check` compares sequences only (`store.rs:496`). An abandoned ledger starts a
  new count, so until its first save has refreshed it, a backup that belongs to the
  old one is called fresh. `FreshBackupIsCurrent` is checked without `abandon`.
* A bind test says that a port is free now, not when the program binds it; and
  the program exec starts keeps the ports it was given when another command
  moves the worktree afterwards. `ReturnedBlockIsOwned` ends where sync returns.
* The sequence stops growing at the end of 64 bits; the model has no such end.

## 4. What is proved

`PortLedgerProofs` proves, for any number of processes, worktrees, projects,
manifests and configurations, any sets of commands and events, and no bound on
the sequence other than the constant `MaxSequence`:

* `TypeCorrect`: `Spec => []TypeOK`. Not only the shape of the state: a process
  about to save holds a registry and one about to write an env file has
  rendered it. `TypeOK` is inductive, with one lemma per family of actions, and
  lemmas for what each operator returns.
* `NoDoubleOwner`: `Spec => []LedgerDisjoint`. `LedgerDisjoint` alone is not
  inductive: a save writes what a process has in memory. `DisjointInv` adds that
  registries in memory are disjoint too, and that a process inside a move has
  reserved the target in the registry it holds, so committing it grants nothing
  new. Two lemmas carry the argument: keeping less preserves disjointness
  (`WithinDisjoint`: collection, release, resolution of a move, pinning), and
  granting a block that is apart from everyone else's preserves it
  (`WithinButDisjoint`: allocation, growth, the start of a move). One subtle
  step is `ApartButOwn`: growth leaves the worktree's own block out of the
  occupied list *by value*, which hides no other owner's block only because no
  two owners have the same block. The proof uses neither the lock nor
  the order of writes: disjointness survives without them, while
  `EnvReserved` does not.

`PortSavesProofs` proves what holds of every save and of every repair, whatever
fails around it: failed backups, env files that cannot be removed, abandoned
ledgers, kills between any two writes, corruption at any time.

* `MovesAreCounted`: the generation of an entry grows exactly when its block
  changes, so two equal generations read without the lock mean that no move
  lies between them.
* `PinnedEntriesSurvive`: a collection that was decided on before the pin was
  set cannot be carried out after it.
* `RepairsLiftQuarantine`, `RepairsAccountForEnvs`: what is true of ledger and
  env files whenever a repair returns.

These are action properties of saves that come long after the decision, so
`SavesInv` says what the process in between still knows. `LockInv`: a step under
the lock is the holder's. `KnowsInv`: before the first save of a plan the registry
in memory renews the ledger's entries by the rules (`Renews`), and drops pinned
ones only if the command gives them up (`Drops`); after a save it *is* the ledger
(`Written`); a move's env file has the generation after the entry's (`MovesTo`),
and a settled one the entry's own (`Owns`), which together give the increment of
`SaveMoved`; a repair about to save accounts for all env files (`Accounted`,
`Reached`). No entry is ever moving to the block it has (`TargetsApart`). For
repairs, `RepairInv` adds which steps a repairing command can be at at all.

`PortReserveProofs` goes on from there. With the hypothesis `Dependable` on the
constants - backups and removals of env files succeed (`backupFails`,
`removeFails` are not among `Events`) and no ledger is abandoned - it proves, for
everything else as above:

* `EnvsStayReserved`, `BackupKeepsEnvs`, `NoPortHandedOutTwice`, `LedgerIsNewer`:
  what an env file hands out is reserved for its worktree in ledger and backup,
  nobody else is handed one of its ports, and the ledger is newer than every env
  file, so the quarantine never strikes a healthy one.
* `ReturnsAreOwned`: the block that sync or reallocate returns is the worktree's,
  on the lock-free path too.
* `FreshMeansCurrent`, `SavesFollowOneAnother`: a backup with the ledger's
  sequence is the ledger; no update is lost.
* `LeasesImplemented`: every step is a step of `PortLeases` or a stutter.
* `RepairsReconcile`, `DeinitKeepsBlocks`: the two properties that the findings
  `stale_backup` and `deinit` violate. `Dependable` excludes failed backups and
  failed removals, and that is all it takes: the findings need those faults.

`ReserveInv` has two parts. `FilesInv`: ledger and backup cover every env file
that exists - with its block *and* generation, the pending block with the next
one (`Hands`) - and are newer; the backup is the ledger or an older version.
`HolderInv`: what the holder of the lock knows - the registry in memory covers the
env files too; between the two writes of a save it is the ledger, after them also
the backup; before the first save of a plan it has the ledger's sequence; the block
about to be handed out is held in it, and the sequence to be recorded is not
beyond it. That last part is why `WriteMovedEnv` and `WriteEnv`, which come after a
save and its backup, may write what they do. Here the lock, the order of the
writes and what each command decides are all needed. Without `Dependable` the
theorems are false: the findings `deinit` and `stale_backup`, and the limit on
`check`, show how.

`PortPlacementProofs` proves three things. `ValidateExact`: a ledger of any length is loaded only
if its owners share no port, and called corrupt only if they do or something is
malformed - `Disjoint` of `PortLedgerProps` is what loading establishes. The
invariant (`Swept`): the accumulator reaches as far as any block seen, and every
block of another owner ends before it *starts*. Since blocks come in order of
their first port, a block that meets an earlier one of another owner meets the
accumulator too.

`AllocatesFreeSlots` and `ScanIsComplete`, of the allocator alone: whatever the
pool, alignment, offsets and ledger, the result is one of the choices
`PortLedger` offers and holds every offset, and exhaustion is reported only if
every slot was taken or refused. The scan's invariant says that all candidates
so far were rejected; the lemmas are arithmetic: the starts
`first + k * align` are exactly the aligned ones that fit (`SlotFits`,
`SlotReached`), counting on modulo their number reaches each (`WrapAround`), and
no port is cut off (`PortUnchanged`).

And their composition: `PlacementsStayLoadable` and
`PlacementsSettleRight`, for every request. Its invariant is that of `PortLoad`
while the ledger is being loaded; afterwards the ledger is sound, the
occupied ports are all of its blocks and the worktree's entry has no pending one.
`EntrySound` says when an entry may be exchanged, and `ResultApart` that what was
settled on meets no block of another owner, for which `PortAlloc`'s "apart from
the occupied ones, or from those other than the own" has to be turned from values
into owners by the soundness that loading established.

`PortExecProofs` proves `NeverReentered` and `ChildKeepsItsPorts` for any files,
names and values. `visiting` holds each name once and every call for a value has
its own place there, in the order of the stack (`NestInv`: there is an embedding;
calls for defaults have none); so no value is entered while it is being expanded.
`MemoInv` says that the map is the merged one and that literal values are final
unaltered; portool's are literal and valid UTF-8. `ExecTypeCorrect` adds that
reading and expanding ends in texts, for texts of any length: what stands
between quotes, in a reference or in its default lies within the text it was
read from (`ReadValueIs`, `ReferencesIs`). Both scans are folds; `FoldStep` says
what they do token by token, and `Counted` that the brace which is found lies
among the tokens already seen.

`PortReadingProofs` proves `ReadsWhatIsWritten`: what `parse_line` makes of a line
says (`Says`), and a line is refused only if its quotes do not fit (`Readable`).
What can close a quoted value is defined by the backslashes before it (`Bare`),
looking back any number of tokens; the fold over the tokens keeps one flag. The
lemmas relate the two: at every token, the flag says whether an odd number of
backslashes precedes it, and the value so far is what the tokens so far say.

`PortMeaningProofs` proves `ExpandsAsMeant`: `expand` finds exactly what the texts
mean. The meaning is stated apart from the code's stack, memo and `visiting`: a
text *means* its literal parts and what its references mean (`Meaning`, a
recursive function over shorter and shorter texts), where references count as
known only once everything they need is known (`Known`, in as many rounds as there
are names). Three parts:

* *Which brace closes a default.* `References` counts opening and closing braces
  token by token; the meaning asks for a default in which every brace belongs to a
  reference (`Balanced`). Both find the same references (`ClosingExact`,
  `ReadingsExact`).
* *That there is a meaning.* The functions are recursive, so they are shown to
  exist, by induction on the length of the text (`MeaningsExist`) and on the rounds
  (`KnownRight`); what is known is then founded - each value is known by others known
  before - and closed: nothing more follows.
* *That the stack computes it.* The invariant `CallsRight`: whatever is final is known
  and final as what it means; every call on the stack is on its way to what its
  text means, whatever else may become known (`CallsMean`, `GoesOn`): the text
  already produced, then what the caller awaits, then the rest. A value that
  returns becomes final (`ValueReturns`), a default goes into its caller's text
  (`DefaultReturns`). If a reference leads back to a value being expanded, the
  values from there to the top of the stack wait for each other; take them away
  from what is known and the rest is still closed, so none of them had been known
  (`NeverKnown`, `CycleIs`). If a reference is malformed, or has neither value nor
  default, the value whose text it stands in means nothing either (`StuckIs`).

Both need no assumption beyond those of `PortExecProofs`.

`PortHooksProofs` proves, for hooks of any length, any values of
`core.hooksPath`, edits and processes:

* `HooksTyped`: the state is well formed, and the ledger's lock is held in
  `deinit`'s section and nowhere else.
* `InstallsSettle`: what `init` has written is current to the next `init`.
* `InstallsUndo`: what `init` inserts into a foreign hook, `unhook` removes
  without a trace.
* `HooksStayHome`: no hook of others is written. Only `WriteHook` changes a hook
  while nobody edits, and it writes where its process decided to, possibly after
  `core.hooksPath` has changed.

The inductive invariant `HooksInv` carries decisions over to the writes that
follow them (`Ready`): a process at `writeHook` has a location whose walk was not
refused, and plan and file are text or absent, which a symlink put there
by somebody else could not be. Such a location is in the worktree or the
repository by where it really is, not by its spelling (`NearIsHome`). The two
theorems on installations rest on one shape, `Wrapped`: refresh, migration and
insertion all end in one block between lines without markers, the first part not
an own script (`InstalledIs`), and of that shape it is known what `install_into`
and `deinit_hook` do next (`SettledIs`, `Undone`). What `Keep` keeps of a file is
an induction over its lines; since the theorem of the library takes a
predicate, `Induct` states induction for a set of numbers.

Five more theorems hold for what people may reasonably do, stated as hypotheses on
the hooks a repository starts with and on every edit; TLC confirms them for the
runs named.

* `UserLinesSafe` (`UserLinesKept`): with any number of commands at work on the same
  hooks, no line of the user is lost, added or moved. Hypothesis `PeopleClear`: no
  hook minus portool's lines has the ownership comment as its second line
  (`hook_edits`). Without it the theorem is false: when its block is removed such a
  hook becomes portool's own, one process decides to delete it, and another, that
  has read it before, gives it a block again in between.
* `EntriesGoLast` (`EntriesOutliveHooks`): `deinit`, alone, drops the entries only
  when no hook calls portool. Hypothesis `PeopleTame`: a call outside of a
  well-formed block comes with the ownership comment or a begin marker in the same
  file (`hook_edits`, `hooks_path`). The edit of `unhook_silent`, deleting the begin
  marker, is what it excludes.
* `UnhooksAreSilent` (`UnhookSilences`): the same for every `unhook` or `deinit` that
  reports success. Here `PeopleApart` is needed too: hooks shared with other
  repositories, which portool never looks into, do not call it (`hook_edits`).
* `DeinitIsThorough` (`DeinitLeavesNothing`): a `deinit` that was alone and reports
  success left nothing. Hypothesis: `info/exclude` did not start with two lines that
  ignore env files. `deinit_exclude` takes pairs out once, and of pairs nested in
  each other that leaves one.
* `InitsWire` (`InitWires`): after an `init` that was alone and reports success, there
  is a `post-checkout` hook that gets to the call, where git looks for hooks or, with
  Husky, will look once `.husky/_` has been generated (`Armed`), for every value of
  `core.hooksPath`. `PeopleAhead`: no begin marker
  or appended line stands behind a line `exit` or the shebang of another interpreter
  (`hook_edits`, `hooks_path`). Behind an `exit` of
  the user a block is refreshed and never reached. `PeopleRunMain`: a hook of the
  main worktree that looks like portool's is executable and calls it, since
  `install_hook` only reads it (`hooks_path`).

They rest on what a command may leave of a file (`InstalledLeaves`,
`RemovedLeaves`): portool's script or nothing where its script or nothing was, and
elsewhere a file that, without its block, has what the old one had without its own,
perhaps minus the appended lines (`Leaves`). A set of files that both commands keep
to is kept by every step, the writes of decisions taken earlier included
(`LinesStay`). For `UserLinesSafe`, `KeptInv` says of each process about to write
that its plan has the user's lines of the file *now* there, though others
may have replaced it since it was read. For the other four, `SoloInv` collects what
a command with none beside it has found out so far (`Found`): who is alone stays
so until it ends or another one starts (`LoneStep`), and nothing it has verified
changes before it reports. `InitsWire` adds what `install_into` makes of a file whose
block is in reach (`InstalledWires`), and that an installing command alone writes
what the hook still there calls for, `post-checkout` first (`Wired`).

Assumptions, next to `Dependable`: `PortAssumption`, `LedgerAssumption` (sizes lie
in `1..MaxPort`, configurations are well formed, user reservations are blocks),
`LoadAssumption`, `AllocAssumption`, `PlacementAssumption`, `HooksAssumption` and
`ExecAssumption` (inputs have the types of the code; the order of the maps has all
names; portool's own values are valid UTF-8), `NamesAssumption` (a name is no
mark) and `NoneAssumption` (absence is not an entry, a file or a job). The code
establishes them by validating its configuration, manifest and arguments.

Only model-checked:

* Liveness (`CommandsEnd`, `Ends`): fairness and ENABLED are out of the prover's
  reach.

## 5. Plan

Recovery in several projects; a copied env file with foreign identity.

## 6. Not modelled

The fields that schema migration adds, file permissions other than the execute
bit of a hook, output of `ls`, `check` and `doctor` (its report on hooks
included; of `check` only what it calls a fresh backup is modelled), parsing of
TOML, JSON, arguments and shebang lines, quoting of the binary's path in a hook,
the suggestions exec makes for a missing env file. An env file copied from another
worktree, whose identity lines do not fit, is left out. Ports in use are an
unpredictable outcome of a test. A worktree moved with `git worktree move`
appears as one path that vanishes and another that appears. An editor that
saves a hook while a command rewrites it is not in the model: edits happen
between commands.
