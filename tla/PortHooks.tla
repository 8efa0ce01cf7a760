------------------------------ MODULE PortHooks ------------------------------
(***************************************************************************)
(* init, unhook and deinit in one repository: where the hooks are, which   *)
(* of their files is read and replaced when, and what deinit does once it  *)
(* has dealt with them.  No lock protects the hook files.  The ledger is   *)
(* reduced to whether it has entries of this repository, and its env files *)
(* to whether there are any; PortLedger has the rest.                      *)
(***************************************************************************)
EXTENDS PortHookFiles, SequencesExt

CONSTANTS
  Processes,
  Commands,     \* what people start, and hooks if sync is among them
  Binaries,     \* what hooks written now may call, as portool is moved
  HookPaths,    \* the values core.hooksPath may have
  Checkouts,    \* hooks a repository may start with
  Excludes,     \* contents info/exclude may start with
  Inserts, Deletes,   \* lines people insert into hooks and delete from them
  MaxEdits      \* how often they do, or move portool

AllCommands == {"init", "hookOnly", "gitignoreOnly", "unhook", "deinit", "deinitKeep", "sync"}

Names == {"post-checkout", "post-merge"}
InOrder == <<"post-checkout", "post-merge">>

\* Directories that hold hooks, and where they really are: common_dir/hooks, a
\* directory of this worktree, its .husky, the main worktree's, another one's.
Dirs == {"default", "custom", "husky", "main", "outside"}
RealRegion == [default |-> "common", custom |-> "worktree", husky |-> "worktree",
               main |-> "main", outside |-> "outside"]

\* A value of core.hooksPath: whether there is one, the directory of the hooks
\* it leads to, where that is by its spelling (before symlinks are resolved),
\* whether it ends in .husky/_, whether the directory it names exists - for
\* Husky .husky/_, which a package manager generates - and whether it is
\* absolute and set for this repository only.
HookPath == [set : BOOLEAN, dir : Dirs, written : {"common", "worktree", "elsewhere"},
             husky : BOOLEAN, exists : BOOLEAN, ours : BOOLEAN]

Hooks == [Dirs -> [Names -> File]]

Residue == Names \cup {"env", "allocations", "exclude"}

\* path: where the hooks were when the command started; todo: the hooks still
\* to be dealt with; plan: the file about to be written; outcome: the result
\* for post-checkout.
Job == [command : AllCommands, path : HookPath, todo : Seq(Names), plan : File,
        last : Outcome, outcome : Outcome, lines : Seq({"comment", "ignore", "other"}),
        residue : SUBSET Residue]

ASSUME HooksAssumption ==
  /\ Commands \subseteq AllCommands
  /\ Binaries \subseteq Calls
  /\ HookPaths \subseteq HookPath
  /\ Checkouts \subseteq Hooks
  /\ Excludes \subseteq Seq({"comment", "ignore", "other"})
  /\ Inserts \subseteq Line
  /\ Deletes \subseteq Line
  /\ MaxEdits \in Nat

VARIABLES
  hook,        \* the hook files
  path,        \* core.hooksPath
  exclude,     \* the lines of info/exclude
  binary,      \* what a hook written now would call
  allocated,   \* the ledger has entries of this repository
  env,         \* some worktree has an env file
  lock,        \* the holder of the ledger's lock, at most one
  pc, job,     \* for each process, its next step and its data
  edits,       \* how often people edited a hook or moved portool
  overlapped   \* history: processes whose run overlaps with another's

files == <<hook, exclude, allocated, env>>
world == <<path, binary, edits>>
vars == <<files, world, lock, pc, job, overlapped>>

Idle == \A p \in Processes : pc[p] = "idle"

NoJob == [command |-> "sync", path |-> CHOOSE h \in HookPaths : TRUE, todo |-> <<>>,
          plan |-> Absent, last |-> "notFound", outcome |-> "notFound",
          lines |-> <<>>, residue |-> {}]

Init ==
  /\ hook \in Checkouts
  /\ path \in HookPaths
  /\ exclude \in Excludes
  /\ binary \in Binaries
  /\ allocated \in BOOLEAN
  /\ env = allocated
  /\ lock = {}
  /\ pc = [p \in Processes |-> "idle"]
  /\ job = [p \in Processes |-> NoJob]
  /\ edits = 0
  /\ overlapped = {}

-----------------------------------------------------------------------------
\* Where the hooks are.

\* classify.
Classify(h) ==
  IF ~h.set THEN "GitDefault"
  ELSE IF h.husky THEN "Husky"
  ELSE IF h.exists THEN "Custom" ELSE "Missing"

\* git looks into the directory core.hooksPath names, once there is one; that of
\* its own is created with the first hook.
GitLooks(h) == ~h.set \/ h.exists

\* It does now, or will once Husky has generated its own.
GitWillLook(h) == GitLooks(h) \/ Classify(h) = "Husky"

InsideRepository(h) == RealRegion[h.dir] \in {"common", "worktree"}

\* HooksLocation::resolve.
Resolve(h) ==
  IF ~h.set \/ InsideRepository(h) THEN Classify(h)
  ELSE IF RealRegion[h.dir] = "main" /\ h.ours THEN "MainWorktree" ELSE "SharedScope"

\* hook_file: the location has files at all.
HasFiles(h) ==
  CASE Resolve(h) \in {"GitDefault", "Custom", "Husky"} -> TRUE
    [] Resolve(h) = "MainWorktree" -> Classify(h) # "Missing"
    [] OTHER -> FALSE

\* hook_boundary; "elsewhere" is None.
Boundary(h) ==
  CASE Resolve(h) = "Husky" -> "worktree"
    [] Resolve(h) \in {"GitDefault", "Custom"} -> h.written
    [] OTHER -> "elsewhere"

HasBoundary(h) == Boundary(h) # "elsewhere"

\* Mutant of WriteRefused: compares the path as it is written.
WriteRefusedByName(h) == h.written # Boundary(h)

\* The walk from the boundary to the file meets a symlink, or leaves it.
WriteRefused(h) == h.written # Boundary(h) \/ RealRegion[h.dir] # Boundary(h)

-----------------------------------------------------------------------------
\* Commands.

\* The first step of a command.
FirstStep(c) ==
  CASE c \in {"init", "hookOnly"} -> "locate"
    [] c = "gitignoreOnly" -> "readExclude"
    [] c \in {"unhook", "deinit", "deinitKeep"} -> "readHook"
    [] c = "sync" -> "sync"

Start(p, c) ==
  /\ pc[p] = "idle"
  /\ pc' = [pc EXCEPT ![p] = FirstStep(c)]
  /\ job' = [job EXCEPT ![p] = [NoJob EXCEPT !.command = c, !.path = path, !.todo = InOrder]]
  /\ overlapped' = IF Idle THEN {} ELSE {p} \cup {q \in Processes : pc[q] # "idle"}
  /\ UNCHANGED <<files, world, lock>>

\* The end of a process, in whatever way; the kernel drops its lock.
Ends(p) ==
  /\ pc' = [pc EXCEPT ![p] = "idle"]
  /\ lock' = lock \ {p}
  /\ job' = [job EXCEPT ![p] = NoJob]

Fails(p) == Ends(p) /\ UNCHANGED files

Goes(p, step) == pc' = [pc EXCEPT ![p] = step] /\ UNCHANGED lock

Installing(p) == job[p].command \in {"init", "hookOnly"}

\* What follows the hooks.
AfterHooks(c) ==
  CASE c = "init" -> "readExclude"
    [] c = "hookOnly" -> "report"
    [] OTHER -> "verify"

\* install_hook up to the loop over the two hooks.  The main worktree's hook is
\* only read; what is behind a symlink may be a managed one.
Locate(p) ==
  LET h == job[p].path
      f == hook[h.dir]["post-checkout"]
      elsewhere == Resolve(h) = "MainWorktree" /\ HasFiles(h)
  IN /\ pc[p] = "locate"
     /\ \/ /\ elsewhere /\ (IsManaged(f) \/ f.state = "symlink")
           /\ Goes(p, AfterHooks(job[p].command))
           /\ job' = [job EXCEPT ![p].outcome = "current"]
           /\ UNCHANGED files
        \/ HasBoundary(h) /\ Goes(p, "readHook") /\ UNCHANGED <<job, files>>
        \/ ~HasBoundary(h) /\ ~(elsewhere /\ IsManaged(f)) /\ Fails(p)
     /\ UNCHANGED <<world, overlapped>>

\* The hook is dealt with: on to the next one.
Done(p, last) ==
  LET name == Head(job[p].todo)
  IN /\ Goes(p, IF Len(job[p].todo) > 1 THEN "readHook" ELSE AfterHooks(job[p].command))
     /\ job' = [job EXCEPT ![p].todo = Tail(@), ![p].plan = Absent, ![p].last = "notFound",
                           ![p].outcome = IF name = "post-checkout" THEN last ELSE @]

\* install_into or deinit_hook up to the write.  The directory of a hook to be
\* installed is created first; one to be removed is only read.
ReadHook(p) ==
  LET h == job[p].path
      f == hook[h.dir][Head(job[p].todo)]
      r == IF Installing(p) THEN Installed(f, binary) ELSE Removed(f)
      refused == WriteRefused(h) /\ (Installing(p) \/ r.file # f)
  IN /\ pc[p] = "readHook"
     /\ CASE ~HasFiles(h) -> Done(p, "notFound")
          [] HasFiles(h) /\ ~HasBoundary(h) -> Done(p, IF Neutral(f) THEN "notFound" ELSE "manual")
          [] HasBoundary(h) /\ r.outcome = "skipped" -> Done(p, "skipped")
          [] HasBoundary(h) /\ r.outcome # "skipped" ->
               IF refused \/ r.outcome = "error" THEN Ends(p)
               ELSE IF r.file = f THEN Done(p, r.outcome)
               ELSE /\ Goes(p, "writeHook")
                    /\ job' = [job EXCEPT ![p].plan = r.file, ![p].last = r.outcome]
     /\ UNCHANGED <<files, world, overlapped>>

\* The file is renamed into place, made executable, or removed, whatever has
\* become of it since it was read; a file that is gone cannot be chmod'ed or
\* removed.
WriteHook(p) ==
  LET d == job[p].path.dir
      n == Head(job[p].todo)
      inPlace == job[p].last = "current" \/ job[p].plan = Absent
      new == IF job[p].last = "current" THEN [hook[d][n] EXCEPT !.exec = TRUE] ELSE job[p].plan
  IN /\ pc[p] = "writeHook"
     /\ IF inPlace /\ hook[d][n] = Absent
        THEN Fails(p)
        ELSE /\ hook' = [hook EXCEPT ![d][n] = new]
             /\ Done(p, job[p].last)
             /\ UNCHANGED <<exclude, allocated, env>>
     /\ UNCHANGED <<world, overlapped>>

\* unneutralized_hooks.
Unneutralized(h) == {n \in Names : HasFiles(h) /\ ~Neutral(hook[h.dir][n])}

Verify(p) ==
  /\ pc[p] = "verify"
  /\ job' = [job EXCEPT ![p].residue = Unneutralized(job[p].path)]
  /\ Goes(p, CASE job[p].command = "unhook" -> "report"
               [] job[p].command = "deinit" -> "lock"
               [] OTHER -> "readExclude")
  /\ UNCHANGED <<files, world, overlapped>>

Acquire(p) ==
  /\ pc[p] = "lock"
  /\ lock = {}
  /\ lock' = {p}
  /\ pc' = [pc EXCEPT ![p] = "removeEnv"]
  /\ UNCHANGED <<files, world, job, overlapped>>

\* An env file that cannot be removed is residue.
RemoveEnv(p) ==
  /\ pc[p] = "removeEnv"
  /\ \/ env' = FALSE /\ UNCHANGED job
     \/ env /\ env' = env /\ job' = [job EXCEPT ![p].residue = @ \cup {"env"}]
  /\ Goes(p, "drop")
  /\ UNCHANGED <<hook, exclude, allocated, world, overlapped>>

\* Mutant of Drop: drops the entries whatever the verification found.
DropAlways(p) ==
  /\ pc[p] = "drop"
  /\ allocated' = FALSE
  /\ pc' = [pc EXCEPT ![p] = "readExclude"]
  /\ lock' = {}
  /\ UNCHANGED <<hook, exclude, env, world, job, overlapped>>

\* Mutant of Drop: forgets the lock until the process ends.
DropKeepingLock(p) ==
  /\ pc[p] = "drop"
  /\ IF job[p].residue \cap Names = {}
     THEN allocated' = FALSE /\ UNCHANGED job
     ELSE job' = [job EXCEPT ![p].residue = @ \cup {"allocations"}] /\ UNCHANGED allocated
  /\ Goes(p, "readExclude")
  /\ UNCHANGED <<hook, exclude, env, world, overlapped>>

\* The entries are dropped unless a hook survived, and the lock is released.
Drop(p) ==
  /\ pc[p] = "drop"
  /\ IF job[p].residue \cap Names = {}
     THEN allocated' = FALSE /\ UNCHANGED job
     ELSE job' = [job EXCEPT ![p].residue = @ \cup {"allocations"}] /\ UNCHANGED allocated
  /\ pc' = [pc EXCEPT ![p] = "readExclude"]
  /\ lock' = {}
  /\ UNCHANGED <<hook, exclude, env, world, overlapped>>

\* Mutant of PairAt: misses the pair at the end of the file.
PairBeforeEnd(s, i) == i + 1 < Len(s) /\ s[i] = "comment" /\ s[i + 1] = "ignore"

\* The pair update_exclude writes starts at i.
PairAt(s, i) == s[i] = "comment" /\ i < Len(s) /\ s[i + 1] = "ignore"

WithPair(s) == IF Contains(s, "ignore") THEN s ELSE s \o <<"comment", "ignore">>

\* deinit_exclude: a line "ignore" without the comment is the user's own.
WithoutPair(s) ==
  Keep(s, {i \in DOMAIN s : ~PairAt(s, i) /\ (i = 1 \/ ~PairAt(s, i - 1))})

Undoing(p) == job[p].command \in {"deinit", "deinitKeep"}

AfterExclude(c) == IF c = "init" THEN "sync" ELSE "report"

\* deinit takes a failure to read or replace info/exclude down as residue.
ExcludeKept(p) == Undoing(p) /\ job' = [job EXCEPT ![p].residue = @ \cup {"exclude"}]

\* Reading info/exclude in update_exclude and deinit_exclude.
ReadExclude(p) ==
  LET new == IF Undoing(p) THEN WithoutPair(exclude) ELSE WithPair(exclude)
  IN /\ pc[p] = "readExclude"
     /\ \/ new # exclude /\ Goes(p, "writeExclude") /\ job' = [job EXCEPT ![p].lines = new]
        \/ new = exclude /\ Goes(p, AfterExclude(job[p].command)) /\ UNCHANGED job
        \/ ExcludeKept(p) /\ Goes(p, AfterExclude(job[p].command))
     /\ UNCHANGED <<files, world, overlapped>>

\* Replacing it.
WriteExclude(p) ==
  /\ pc[p] = "writeExclude"
  /\ \/ exclude' = job[p].lines /\ UNCHANGED job
     \/ ExcludeKept(p) /\ UNCHANGED exclude
  /\ Goes(p, AfterExclude(job[p].command))
  /\ UNCHANGED <<hook, allocated, env, world, overlapped>>

\* sync::run as a whole: without the lock if nothing is to be done.
Sync(p) ==
  /\ pc[p] = "sync"
  /\ lock = {} \/ (allocated /\ env)
  /\ allocated' = TRUE
  /\ env' = TRUE
  /\ Goes(p, "report")
  /\ UNCHANGED <<hook, exclude, job, world, overlapped>>

\* The exit status.
Succeeds(p) ==
  CASE Installing(p) -> job[p].outcome \in {"installed", "current"}
    [] job[p].command \in {"unhook", "deinit", "deinitKeep"} -> job[p].residue = {}
    [] OTHER -> TRUE

Report(p) ==
  /\ pc[p] = "report"
  /\ Fails(p)
  /\ UNCHANGED <<world, overlapped>>

\* A kill, a failing file operation, or a lock not obtained in time.
Crash(p) ==
  /\ pc[p] \notin {"idle", "report"}
  /\ Fails(p)
  /\ UNCHANGED <<world, overlapped>>

-----------------------------------------------------------------------------
\* People and git.

\* git checkout runs the hook.
Checkout(p) ==
  /\ "sync" \in Commands
  /\ GitLooks(path)
  /\ Runs(hook[path.dir]["post-checkout"])
  /\ Start(p, "sync")

\* Between commands a line of a hook is inserted or deleted, or the hook is
\* made not executable.
EditHook ==
  /\ Idle
  /\ edits < MaxEdits
  /\ edits' = edits + 1
  /\ \E d \in Dirs, n \in Names :
       LET f == hook[d][n]
           Edited(lines) == hook' = [hook EXCEPT ![d][n].lines = lines]
       IN /\ f.state = "text"
          /\ \/ \E i \in 1..(Len(f.lines) + 1), l \in Inserts : Edited(InsertAt(f.lines, i, l))
             \/ \E i \in DOMAIN f.lines : f.lines[i] \in Deletes /\ Edited(RemoveAt(f.lines, i))
             \/ hook' = [hook EXCEPT ![d][n].exec = FALSE]
  /\ UNCHANGED <<path, binary, exclude, allocated, env, lock, pc, job, overlapped>>

SetHooksPath ==
  /\ Idle
  /\ path' \in HookPaths
  /\ UNCHANGED <<files, binary, edits, lock, pc, job, overlapped>>

\* portool is installed at another path.
MoveBinary ==
  /\ Idle
  /\ edits < MaxEdits
  /\ edits' = edits + 1
  /\ binary' \in Binaries \ {binary}
  /\ UNCHANGED <<files, path, lock, pc, job, overlapped>>

Step(p) ==
  \/ Locate(p) \/ ReadHook(p) \/ WriteHook(p) \/ Verify(p)
  \/ Acquire(p) \/ RemoveEnv(p) \/ Drop(p)
  \/ ReadExclude(p) \/ WriteExclude(p) \/ Sync(p) \/ Report(p)

Next ==
  \/ \E p \in Processes : \E c \in Commands : Start(p, c)
  \/ \E p \in Processes : Checkout(p) \/ Step(p) \/ Crash(p)
  \/ EditHook \/ SetHooksPath \/ MoveBinary

Spec == Init /\ [][Next]_vars

-----------------------------------------------------------------------------
\* What is promised.

\* The shape of the state; the lock is held exactly inside deinit's section.
TypeOK ==
  /\ hook \in Hooks
  /\ path \in HookPaths
  /\ exclude \in Seq({"comment", "ignore", "other"})
  /\ binary \in Binaries
  /\ allocated \in BOOLEAN /\ env \in BOOLEAN
  /\ pc \in [Processes -> {"idle", "locate", "readHook", "writeHook", "verify", "lock",
                           "removeEnv", "drop", "readExclude", "writeExclude", "sync", "report"}]
  /\ job \in [Processes -> Job]
  /\ lock = {p \in Processes : pc[p] \in {"removeEnv", "drop"}}
  /\ edits \in 0..MaxEdits
  /\ overlapped \subseteq Processes

\* The lines that are not portool's: outside of a managed block, and none it
\* once appended.
UserLines(s) == WithoutLegacy(IF Valid(s) THEN Before(s) \o After(s) ELSE s)

\* Unless a hook is portool's own script, no command ever loses, adds or
\* reorders a line of the user in it, or touches a symlink or a file it cannot
\* read - with two commands at work on the same files, neither of which locks
\* them (install_into, deinit_hook).
UserLinesKept ==
  [][hook' # hook /\ edits' = edits =>
       \A d \in Dirs, n \in Names :
         LET f == hook[d][n]
             g == hook'[d][n]
         IN /\ f.state = "text" /\ ~Owned(f.lines) =>
                 g.state = "text" /\ UserLines(g.lines) = UserLines(f.lines)
            /\ f.state \in {"symlink", "unreadable"} => g = f]_vars

\* A hook init has just written is one the next init finds current, whatever
\* earlier commands, finished or killed, have left: migration, insertion and
\* refresh all lead to the same block (install_into).
InstallSettles ==
  Idle => \A d \in Dirs, n \in Names :
    LET r == Installed(hook[d][n], binary)
    IN r.outcome = "installed" => Installed(r.file, binary) = Result(r.file, "current")

\* Installing into a hook that knows nothing of portool, and removing it again,
\* leaves the hook as it was (install_into, deinit_hook).
InstallUndone ==
  Idle => \A d \in Dirs, n \in Names :
    LET f == hook[d][n]
        r == Installed(f, binary)
        Foreign == ~Mentions(f.lines) /\ \A i \in DOMAIN f.lines : f.lines[i] \notin Calls
    IN f.state \in {"absent", "text"} /\ Foreign /\ r.outcome = "installed" =>
         LET undone == Removed(r.file)
         IN undone.outcome = "removed" /\ undone.file.state = f.state
            /\ undone.file.lines = f.lines

Reports(p) == pc[p] = "report" /\ pc'[p] = "idle"
Alone(p) == p \notin overlapped

\* git may run portool from the named hook, or may come to do so without
\* anybody touching the hook.
Armed(n) == GitWillLook(path) /\ MayRun(hook[path.dir][n])

\* An init that succeeds, with no other command beside it, leaves a
\* post-checkout hook that gets as far as calling portool, where git looks for
\* it or, with Husky, will look as soon as .husky/_ has been generated
\* (install_hook, finish_hook_install).
InitWires ==
  [][\A p \in Processes :
       Reports(p) /\ Alone(p) /\ Installing(p) /\ Succeeds(p) => Armed("post-checkout")]_vars

\* An unhook or deinit that succeeds, with no other command beside it, leaves
\* no hook that calls portool, now or once Husky is set up
\* (unneutralized_hooks).
UnhookSilences ==
  [][\A p \in Processes :
       /\ Reports(p) /\ Alone(p) /\ Succeeds(p)
       /\ job[p].command \in {"unhook", "deinit", "deinitKeep"}
       => \A n \in Names : ~Armed(n)]_vars

\* deinit drops the entries of the repository only if no checkout could bring
\* them back, by a hook of this repository, now or once Husky is set up
\* (deinit, steps 2 and 4).
EntriesOutliveHooks ==
  [][allocated /\ ~allocated' /\ HasFiles(path) =>
       \A p \in Processes : Drop(p) /\ Alone(p) => \A n \in Names : ~Armed(n)]_vars

\* What a successful deinit, alone, leaves: no env file, no entry, and none of
\* the lines init added to info/exclude (deinit).
DeinitLeavesNothing ==
  [][\A p \in Processes :
       Reports(p) /\ Alone(p) /\ Succeeds(p) /\ job[p].command = "deinit" =>
         /\ ~env /\ ~allocated
         /\ \A i \in 1..(Len(exclude) - 1) :
              ~(exclude[i] = "comment" /\ exclude[i + 1] = "ignore")]_vars

\* Hooks of the main worktree and of other repositories are read, never
\* written (hook_boundary, and the walk in store.rs).
WritesStayHome ==
  [][\A d \in Dirs : RealRegion[d] \in {"main", "outside"} /\ edits' = edits =>
       hook'[d] = hook[d]]_vars
=============================================================================
