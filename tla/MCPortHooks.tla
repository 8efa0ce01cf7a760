---------------------------- MODULE MCPortHooks ----------------------------
(***************************************************************************)
(* Hooks as users and portool's versions leave them, in the default        *)
(* directory (hook_edits) and in every place core.hooksPath may name       *)
(* (hooks_path), one that does not exist yet among them.                   *)
(***************************************************************************)
EXTENDS PortHooks

\* What people and older versions of portool leave behind.
Contents ==
  {<<>>, <<"sh", "user1">>, <<"user1", "mention">>, <<"other", "user1">>,
   <<"sh", "owned", "call1", "exit">>, <<"sh", "owned", "unsafe">>,
   <<"sh", "user1", "safe">>, <<"sh", "unsafe", "user1", "safe", "user2">>,
   <<"sh", "begin", "call1", "end", "user1">>, <<"sh", "user1", "begin", "call2", "end", "safe">>}

Texts == {Text(TRUE, s) : s \in Contents}

NoHooks == [d \in Dirs |-> [n \in Names |-> Absent]]

With(d, f, g) == [NoHooks EXCEPT ![d] = [n \in Names |-> IF n = "post-checkout" THEN f ELSE g]]

Foreign == Text(TRUE, <<"sh", "user2">>)

\* Any post-checkout, beside a foreign post-merge.
InDefault ==
  {With("default", f, Foreign) : f \in Texts \cup {Absent, Other("symlink"), Other("unreadable")}}

\* core.hooksPath: unset; set, with or without symlinks on the way; with the
\* directory not there, which for Husky is so until it has been set up.
Unset == [set |-> FALSE, dir |-> "default", written |-> "common",
          husky |-> FALSE, exists |-> TRUE, ours |-> TRUE]
Set(d, w) == [Unset EXCEPT !.set = TRUE, !.dir = d, !.written = w, !.husky = d = "husky"]

Missing(h) == [h EXCEPT !.exists = FALSE]
InMain == Set("main", "elsewhere")
HuskyInMain == [InMain EXCEPT !.husky = TRUE]

AnyPath ==
  {Unset, [Unset EXCEPT !.dir = "outside"],
   Set("husky", "worktree"), Missing(Set("husky", "worktree")), Set("custom", "worktree"),
   Set("custom", "elsewhere"), Set("default", "worktree"), Set("husky", "elsewhere"),
   Missing(Set("custom", "worktree")),
   InMain, Missing(InMain), HuskyInMain, Missing(HuskyInMain), [InMain EXCEPT !.ours = FALSE],
   Set("outside", "elsewhere"), Set("outside", "worktree")}

OnlyUnset == {Unset}

\* The main worktree's hooks may be managed; nobody put portool into a
\* directory that is shared with other repositories.
Anywhere ==
  {[d \in Dirs |-> [n \in Names |->
      CASE d = "main" -> IF n = "post-checkout" THEN m ELSE Absent
        [] d = "outside" -> Foreign
        [] OTHER -> IF n = "post-checkout" THEN f ELSE Absent]] :
     m \in {Absent, Text(TRUE, Script("call1")), Text(TRUE, <<"user1", "mention">>)},
     f \in {Absent, Text(TRUE, <<"sh", "user1", "begin", "call1", "end">>)}}

Managed1 == {With("default", Text(TRUE, <<"sh", "begin", "call1", "end", "user1">>), Absent)}

NoExclude == {<<>>}
SomeExcludes == {<<"other">>, <<"ignore">>}

TwoProcesses == Permutations(Processes)
=============================================================================
