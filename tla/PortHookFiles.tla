---------------------------- MODULE PortHookFiles ----------------------------
(***************************************************************************)
(* What init and unhook make of one hook file.  A file is a sequence of    *)
(* lines; a line is known by what the code compares it with, and the five  *)
(* lines between the markers of a managed block are one.  Whether the last *)
(* line ends in a newline is left out.                                     *)
(***************************************************************************)
EXTENDS Naturals, Sequences

\* What portool writes to have itself called, one per path of its binary.
Calls == {"call1", "call2"}

\* The single lines portool 0.5 and older appended.
Legacy == {"safe", "unsafe"}

\* Shebangs: a POSIX shell, or an interpreter that is none.
Shebangs == {"sh", "other"}

\* "owned" is the comment in portool's own scripts, "mention" a line of the
\* user with the words portool sync in it, "exit" ends a script.
Line == Calls \cup Legacy \cup Shebangs
        \cup {"owned", "begin", "end", "mention", "exit", "user1", "user2"}

\* Of anything but text no more is known than what it is.
File == [state : {"absent", "symlink", "unreadable"}, exec : {FALSE}, lines : {<<>>}]
        \cup [state : {"text"}, exec : BOOLEAN, lines : Seq(Line)]

Other(state) == [state |-> state, exec |-> FALSE, lines |-> <<>>]
Absent == Other("absent")

Text(exec, lines) == [state |-> "text", exec |-> exec, lines |-> lines]

Outcome == {"installed", "current", "removed", "notFound", "skipped", "manual", "error"}

-----------------------------------------------------------------------------

At(s, line) == {i \in DOMAIN s : s[i] = line}

\* The three states of managed_block_state.
NoMarkers(s) == At(s, "begin") = {} /\ At(s, "end") = {}
Valid(s) == \E b, e \in DOMAIN s : At(s, "begin") = {b} /\ At(s, "end") = {e} /\ b < e
Malformed(s) == ~NoMarkers(s) /\ ~Valid(s)

The(S) == CHOOSE i \in S : TRUE
Before(s) == SubSeq(s, 1, The(At(s, "begin")) - 1)
Region(s) == SubSeq(s, The(At(s, "begin")), The(At(s, "end")))
After(s) == SubSeq(s, The(At(s, "end")) + 1, Len(s))

Owned(s) == Len(s) >= 2 /\ s[2] = "owned"

\* hook_script and hook_append_block, for the binary now running.
Script(call) == <<"sh", "owned", call, "exit">>
Managed(call) == <<"begin", call, "end">>

\* Mutant of Replaced: takes a block to extend to the end of the file.
ReplacedToEnd(s, block) == Before(s) \o block

\* replace_managed_block.
Replaced(s, block) == Before(s) \o block \o After(s)

IsLegacy(line) == line \in Legacy
HasLegacy(s) == \E i \in DOMAIN s : IsLegacy(s[i])

\* What is left of s at the places in K.
Keep(s, K) ==
  LET kept[n \in 0..Len(s)] ==
        IF n = 0 THEN <<>> ELSE IF n \in K THEN Append(kept[n - 1], s[n]) ELSE kept[n - 1]
  IN kept[Len(s)]

WithoutLegacy(s) == Keep(s, {i \in DOMAIN s : ~IsLegacy(s[i])})

\* migrate_legacy_lines: the first one becomes the block, the others go.
Migrated(s, block) ==
  LET first == CHOOSE i \in DOMAIN s : IsLegacy(s[i]) /\ \A j \in 1..(i - 1) : ~IsLegacy(s[j])
  IN SubSeq(s, 1, first - 1) \o block \o WithoutLegacy(SubSeq(s, first + 1, Len(s)))

\* Only a shell script is extended; an empty file has no interpreter to know.
Shell(s) == s # <<>> /\ s[1] # "other"

\* insert_block_after_shebang.
Inserted(s, block) ==
  IF s[1] \in Shebangs THEN <<s[1]>> \o block \o Tail(s) ELSE block \o s

Result(file, outcome) == [file |-> file, outcome |-> outcome]

\* Mutant of Installed: does not look for the markers.
InstalledTwice(f, call) ==
  IF f.state = "text" /\ ~Owned(f.lines) /\ Shell(f.lines)
  THEN Result(Text(TRUE, Inserted(f.lines, Managed(call))), "installed")
  ELSE IF f.state = "absent" THEN Result(Text(TRUE, Script(call)), "installed")
  ELSE Result(f, "manual")

\* install_into.  A hook that is already current is only made executable.
Installed(f, call) ==
  LET s == f.lines
      Written(lines) == Result(Text(TRUE, lines), "installed")
      Current == Result(Text(TRUE, s), "current")
  IN CASE f.state = "symlink" -> Result(f, "skipped")
       [] f.state = "unreadable" -> Result(f, "manual")
       [] f.state = "absent" -> Written(Script(call))
       [] f.state = "text" /\ Owned(s) ->
            IF s = Script(call) THEN Current ELSE Written(Script(call))
       [] f.state = "text" /\ ~Owned(s) /\ Malformed(s) -> Result(f, "manual")
       [] f.state = "text" /\ ~Owned(s) /\ Valid(s) ->
            IF Region(s) = Managed(call) THEN Current ELSE Written(Replaced(s, Managed(call)))
       [] f.state = "text" /\ ~Owned(s) /\ NoMarkers(s) ->
            IF HasLegacy(s) THEN Written(Migrated(s, Managed(call)))
            ELSE IF Shell(s) THEN Written(Inserted(s, Managed(call)))
            ELSE Result(f, "manual")

\* Mutant of Removed: deletes the whole file once nothing but a block is known.
RemovedWhole(f) ==
  IF f.state = "text" /\ (Owned(f.lines) \/ Valid(f.lines)) THEN Result(Absent, "removed")
  ELSE Result(f, "notFound")

\* deinit_hook.
Removed(f) ==
  LET s == f.lines
      Kept(lines) == Result(Text(f.exec, lines), "removed")
  IN CASE f.state = "symlink" -> Result(f, "skipped")
       [] f.state = "unreadable" -> Result(f, "error")
       [] f.state = "absent" -> Result(f, "notFound")
       [] f.state = "text" /\ Owned(s) -> Result(Absent, "removed")
       [] f.state = "text" /\ ~Owned(s) /\ Malformed(s) -> Result(f, "manual")
       [] f.state = "text" /\ ~Owned(s) /\ Valid(s) -> Kept(Replaced(s, <<>>))
       [] f.state = "text" /\ ~Owned(s) /\ NoMarkers(s) ->
            IF HasLegacy(s) THEN Kept(WithoutLegacy(s)) ELSE Result(f, "notFound")

\* contains_portool_invocation, by substrings.
Mentions(s) == \E i \in DOMAIN s : s[i] \in Legacy \cup {"owned", "begin", "mention"}

\* Mutant of Neutral: what cannot be read is taken to be harmless.
NeutralIfUnread(f) == f.state # "text" \/ ~Mentions(f.lines)

\* hook_is_neutralized, for a hook with a file.
Neutral(f) == \/ f.state = "absent"
              \/ f.state = "text" /\ ~Mentions(f.lines)

\* Mutant of IsManaged: the loose test by substrings.
IsManagedLoosely(f) == f.state = "text" /\ Mentions(f.lines)

\* is_portool_managed_hook.
IsManaged(f) == f.state = "text" /\ (Owned(f.lines) \/ Valid(f.lines))

\* What a shell does with the lines of a hook: it calls portool if it reaches
\* a line that does.  What lies behind a symlink, or cannot be read as text,
\* may well be such a script.
Reached(s) ==
  \E i \in DOMAIN s : s[i] \in Calls \cup Legacy /\ \A j \in 1..i : s[j] # "exit"

\* git runs a hook if it is executable; a hook that may run portool is one
\* that is not known not to.
Runs(f) == f.state = "text" /\ f.exec /\ Shell(f.lines) /\ Reached(f.lines)
MayRun(f) == f.state \in {"symlink", "unreadable"} \/ Runs(f)
=============================================================================
