------------------------------ MODULE PortExec ------------------------------
(***************************************************************************)
(* portool exec, once sync has returned the worktree's variables: the env  *)
(* files are read, merged with the parent's environment and portool's      *)
(* variables, references are expanded, and the program is started.         *)
(* Expansion is recursive; its calls are the frames of a stack, and one    *)
(* action is one token, one call or one return.                            *)
(***************************************************************************)
EXTENDS PortEnvText

CONSTANTS
  Order,    \* the names in the order of the code's sorted maps
  Inputs    \* what exec may be started with

\* One line of the env files: skipped (blank, a comment), invalid (no KEY=, or
\* the file is missing), or a variable and the text after `=`.
Line == [kind : {"skip", "invalid"}] \cup [kind : {"set"}, name : Names, text : Text]

IsEnvironment(env) == /\ DOMAIN env \subseteq Names
                      /\ env \in [DOMAIN env -> Text]

\* The files behind each other; what the shell exported, valid UTF-8 or not;
\* what portool sets.
IsInput(i) ==
  /\ i = [lines |-> i.lines, parent |-> i.parent, portool |-> i.portool,
          envFileOverrides |-> i.envFileOverrides]
  /\ i.lines \in Seq(Line)
  /\ IsEnvironment(i.parent)
  /\ IsEnvironment(i.portool)
  /\ \A n \in DOMAIN i.portool : \A k \in DOMAIN i.portool[n] : i.portool[n][k] # "~"
  /\ i.envFileOverrides \in BOOLEAN

ASSUME ExecAssumption ==
  /\ \A i \in Inputs : IsInput(i)
  /\ Order \in Seq(Names)
  /\ \A n \in Names : \E i \in DOMAIN Order : Order[i] = n

VARIABLES
  input,      \* what this run was started with
  phase,      \* the part of `run` that comes next, or how it ended
  line,       \* the line to read
  file,       \* the values read so far, of a name the last one
  map,        \* the merged variables
  memo,       \* the values that are final
  visiting,   \* the names whose values are being expanded, outermost first
  stack,      \* the calls of `expand` under way, outermost first
  child       \* the environment of the program, once it runs

vars == <<input, phase, line, file, map, memo, visiting, stack, child>>

Failures == {"unreadable", "malformed", "undefined", "circular", "notExecuted"}

\* A call of `expand`: for an entry of the map, or for a default in one; `ref`
\* is the reference whose value it waits for.
Frame == [owner : Names, default : BOOLEAN, text : Text, next : Nat \ {0},
          out : Text, ref : SUBSET [name : Names, default : SUBSET Text, next : Nat \ {0}]]

Init ==
  /\ input \in Inputs
  /\ phase = "read"
  /\ line = 1
  /\ file = <<>>
  /\ map = <<>>
  /\ memo = <<>>
  /\ visiting = <<>>
  /\ stack = <<>>
  /\ child = <<>>

Fail(kind) ==
  /\ phase' = kind
  /\ UNCHANGED <<input, line, file, map, memo, visiting, stack, child>>

\* Of two maps with a name in common the upper one says what its value is.
Over(upper, lower) ==
  [n \in DOMAIN upper \cup DOMAIN lower |-> IF n \in DOMAIN upper THEN upper[n] ELSE lower[n]]

With(m, n, v) == Over([x \in {n} |-> v], m)

-----------------------------------------------------------------------------
(* parse_env_file, and compose.                                            *)

ReadLine ==
  /\ phase = "read"
  /\ line \in DOMAIN input.lines
  /\ LET l == input.lines[line]
         values == IF l.kind = "set" THEN ReadValue(l.text) ELSE {}
     IN IF l.kind # "skip" /\ values = {}
        THEN Fail("unreadable")
        ELSE /\ \/ l.kind = "skip" /\ UNCHANGED file
                \/ \E v \in values : file' = With(file, l.name, v)
             /\ line' = line + 1
             /\ UNCHANGED <<input, phase, map, memo, visiting, stack, child>>

\* What `${NAME}` sees of a value that is not valid UTF-8.
Decoded(t) == [i \in DOMAIN t |-> IF t[i] = "~" THEN "?" ELSE t[i]]

\* An entry of the map.
Entry == [raw : Text, quoting : Quotings \cup {"literal"}]

\* The variables of an environment as entries, which are never expanded.
Literals(env) == [n \in DOMAIN env |-> [raw |-> Decoded(env[n]), quoting |-> "literal"]]

\* The merged map.
Merged ==
  Over(Literals(input.portool),
       IF input.envFileOverrides THEN Over(file, Literals(input.parent))
                                 ELSE Over(Literals(input.parent), file))

\* Mutant of SetOnChild: an inherited variable is set again.
SetOnChildAll == DOMAIN file \cup DOMAIN input.portool

\* The names set on the program; it inherits the others.
SetOnChild ==
  DOMAIN input.portool
  \cup {n \in DOMAIN file : input.envFileOverrides \/ n \notin DOMAIN input.parent}

Compose ==
  /\ phase = "read"
  /\ line \notin DOMAIN input.lines
  /\ phase' = "resolve"
  /\ map' = Merged
  /\ UNCHANGED <<input, line, file, memo, visiting, stack, child>>

-----------------------------------------------------------------------------
(* resolve, resolve_entry and expand.                                      *)

Top == stack[Len(stack)]

Expands(n) == map[n].quoting \in {"none", "double"}

\* The names without a final value; the loop of `resolve` takes them in order.
Pending == {n \in DOMAIN map : n \notin DOMAIN memo}

FirstPending ==
  {n \in Pending : \E i \in DOMAIN Order :
     Order[i] = n /\ \A j \in DOMAIN Order : Order[j] \in Pending => i <= j}

\* The names `resolve_entry` is called for next, at most one.
Called ==
  IF stack = <<>> THEN FirstPending ELSE {r.name : r \in Top.ref} \cap Pending

Resolving == phase = "resolve"

Literal ==
  /\ Resolving
  /\ \E n \in Called :
       /\ ~Expands(n)
       /\ memo' = With(memo, n, map[n].raw)
  /\ UNCHANGED <<input, phase, line, file, map, visiting, stack, child>>

\* Mutant of NewFrame: counts from zero.
NewFrameAtZero(n, text, default) ==
  [owner |-> n, default |-> default, text |-> text, next |-> 0, out |-> <<>>, ref |-> {}]

NewFrame(n, text, default) ==
  [owner |-> n, default |-> default, text |-> text, next |-> 1, out |-> <<>>, ref |-> {}]

\* Mutant of BeingExpanded: only a value that refers to itself is noticed.
BeingExpandedLast(n) == visiting # <<>> /\ visiting[Len(visiting)] = n

BeingExpanded(n) == \E i \in DOMAIN visiting : visiting[i] = n

\* Mutant of Circular: a value that is being expanded is waited for.
CircularWaits == FALSE

Circular ==
  /\ Resolving
  /\ \E n \in Called : Expands(n) /\ BeingExpanded(n)
  /\ Fail("circular")

Enter ==
  /\ Resolving
  /\ \E n \in Called :
       /\ Expands(n)
       /\ ~BeingExpanded(n)
       /\ visiting' = Append(visiting, n)
       /\ stack' = Append(stack, NewFrame(n, map[n].raw, FALSE))
  /\ UNCHANGED <<input, phase, line, file, map, memo, child>>

\* The innermost call changes to f.
TopBecomes(f) == stack' = [stack EXCEPT ![Len(stack)] = f]

Scanning == Resolving /\ stack # <<>> /\ Top.ref = {} /\ Top.next <= Len(Top.text)

\* The text up to the next "${", or all of it.
Plain(t) ==
  LET opening == SelectInSeq(t, LAMBDA c : c = "${")
  IN IF opening = 0 THEN t ELSE SubSeq(t, 1, opening - 1)

Copy ==
  /\ Scanning
  /\ Top.text[Top.next] # "${"
  /\ LET plain == Plain(SubSeq(Top.text, Top.next, Len(Top.text)))
     IN TopBecomes([Top EXCEPT !.out = @ \o plain, !.next = @ + Len(plain)])
  /\ UNCHANGED <<input, phase, line, file, map, memo, visiting, child>>

Refer ==
  /\ Scanning
  /\ Top.text[Top.next] = "${"
  /\ LET found == References(Top.text, Top.next)
     IN IF found = {}
        THEN Fail("malformed")
        ELSE /\ \E r \in found : TopBecomes([Top EXCEPT !.ref = {r}, !.next = r.next])
             /\ UNCHANGED <<input, phase, line, file, map, memo, visiting, child>>

Undefined ==
  /\ Resolving /\ stack # <<>>
  /\ \E r \in Top.ref : r.default = {} /\ r.name \notin DOMAIN map
  /\ Fail("undefined")

Resolved(n) == n \in DOMAIN memo

\* Whether the reference is answered by the variable's own value.
Usable(r) == Resolved(r.name) /\ (r.default = {} \/ memo[r.name] # <<>>)

Substitute ==
  /\ Resolving /\ stack # <<>>
  /\ \E r \in Top.ref :
       /\ Usable(r)
       /\ TopBecomes([Top EXCEPT !.out = @ \o memo[r.name], !.ref = {}])
  /\ UNCHANGED <<input, phase, line, file, map, memo, visiting, child>>

\* The variable is undefined or empty: its default is expanded like a value.
EnterDefault ==
  /\ Resolving /\ stack # <<>>
  /\ \E r \in Top.ref, d \in UNION {s.default : s \in Top.ref} :
       /\ r.name \in DOMAIN map => Resolved(r.name)
       /\ ~Usable(r)
       /\ stack' = Append([stack EXCEPT ![Len(stack)].ref = {}],
                          NewFrame(Top.owner, d, TRUE))
  /\ UNCHANGED <<input, phase, line, file, map, memo, visiting, child>>

AtEnd == Resolving /\ stack # <<>> /\ Top.ref = {} /\ Top.next > Len(Top.text)

Return ==
  /\ AtEnd /\ ~Top.default
  /\ memo' = With(memo, Top.owner, Top.out)
  /\ visiting' = Front(visiting)
  /\ stack' = Front(stack)
  /\ UNCHANGED <<input, phase, line, file, map, child>>

ReturnDefault ==
  /\ AtEnd /\ Top.default
  /\ stack' = [Front(stack) EXCEPT ![Len(stack) - 1].out = @ \o Top.out]
  /\ UNCHANGED <<input, phase, line, file, map, memo, visiting, child>>

AllResolved == Resolving /\ stack = <<>> /\ Pending = {}

\* The program inherits the parent's environment, the variables to set laid over
\* it.
Exec ==
  /\ AllResolved
  /\ phase' = "started"
  /\ child' = Over([n \in SetOnChild |-> memo[n]], input.parent)
  /\ UNCHANGED <<input, line, file, map, memo, visiting, stack>>

\* There is no such program, or it cannot be executed.
NotExecuted == AllResolved /\ Fail("notExecuted")

-----------------------------------------------------------------------------

Next ==
  \/ ReadLine \/ Compose
  \/ Literal \/ Circular \/ Enter \/ Copy \/ Refer \/ Undefined \/ Substitute
  \/ EnterDefault \/ Return \/ ReturnDefault
  \/ Exec \/ NotExecuted

Spec == Init /\ [][Next]_vars

-----------------------------------------------------------------------------
(* What is promised.                                                       *)

TypeOK ==
  /\ input \in Inputs
  /\ phase \in {"read", "resolve", "started"} \cup Failures
  /\ line \in Nat \ {0}
  /\ DOMAIN file \subseteq Names /\ file \in [DOMAIN file -> FileValue]
  /\ DOMAIN map \subseteq Names /\ map \in [DOMAIN map -> Entry]
  /\ IsEnvironment(memo)
  /\ visiting \in Seq(Names)
  /\ stack \in Seq(Frame)
  /\ IsEnvironment(child)

\* No value is being expanded twice at the same time, so the recursion is never
\* deeper than there are names and defaults nested in their values, and what is
\* remembered of a name is remembered once (envread.rs resolve_entry).
NoReentry ==
  \A i, j \in DOMAIN stack :
    i # j /\ ~stack[i].default /\ ~stack[j].default => stack[i].owner # stack[j].owner

\* Whether some env file sets n.
InFiles(n) == \E i \in DOMAIN input.lines :
                input.lines[i].kind = "set" /\ input.lines[i].name = n

\* The program sees portool's variables as they are; of the others what it
\* inherits, byte for byte, unless the env files are to override it; and nothing
\* that neither of the three defines (exec.rs compose, exec_command).
ChildSeesItsPorts ==
  phase = "started" =>
    /\ DOMAIN child =
         DOMAIN input.portool \cup DOMAIN input.parent \cup {n \in Names : InFiles(n)}
    /\ \A n \in DOMAIN input.portool : child[n] = input.portool[n]
    /\ \A n \in DOMAIN input.parent \ DOMAIN input.portool :
         \/ input.envFileOverrides /\ InFiles(n)
         \/ child[n] = input.parent[n]
=============================================================================
