----------------------------- MODULE MCPortExec -----------------------------
(***************************************************************************)
(* Inputs of three kinds, each exhaustive in what it is about: one value   *)
(* as it may be written; values that refer to each other; the same names   *)
(* in files, in the parent's environment and among portool's variables.    *)
(***************************************************************************)
EXTENDS PortExecProps

ABC == {"A", "B", "C"}
Alphabetical == <<"A", "B", "C">>

None == <<>>

Set(n, t) == [kind |-> "set", name |-> n, text |-> t]

Starts(lines, parent, portool, overrides) ==
  [lines : lines, parent : parent, portool : portool, envFileOverrides : overrides]

UpTo(S, n) == UNION {[1..k -> S] : k \in 0..n}

\* Every way to write a value of up to five tokens.
Written ==
  Starts({<<Set("A", t)>> : t \in UpTo({"'", "\"", "\\", " ", "/"}, 5)},
         {None}, {None}, {FALSE})

\* Two names in a row would be one name.
NamesApart(t) == \A i \in DOMAIN t : i > 1 => ~(t[i] \in ABC /\ t[i - 1] \in ABC)

\* Every value of up to five tokens, with another one it may refer to.
Scanned ==
  Starts({<<Set("A", t), Set("B", u)>> :
            t \in {x \in UpTo({"${", "}", ":-", "A", "B"}, 5) : NamesApart(x)},
            u \in {<<>>, <<"${", "A", "}">>}},
         {None}, {None}, {FALSE})

\* Values as graphs: plain and defaulted references, nested defaults.
Linked ==
  {<<>>, <<"/">>, <<"'", "${", "B", "}", "'">>, <<"${", "C", ":-", "${">>} \cup
  UNION {{<<"${", n, "}">>, <<"${", n, ":-", "/", "}">>} : n \in ABC} \cup
  UNION {{<<"${", n, ":-", "${", m, "}", "}", "/">>,
          <<"${", n, ":-", "${", m, ":-", "}", "$", "}">>} : n, m \in {"B", "C"}}

Graphs3 ==
  Starts({<<Set("A", a), Set("B", b), Set("C", c)>> : a, b, c \in Linked}
         \cup {<<Set("A", a), Set("B", b)>> : a, b \in Linked},
         {None}, {None}, {FALSE})

\* What the shell, portool and two files say of the same names.
Mixed == {<<"/">>, <<"${", "B", "}">>}

Layered ==
  Starts(UpTo({Set(n, t) : n \in {"A", "B"}, t \in Mixed \cup {<<>>}}
              \cup {[kind |-> "skip"], [kind |-> "invalid"]}, 2),
         {None} \cup [{"A"} -> Mixed \cup {<<"~">>}] \cup [{"A", "B"} -> {<<"~">>, <<"$">>}],
         {None} \cup [{"B"} -> {<<"/", "/">>, <<"${", "A", "}">>}],
         BOOLEAN)

SmallInputs == Written \cup Scanned \cup Graphs3 \cup Layered
=============================================================================
