--------------------------- MODULE PortExecProps ---------------------------
(***************************************************************************)
(* What exec promises about the environment of the program it starts.      *)
(* What a value means is defined without calls, stack or order: values     *)
(* become known together, in rounds, as soon as all they need is known.    *)
(***************************************************************************)
EXTENDS PortExec, FiniteSets

-----------------------------------------------------------------------------
(* Reading.                                                                *)

\* The text without the blanks around it.
Stripped(t) ==
  LET ink == {i \in DOMAIN t : t[i] # " "}
  IN IF ink = {} THEN <<>> ELSE SubSeq(t, Min(ink), Max(ink))

Quoted(t) == t # <<>> /\ t[1] \in {"'", "\""}

\* An even number of backslashes precedes token i.
Bare(t, i) ==
  \E n \in 0..(i - 2) : /\ n % 2 = 0
                        /\ t[i - n - 1] # "\\"
                        /\ \A j \in (i - n)..(i - 1) : t[j] = "\\"

\* The tokens that can close the quote t starts with.
Closers(t) == {i \in 2..Len(t) : t[i] = t[1] /\ (t[1] = "'" \/ Bare(t, i))}

\* Nothing follows the closing quote.
Readable(t) == Quoted(t) => Closers(t) = {Len(t)}

\* The first half of a pair \\ or \".
Escape(t, i) ==
  t[1] = "\"" /\ t[i] = "\\" /\ Bare(t, i) /\ t[i + 1] \in {"\\", "\""}

\* Between the quotes, v has the tokens of t in their order, escapes left out.
Says(t, v) ==
  LET kept == {i \in 2..(Len(t) - 1) : ~Escape(t, i)}
  IN IF ~Quoted(t)
     THEN v = [raw |-> t, quoting |-> "none"]
     ELSE /\ v.quoting = IF t[1] = "'" THEN "single" ELSE "double"
          /\ Len(v.raw) = Cardinality(kept)
          /\ \A i \in kept : v.raw[Cardinality({j \in kept : j <= i})] = t[i]

\* A line is refused only if it is no assignment or its quotes do not fit, and
\* otherwise read as what it says: which quote closes a value, what is escaped
\* before it and what may come behind it (envread.rs parse_env_str).
LinesReadRight ==
  /\ phase = "read" /\ line > 1 =>
       LET l == input.lines[line - 1]
       IN l.kind = "set" =>
            Readable(Stripped(l.text)) /\ Says(Stripped(l.text), file[l.name])
  /\ phase = "unreadable" =>
       LET l == input.lines[line]
       IN l.kind = "set" => ~Readable(Stripped(l.text))

-----------------------------------------------------------------------------
(* Meaning.                                                                *)

Count(t, c) == Cardinality({i \in DOMAIN t : t[i] = c})

\* Every brace in d belongs to a reference in d.
Balanced(d) ==
  /\ Count(d, "${") = Count(d, "}")
  /\ \A i \in DOMAIN d : Count(SubSeq(d, 1, i), "${") >= Count(SubSeq(d, 1, i), "}")

\* The ways to see t as a reference followed by a rest.
Readings(t) ==
  {[name |-> n, default |-> {}, rest |-> SubSeq(t, 4, Len(t))] :
     n \in {m \in Names : Len(t) >= 3 /\ SubSeq(t, 1, 3) = <<"${", m, "}">>}}
  \cup {[name |-> p[1], default |-> {SubSeq(t, 4, p[2] - 1)},
         rest |-> SubSeq(t, p[2] + 1, Len(t))] :
          p \in {q \in Names \X (4..Len(t)) :
                   /\ SubSeq(t, 1, 3) = <<"${", q[1], ":-">>
                   /\ t[q[2]] = "}"
                   /\ Balanced(SubSeq(t, 4, q[2] - 1))}}

\* An expansion, and one thing after the other: the first that stands in the
\* way is what both come to.
Has(x) == [is |-> "text", text |-> x]
Then(m, more) ==
  IF m.is # "text" THEN m ELSE IF more.is # "text" THEN more ELSE Has(m.text \o more.text)

\* What a reference comes to where `known` has some of the values, and what its
\* default means is known as well.
Answer(r, known, meaning) ==
  IF r.name \notin DOMAIN map /\ r.default = {} THEN [is |-> "undefined"]
  ELSE IF r.name \in DOMAIN map /\ r.name \notin DOMAIN known
  THEN [is |-> "needs", name |-> r.name]
  ELSE IF r.name \in DOMAIN known /\ (known[r.name] # <<>> \/ r.default = {})
  THEN Has(known[r.name])
  ELSE meaning[CHOOSE d \in r.default : TRUE]

\* What t means there: its expansion, or the first thing that stands in its way.
Meaning(t, known) ==
  LET meaning[u \in Text] ==
        IF u = <<>> THEN Has(<<>>)
        ELSE IF u[1] # "${" THEN Then(Has(<<u[1]>>), meaning[Tail(u)])
        ELSE IF Readings(u) = {} THEN [is |-> "malformed"]
        ELSE LET r == CHOOSE x \in Readings(u) : TRUE
             IN Then(Answer(r, known, meaning), meaning[r.rest])
  IN meaning[t]

Known ==
  LET Fixed == {n \in DOMAIN map : ~Expands(n)}
      Round[k \in 0..Cardinality(Names)] ==
        IF k = 0 THEN [n \in Fixed |-> map[n].raw]
        ELSE LET old == Round[k - 1]
                 M == [n \in DOMAIN map \ DOMAIN old |-> Meaning(map[n].raw, old)]
             IN Over([n \in {m \in DOMAIN M : M[m].is = "text"} |-> M[n].text], old)
  IN Round[Cardinality(Names)]

\* Why the values that never become known do not.
Obstacle == [n \in DOMAIN map \ DOMAIN Known |-> Meaning(map[n].raw, Known)]

\* The program is started exactly with what the values mean, whatever the
\* order in which they are visited and whatever defaults they nest; exec fails
\* only if some value means nothing, and reports a cycle only if there is one
\* (envread.rs resolve, resolve_entry, expand).
ExpansionExact ==
  /\ phase \in {"started", "notExecuted"} => memo = Known
  /\ phase = "started" =>
       \A n \in DOMAIN child :
         \/ n \in DOMAIN input.parent /\ (InFiles(n) => ~input.envFileOverrides)
         \/ child[n] = memo[n]
  /\ phase \in {"malformed", "undefined"} => \E n \in DOMAIN Obstacle : Obstacle[n].is = phase
  /\ phase = "circular" =>
       \E S \in SUBSET DOMAIN Obstacle :
         S # {} /\ \A n \in S : Obstacle[n].is = "needs" /\ Obstacle[n].name \in S

-----------------------------------------------------------------------------
(* Liveness.                                                               *)

\* exec is one sequential program; only its own steps are needed.
FairSpec == Spec /\ WF_vars(Next)

\* exec starts the program or fails, however the values refer to each other
\* (envread.rs resolve_entry: every cycle is noticed).
Ends == <>(phase \in Failures \cup {"started"})
=============================================================================
