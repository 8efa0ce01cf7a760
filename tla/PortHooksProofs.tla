--------------------------- MODULE PortHooksProofs ---------------------------
(***************************************************************************)
(* What init, unhook and deinit make of hook files, for hooks of any       *)
(* length, any values of core.hooksPath and any number of processes: an    *)
(* installed hook is current, an installation can be undone, no hook of    *)
(* others is written, and the state is well formed.                        *)
(***************************************************************************)
EXTENDS PortHooks, TLAPS, WellFoundedInduction

-----------------------------------------------------------------------------
(* Induction, and what Keep keeps.                                         *)

\* Smaller, as a set of pairs.
Below == {ss \in Nat \X Nat : ss[1] < ss[2]}

\* Below is well-founded.
LEMMA BelowWF == IsWellFoundedOn(Below, Nat)
<1>1. OpToRel(<,Nat) = Below
  BY Zenon DEF OpToRel, Below
<1> QED BY <1>1, NatLessThanWellFounded, Zenon

\* A set of numbers has a least element.
LEMMA Least ==
  ASSUME NEW T \in SUBSET Nat, T # {}
  PROVE  \E n \in T : \A m \in T : n <= m
<1>2. PICK x \in T : \A y \in T : ~ (<<y, x>> \in Below)
  BY BelowWF, WFMin
<1>3. ASSUME NEW y \in T PROVE x <= y
  <2>1. x \in Nat /\ y \in Nat
    OBVIOUS
  <2>2. <<y,x>> \in Below <=> y < x
    BY <2>1 DEF Below
  <2> QED BY <1>2, <2>1, <2>2
<1> QED BY <1>3

\* Induction, with a set in the place of a predicate.
LEMMA Induct ==
  ASSUME NEW T, 0 \in T, \A n \in Nat : n \in T => n + 1 \in T
  PROVE  Nat \subseteq T
<1> SUFFICES ASSUME Nat \ T # {} PROVE FALSE
  OBVIOUS
<1>1. PICK n \in Nat \ T : \A m \in Nat \ T : n <= m
  BY Least
<1>2. n # 0 /\ n - 1 \in Nat
  BY <1>1
<1>3. n - 1 \in T
  BY <1>1, <1>2
<1> QED BY <1>1, <1>2, <1>3

\* g[n] is what is left of the first n lines of s.
KeptUpTo(s, K, g, m) ==
  g = [n \in 0..m |-> IF n = 0 THEN <<>>
                      ELSE IF n \in K THEN Append(g[n - 1], s[n]) ELSE g[n - 1]]

\* There is such a function, whatever the length.
LEMMA StepsExist ==
  ASSUME NEW s, NEW K, NEW m \in Nat
  PROVE  \E g : KeptUpTo(s, K, g, m)
<1> DEFINE T == {n \in Nat : \E g : KeptUpTo(s, K, g, n)}
<1>1. 0 \in T
  <2>1. KeptUpTo(s, K, [n \in 0..0 |-> <<>>], 0)
    BY DEF KeptUpTo
  <2> QED BY <2>1
<1>2. ASSUME NEW n \in Nat, n \in T PROVE n + 1 \in T
  <2>1. PICK g : KeptUpTo(s, K, g, n)
    BY <1>2
  <2> DEFINE h == [i \in 0..(n + 1) |->
                   IF i # n + 1 THEN g[i] ELSE IF i \in K THEN Append(g[n], s[i]) ELSE g[n]]
  <2>2. \A i \in 0..n :
          g[i] = IF i = 0 THEN <<>>
                 ELSE IF i \in K THEN Append(g[i - 1], s[i]) ELSE g[i - 1]
    BY <2>1 DEF KeptUpTo
  <2>3. ASSUME NEW i \in 0..(n + 1)
       PROVE  h[i] = IF i = 0 THEN <<>>
                     ELSE IF i \in K THEN Append(h[i - 1], s[i]) ELSE h[i - 1]
    <3>1. CASE i = n + 1
      <4>1. h[i - 1] = g[n] /\ h[i] = IF i \in K THEN Append(g[n], s[i]) ELSE g[n]
        BY <3>1
      <4> QED BY <4>1, <3>1
    <3>2. CASE i # n + 1
      <4>1. h[i] = g[i] /\ i \in 0..n /\ (i # 0 => h[i - 1] = g[i - 1])
        BY <3>2
      <4> HIDE DEF h
      <4> QED BY <4>1, <2>2
    <3> QED BY <3>1, <3>2
  <2>4. KeptUpTo(s, K, h, n + 1)
    BY <2>3 DEF KeptUpTo
  <2> QED BY <2>4
<1> HIDE DEF T
<1>3. m \in T
  BY <1>1, <1>2, Induct
<1> QED BY <1>3 DEF T

\* Keep is its last value.
LEMMA KeepIs ==
  ASSUME NEW s, NEW K, Len(s) \in Nat
  PROVE  \E g : KeptUpTo(s, K, g, Len(s)) /\ Keep(s, K) = g[Len(s)]
<1> DEFINE g == CHOOSE g : KeptUpTo(s, K, g, Len(s))
<1>1. KeptUpTo(s, K, g, Len(s))
  BY StepsExist
<1>2. Keep(s, K) = g[Len(s)]
  BY DEF Keep, KeptUpTo
<1> QED BY <1>1, <1>2

-----------------------------------------------------------------------------
(* Hook files.                                                             *)

\* What is put together.
LEMMA Joined ==
  ASSUME NEW S, NEW s \in Seq(S), NEW t \in Seq(S)
  PROVE  /\ s \o t \in Seq(S)
         /\ Len(s \o t) = Len(s) + Len(t)
         /\ \A i \in 1..(Len(s) + Len(t)) :
              (s \o t)[i] = IF i <= Len(s) THEN s[i] ELSE t[i - Len(s)]
  OBVIOUS

\* A part of a sequence.
LEMMA Part ==
  ASSUME NEW S, NEW s \in Seq(S), NEW a \in 1..(Len(s) + 1), NEW b \in (a - 1)..Len(s)
  PROVE  /\ SubSeq(s, a, b) \in Seq(S)
         /\ Len(SubSeq(s, a, b)) = b + 1 - a
         /\ \A i \in 1..(b + 1 - a) : SubSeq(s, a, b)[i] = s[a + i - 1]
  OBVIOUS

\* Equal sequences.
LEMMA Same ==
  ASSUME NEW S, NEW s \in Seq(S), NEW t \in Seq(S), Len(s) = Len(t),
         \A i \in 1..Len(s) : s[i] = t[i]
  PROVE  s = t
  OBVIOUS

\* What portool writes.
LEMMA CallBlock ==
  ASSUME NEW call \in Calls
  PROVE  /\ Script(call) \in Seq(Line) /\ Owned(Script(call))
         /\ Managed(call) \in Seq(Line) /\ Len(Managed(call)) = 3
         /\ Managed(call)[1] = "begin"
         /\ Managed(call)[2] = call
         /\ Managed(call)[3] = "end"
         /\ call \notin {"begin", "end", "owned"}
<1>1. /\ {"begin", "end", "sh", "owned", "exit", call} \subseteq Line
      /\ call \notin {"begin", "end", "owned"}
  BY DEF Line, Calls, Shebangs
<1>2. Script(call) \in Seq(Line) /\ Owned(Script(call))
  BY <1>1 DEF Script, Owned
<1>3. Managed(call) \in Seq(Line) /\ Len(Managed(call)) = 3
  BY <1>1 DEF Managed
<1>4. Managed(call)[1] = "begin" /\ Managed(call)[2] = call /\ Managed(call)[3] = "end"
  BY DEF Managed
<1> QED BY <1>1, <1>2, <1>3, <1>4

\* One pair of markers.
LEMMA ValidMarkers ==
  ASSUME NEW s \in Seq(Line), Valid(s)
  PROVE  \E b, e \in 1..Len(s) :
           /\ b < e /\ The(At(s, "begin")) = b /\ The(At(s, "end")) = e
           /\ \A i \in 1..Len(s) : (s[i] = "begin" => i = b) /\ (s[i] = "end" => i = e)
           /\ s[b] = "begin" /\ s[e] = "end"
<1>1. PICK b, e \in DOMAIN s : At(s, "begin") = {b} /\ At(s, "end") = {e} /\ b < e
  BY DEF Valid
<1>2. The(At(s, "begin")) = b /\ The(At(s, "end")) = e
  BY <1>1 DEF The
<1>3. DOMAIN s = 1..Len(s)
  OBVIOUS
<1>4. \A i \in 1..Len(s) : (s[i] = "begin" <=> i = b) /\ (s[i] = "end" <=> i = e)
  BY <1>1, <1>3 DEF At
<1> QED BY <1>1, <1>2, <1>3, <1>4

\* A block between lines without markers: what refresh, migration and
\* insertion all come to.
Unmarked(s) == s \in Seq(Line) /\ \A i \in 1..Len(s) : s[i] \notin {"begin", "end"}
\* ... that do not make a file portool's own by themselves,
NotOwned(a) == Len(a) >= 2 => a[2] # "owned"
\* and the file.
Wrapped(a, call, c) == a \o Managed(call) \o c

\* No exit and no foreign interpreter, that would keep a shell from the block,
Clean(a) == \A i \in 1..Len(a) : a[i] \notin {"exit", "other"}
\* or that has a line of portool's behind it.
Ahead(s) ==
  \A i, j \in 1..Len(s) : j < i /\ s[j] \in {"exit", "other"} => s[i] \notin Legacy \cup {"begin"}

\* Such a file is no script of portool's; its one block is the one put there,
\* and what is left without the block is what stood around it.
LEMMA WrappedIs ==
  ASSUME NEW call \in Calls, NEW a, Unmarked(a), NotOwned(a), NEW c, Unmarked(c)
  PROVE  LET s == Wrapped(a, call, c)
         IN /\ s \in Seq(Line)
            /\ ~Owned(s) /\ Valid(s)
            /\ Region(s) = Managed(call)
            /\ Replaced(s, <<>>) = a \o c
<1> DEFINE m == Managed(call)
           am == a \o m
           s == am \o c
           n == Len(a)
<1>1. a \in Seq(Line) /\ c \in Seq(Line) /\ n \in Nat /\ Len(c) \in Nat
  BY DEF Unmarked
<1>2. /\ m \in Seq(Line) /\ Len(m) = 3 /\ m[1] = "begin" /\ m[2] = call /\ m[3] = "end"
      /\ call \notin {"begin", "end", "owned"}
  BY CallBlock
<1> HIDE DEF m
<1>3. /\ am \in Seq(Line) /\ Len(am) = n + 3
      /\ \A i \in 1..(n + 3) : am[i] = IF i <= n THEN a[i] ELSE m[i - n]
  <2>1. /\ am \in Seq(Line) /\ Len(am) = Len(a) + Len(m)
        /\ \A i \in 1..(Len(a) + Len(m)) : am[i] = IF i <= Len(a) THEN a[i] ELSE m[i - Len(a)]
    BY <1>1, <1>2, Joined
  <2> HIDE DEF am
  <2> QED BY <1>2, <2>1
<1> HIDE DEF am
<1>4. /\ s \in Seq(Line) /\ Len(s) = n + 3 + Len(c)
      /\ \A i \in 1..(n + 3 + Len(c)) : s[i] = IF i <= n + 3 THEN am[i] ELSE c[i - (n + 3)]
  <2>1. /\ s \in Seq(Line) /\ Len(s) = Len(am) + Len(c)
        /\ \A i \in 1..(Len(am) + Len(c)) : s[i] = IF i <= Len(am) THEN am[i] ELSE c[i - Len(am)]
    <3>1. am \in Seq(Line) /\ c \in Seq(Line)
      BY <1>1, <1>3
    <3> QED BY <3>1, Joined
  <2> HIDE DEF s
  <2> QED BY <1>3, <2>1
<1>5. Wrapped(a, call, c) = s
  BY DEF Wrapped, am, m
<1> HIDE DEF s, n
<1>6. /\ \A i \in 1..n : s[i] = a[i]
      /\ s[n + 1] = "begin" /\ s[n + 2] = call /\ s[n + 3] = "end"
      /\ \A i \in (n + 4)..Len(s) : s[i] = c[i - (n + 3)]
  BY <1>1, <1>2, <1>3, <1>4
<1>7. \A i \in 1..Len(s) : (s[i] = "begin" <=> i = n + 1) /\ (s[i] = "end" <=> i = n + 3)
  <2> TAKE i \in 1..Len(s)
  <2>1. CASE i <= n
    BY <2>1, <1>1, <1>6 DEF Unmarked, n
  <2>2. CASE i \in {n + 1, n + 2, n + 3}
    BY <2>2, <1>1, <1>2, <1>6
  <2>3. CASE i \in (n + 4)..Len(s)
    <3>1. i - (n + 3) \in 1..Len(c)
      BY <2>3, <1>1, <1>4
    <3> QED BY <2>3, <3>1, <1>1, <1>6 DEF Unmarked
  <2> QED BY <2>1, <2>2, <2>3, <1>1, <1>4
<1>8. DOMAIN s = 1..Len(s) /\ n + 1 \in 1..Len(s) /\ n + 3 \in 1..Len(s)
  BY <1>1, <1>4
<1>9. At(s, "begin") = {n + 1} /\ At(s, "end") = {n + 3}
  BY <1>7, <1>8 DEF At
<1>10. Valid(s)
  BY <1>1, <1>8, <1>9 DEF Valid
<1>11. The(At(s, "begin")) = n + 1 /\ The(At(s, "end")) = n + 3
  BY <1>9 DEF The
<1>12. ~Owned(s)
  <2>1. CASE n >= 2
    BY <2>1, <1>1, <1>6 DEF Owned, NotOwned, n
  <2>2. CASE n \in {0, 1}
    <3>1. s[2] \in {"begin", call}
      BY <2>2, <1>6
    <3> QED BY <3>1, <1>2 DEF Owned
  <2> QED BY <2>1, <2>2, <1>1
<1>13. Region(s) = m
  <2> DEFINE r == SubSeq(s, n + 1, n + 3)
  <2>1. r \in Seq(Line) /\ Len(r) = 3 /\ \A i \in 1..3 : r[i] = s[n + i]
    <3>1. n + 1 \in 1..(Len(s) + 1) /\ n + 3 \in (n + 1 - 1)..Len(s) /\ n + 3 + 1 - (n + 1) = 3
      BY <1>1, <1>8
    <3>2. \A i \in 1..3 : n + 1 + i - 1 = n + i
      BY <1>1
    <3> DEFINE x == n + 1
               y == n + 3
    <3>3. /\ SubSeq(s, x, y) \in Seq(Line) /\ Len(SubSeq(s, x, y)) = y + 1 - x
          /\ \A i \in 1..(y + 1 - x) : SubSeq(s, x, y)[i] = s[x + i - 1]
      <4> HIDE DEF x, y
      <4> QED BY <3>1, <1>4, Part DEF x, y
    <3> HIDE DEF r
    <3> QED BY <3>1, <3>2, <3>3 DEF r
  <2>2. Region(s) = r
    BY <1>11 DEF Region
  <2> HIDE DEF r
  <2>3. \A i \in 1..3 : r[i] = m[i]
    BY <2>1, <1>2, <1>6
  <2> QED BY <1>2, <2>1, <2>2, <2>3, Same
<1>14. Before(s) = a
  <2> DEFINE r == SubSeq(s, 1, n)
  <2>1. r \in Seq(Line) /\ Len(r) = n /\ \A i \in 1..n : r[i] = s[i]
    <3>1. 1 \in 1..(Len(s) + 1) /\ n \in (1 - 1)..Len(s) /\ n + 1 - 1 = n
      BY <1>1, <1>4
    <3>2. \A i \in 1..n : 1 + i - 1 = i
      BY <1>1
    <3> QED BY <3>1, <3>2, <1>4, Part
  <2>2. Before(s) = r
    BY <1>1, <1>11 DEF Before
  <2> HIDE DEF r
  <2> QED BY <1>1, <1>6, <2>1, <2>2, Same DEF n
<1>15. After(s) = c
  <2> DEFINE r == SubSeq(s, n + 4, Len(s))
  <2>1. r \in Seq(Line) /\ Len(r) = Len(c) /\ \A i \in 1..Len(c) : r[i] = s[n + 3 + i]
    <3>1. /\ n + 4 \in 1..(Len(s) + 1)
          /\ Len(s) \in (n + 4 - 1)..Len(s) /\ Len(s) + 1 - (n + 4) = Len(c)
      BY <1>1, <1>4
    <3>2. \A i \in 1..Len(c) : n + 4 + i - 1 = n + 3 + i
      BY <1>1
    <3> QED BY <3>1, <3>2, <1>4, Part
  <2>2. After(s) = r
    <3>1. (n + 3) + 1 = n + 4
      BY <1>1
    <3> QED BY <3>1, <1>11 DEF After
  <2> HIDE DEF r
  <2>3. \A i \in 1..Len(c) : r[i] = c[i]
    <3> TAKE i \in 1..Len(c)
    <3>1. n + 3 + i \in (n + 4)..Len(s) /\ n + 3 + i - (n + 3) = i
      BY <1>1, <1>4
    <3> DEFINE k == n + 3 + i
    <3>2. r[i] = s[k]
      BY <2>1
    <3>4. k - (n + 3) = i
      BY <1>1
    <3> HIDE DEF k
    <3>3. s[k] = c[k - (n + 3)]
      BY <3>1, <1>6 DEF k
    <3> QED BY <3>2, <3>3, <3>4
  <2> QED BY <1>1, <2>1, <2>2, <2>3, Same
<1>16. Replaced(s, <<>>) = a \o c
  <2>1. a \o <<>> = a
    BY <1>1
  <2> QED BY <2>1, <1>14, <1>15 DEF Replaced
<1> QED BY <1>4, <1>5, <1>10, <1>12, <1>13, <1>16 DEF m

\* What holds of every line that is kept holds of the result.
LEMMA KeptType ==
  ASSUME NEW S, NEW R, NEW s \in Seq(S), NEW K, \A i \in 1..Len(s) : i \in K => s[i] \in R
  PROVE  Keep(s, K) \in Seq(R)
<1>1. PICK g : KeptUpTo(s, K, g, Len(s)) /\ Keep(s, K) = g[Len(s)]
  BY KeepIs
<1>2. \A n \in 0..Len(s) :
        g[n] = IF n = 0 THEN <<>> ELSE IF n \in K THEN Append(g[n - 1], s[n]) ELSE g[n - 1]
  BY <1>1 DEF KeptUpTo
<1> DEFINE T == {n \in Nat : n <= Len(s) => g[n] \in Seq(R)}
<1>3. 0 \in T
  <2>1. Len(s) \in Nat /\ <<>> \in Seq(R)
    OBVIOUS
  <2>2. g[0] = <<>>
    BY <1>2, <2>1
  <2> QED BY <2>1, <2>2
<1>4. ASSUME NEW n \in Nat, n \in T PROVE n + 1 \in T
  <2> SUFFICES ASSUME n + 1 <= Len(s) PROVE g[n + 1] \in Seq(R)
    OBVIOUS
  <2>1. g[n] \in Seq(R) /\ n + 1 \in 1..Len(s)
    BY <1>4
  <2>2. g[n + 1] = IF n + 1 \in K THEN Append(g[n], s[n + 1]) ELSE g[n]
    BY <1>2, <2>1
  <2> QED BY <2>1, <2>2
<1> HIDE DEF T
<1>5. Len(s) \in T
  BY <1>3, <1>4, Induct
<1> QED BY <1>1, <1>5 DEF T

\* What stays when portool's appended lines go.
LEMMA WithoutLegacyIs ==
  ASSUME NEW R, NEW s \in Seq(R)
  PROVE  WithoutLegacy(s) \in Seq(R)
  BY KeptType DEF WithoutLegacy

\* A text file.
LEMMA TextIs ==
  ASSUME NEW x \in BOOLEAN, NEW s \in Seq(Line)
  PROVE  /\ Text(x, s) \in File
         /\ Text(x, s).state = "text" /\ Text(x, s).lines = s /\ Text(x, s).exec = x
  BY DEF Text, File

\* No file.
LEMMA AbsentIs == Absent \in File /\ Absent.state = "absent" /\ Absent.lines = <<>>
  BY DEF Absent, Other, File

\* The fields of a file determine it.
LEMMA FileIs ==
  ASSUME NEW f \in File
  PROVE  /\ f.state \in {"absent", "symlink", "unreadable", "text"}
         /\ f.lines \in Seq(Line) /\ f.exec \in BOOLEAN
         /\ f.state = "text" => f = Text(f.exec, f.lines)
         /\ f.state = "absent" => f = Absent
<1>1. CASE f \in [state : {"absent", "symlink", "unreadable"}, exec : {FALSE}, lines : {<<>>}]
  <2>1. f.state \in {"absent", "symlink", "unreadable"} /\ f.exec = FALSE /\ f.lines = <<>>
    BY <1>1
  <2>2. f = [state |-> f.state, exec |-> FALSE, lines |-> <<>>]
    BY <1>1
  <2>3. f.lines \in Seq(Line) /\ f.exec \in BOOLEAN
    <3>1. <<>> \in Seq(Line) /\ FALSE \in BOOLEAN
      OBVIOUS
    <3> QED BY <2>1, <3>1
  <2>4. f.state = "absent" => f = Absent
    BY <2>2 DEF Absent, Other
  <2> QED BY <2>1, <2>3, <2>4
<1>2. CASE f \in [state : {"text"}, exec : BOOLEAN, lines : Seq(Line)]
  BY <1>2 DEF Text, Absent, Other
<1> QED BY <1>1, <1>2 DEF File

\* What an install leaves: portool's own script, or the block in its place.
Settled(s, call) ==
  \/ s = Script(call)
  \/ \E a, c : Unmarked(a) /\ NotOwned(a) /\ Unmarked(c) /\ s = Wrapped(a, call, c)

\* What stands around a valid block has no markers.
LEMMA ReplacedIs ==
  ASSUME NEW s \in Seq(Line), Valid(s), ~Owned(s)
  PROVE  /\ Unmarked(Before(s)) /\ NotOwned(Before(s)) /\ Unmarked(After(s))
<1>1. PICK b, e \in 1..Len(s) :
           /\ b < e /\ The(At(s, "begin")) = b /\ The(At(s, "end")) = e
           /\ \A i \in 1..Len(s) : (s[i] = "begin" => i = b) /\ (s[i] = "end" => i = e)
           /\ s[b] = "begin" /\ s[e] = "end"
  BY ValidMarkers
<1>2. Len(s) \in Nat
  OBVIOUS
<1>3. /\ Before(s) \in Seq(Line) /\ Len(Before(s)) = b - 1
      /\ \A i \in 1..(b - 1) : Before(s)[i] = s[i]
  <2> DEFINE r == SubSeq(s, 1, b - 1)
  <2>1. r \in Seq(Line) /\ Len(r) = b - 1 /\ \A i \in 1..(b - 1) : r[i] = s[i]
    <3>1. 1 \in 1..(Len(s) + 1) /\ b - 1 \in (1 - 1)..Len(s) /\ b - 1 + 1 - 1 = b - 1
      BY <1>2
    <3>2. \A i \in 1..(b - 1) : 1 + i - 1 = i
      BY <1>2
    <3> QED BY <3>1, <3>2, Part
  <2> QED BY <1>1, <2>1 DEF Before
<1>4. /\ After(s) \in Seq(Line) /\ Len(After(s)) = Len(s) - e
      /\ \A i \in 1..(Len(s) - e) : After(s)[i] = s[e + i]
  <2> DEFINE r == SubSeq(s, e + 1, Len(s))
  <2>1. r \in Seq(Line) /\ Len(r) = Len(s) - e /\ \A i \in 1..(Len(s) - e) : r[i] = s[e + i]
    <3>1. /\ e + 1 \in 1..(Len(s) + 1)
          /\ Len(s) \in (e + 1 - 1)..Len(s) /\ Len(s) + 1 - (e + 1) = Len(s) - e
      BY <1>2
    <3>2. \A i \in 1..(Len(s) - e) : e + 1 + i - 1 = e + i
      BY <1>2
    <3> QED BY <3>1, <3>2, Part
  <2> QED BY <1>1, <2>1 DEF After
<1>5. Unmarked(Before(s))
  BY <1>1, <1>2, <1>3 DEF Unmarked
<1>6. Unmarked(After(s))
  <2> SUFFICES ASSUME NEW i \in 1..(Len(s) - e) PROVE s[e + i] \notin {"begin", "end"}
    BY <1>2, <1>4 DEF Unmarked
  <2>1. e + i \in 1..Len(s) /\ e + i # b /\ e + i # e
    BY <1>1, <1>2
  <2> QED BY <1>1, <2>1
<1>7. NotOwned(Before(s))
  BY <1>2, <1>3 DEF NotOwned, Owned
<1> QED BY <1>5, <1>6, <1>7

\* A file without markers.
LEMMA NoMarkersIs ==
  ASSUME NEW s \in Seq(Line), NoMarkers(s), ~Owned(s)
  PROVE  Unmarked(s) /\ NotOwned(s)
  BY DEF NoMarkers, At, Unmarked, NotOwned, Owned

\* Migration puts one block in the place of the first appended line.
LEMMA MigratedIs ==
  ASSUME NEW s \in Seq(Line), NoMarkers(s), ~Owned(s), HasLegacy(s), NEW call \in Calls
  PROVE  Settled(Migrated(s, Managed(call)), call)
<1> DEFINE IsFirst(i) == i \in DOMAIN s /\ IsLegacy(s[i]) /\ \A j \in 1..(i - 1) : ~IsLegacy(s[j])
           first == CHOOSE i \in DOMAIN s : IsLegacy(s[i]) /\ \A j \in 1..(i - 1) : ~IsLegacy(s[j])
           a == SubSeq(s, 1, first - 1)
           rest == SubSeq(s, first + 1, Len(s))
           U == Line \ {"begin", "end"}
<1>1. Len(s) \in Nat /\ DOMAIN s = 1..Len(s) /\ Unmarked(s) /\ NotOwned(s)
  BY NoMarkersIs
<1>2. s \in Seq(U)
  BY <1>1 DEF Unmarked
<1>3. first \in 1..Len(s)
  <2> DEFINE T == {i \in 1..Len(s) : IsLegacy(s[i])}
  <2>1. T \in SUBSET Nat /\ T # {}
    BY <1>1 DEF HasLegacy
  <2>2. PICK i \in T : \A j \in T : i <= j
    BY <2>1, Least
  <2>3. IsFirst(i)
    BY <1>1, <2>2
  <2> QED BY <1>1, <2>3
<1> HIDE DEF first, U
<1>4. a \in Seq(U) /\ Len(a) = first - 1 /\ \A i \in 1..(first - 1) : a[i] = s[i]
  <2>1. 1 \in 1..(Len(s) + 1) /\ first - 1 \in (1 - 1)..Len(s) /\ first - 1 + 1 - 1 = first - 1
    BY <1>1, <1>3
  <2>2. \A i \in 1..(first - 1) : 1 + i - 1 = i
    BY <1>3
  <2> QED BY <1>2, <2>1, <2>2, Part
<1>5. rest \in Seq(U)
  <2>1. first + 1 \in 1..(Len(s) + 1) /\ Len(s) \in (first + 1 - 1)..Len(s)
    BY <1>1, <1>3
  <2> QED BY <1>2, <2>1, Part
<1> HIDE DEF a, rest
<1>6. WithoutLegacy(rest) \in Seq(U)
  BY <1>5, WithoutLegacyIs
<1>7. \A t \in Seq(U) : Unmarked(t)
  BY DEF U, Unmarked
<1>8. NotOwned(a)
  BY <1>1, <1>3, <1>4 DEF NotOwned
<1>9. Migrated(s, Managed(call)) = Wrapped(a, call, WithoutLegacy(rest))
  BY DEF Migrated, Wrapped, a, rest, first
<1> QED BY <1>4, <1>6, <1>7, <1>8, <1>9 DEF Settled

\* Inserted: the block is put between two parts of the file.
LEMMA InsertedIs ==
  ASSUME NEW s \in Seq(Line), NoMarkers(s), ~Owned(s), Shell(s), NEW call \in Calls
  PROVE  \E a, c : /\ Unmarked(a) /\ NotOwned(a) /\ Unmarked(c)
                   /\ Inserted(s, Managed(call)) = Wrapped(a, call, c)
                   /\ a \o c = s /\ Clean(a)
<1>1. Unmarked(s) /\ NotOwned(s) /\ Len(s) \in Nat \ {0} /\ s[1] \in Line
  BY NoMarkersIs DEF Shell
<1>2. CASE s[1] \in Shebangs
  <2> DEFINE a == <<s[1]>>
             c == Tail(s)
  <2>1. a \in Seq(Line) /\ Len(a) = 1 /\ a[1] = s[1]
    BY <1>1
  <2>2. c \in Seq(Line) /\ Len(c) = Len(s) - 1 /\ \A i \in 1..(Len(s) - 1) : c[i] = s[i + 1]
    BY <1>1
  <2> HIDE DEF a, c
  <2>3. Unmarked(a) /\ NotOwned(a)
    BY <1>1, <2>1 DEF Unmarked, NotOwned
  <2>4. Unmarked(c)
    BY <1>1, <2>2 DEF Unmarked
  <2>5. a \o c = s
    <3>1. /\ a \o c \in Seq(Line) /\ Len(a \o c) = Len(a) + Len(c)
          /\ \A i \in 1..(Len(a) + Len(c)) :
                (a \o c)[i] = IF i <= Len(a) THEN a[i] ELSE c[i - Len(a)]
      <4>1. a \in Seq(Line) /\ c \in Seq(Line)
        BY <2>1, <2>2
      <4> QED BY <4>1, Joined
    <3>2. Len(a \o c) = Len(s)
      BY <3>1, <2>1, <2>2, <1>1
    <3>3. \A i \in 1..Len(s) : (a \o c)[i] = s[i]
      BY <3>1, <2>1, <2>2, <1>1
    <3> QED BY <3>1, <3>2, <3>3, Same
  <2>6. Inserted(s, Managed(call)) = Wrapped(a, call, c)
    BY <1>2 DEF Inserted, Wrapped, a, c
  <2>7. Clean(a)
    BY <1>2, <2>1 DEF Clean, Shell, Shebangs
  <2> QED BY <2>3, <2>4, <2>5, <2>6, <2>7
<1>3. CASE s[1] \notin Shebangs
  <2>1. Unmarked(<<>>) /\ NotOwned(<<>>) /\ <<>> \o s = s /\ Clean(<<>>)
    BY DEF Unmarked, NotOwned, Clean
  <2>2. <<>> \o Managed(call) = Managed(call)
    BY CallBlock
  <2>3. Inserted(s, Managed(call)) = Wrapped(<<>>, call, s)
    BY <1>3, <2>2 DEF Inserted, Wrapped
  <2> QED BY <1>1, <2>1, <2>3
<1> QED BY <1>2, <1>3

\* A settled file is current.
LEMMA SettledIs ==
  ASSUME NEW call \in Calls, NEW s, Settled(s, call)
  PROVE  /\ s \in Seq(Line)
         /\ Installed(Text(TRUE, s), call) = Result(Text(TRUE, s), "current")
<1> DEFINE f == Text(TRUE, s)
<1>1. f.state = "text" /\ f.lines = s
  BY DEF Text
<1>2. CASE s = Script(call)
  BY <1>2, CallBlock DEF Installed, Text
<1>3. ASSUME NEW a, NEW c, Unmarked(a) /\ NotOwned(a) /\ Unmarked(c) /\ s = Wrapped(a, call, c)
      PROVE  /\ s \in Seq(Line)
             /\ Installed(Text(TRUE, s), call) = Result(Text(TRUE, s), "current")
  <2>1. s \in Seq(Line) /\ ~Owned(s) /\ Valid(s) /\ Region(s) = Managed(call)
    BY <1>3, WrappedIs
  <2>2. ~Malformed(s) /\ ~NoMarkers(s)
    BY <2>1 DEF Malformed, NoMarkers, Valid
  <2> QED BY <1>1, <2>1, <2>2 DEF Installed
<1> QED BY <1>2, <1>3 DEF Settled

\* What install_into may decide.
LEMMA InstalledIs ==
  ASSUME NEW f \in File, NEW call \in Calls
  PROVE  LET r == Installed(f, call)
         IN \/ r = Result(f, "skipped")
            \/ r = Result(f, "manual")
            \/ /\ f.state = "text"
               /\ r = Result(Text(TRUE, f.lines), "current")
            \/ /\ f.state \in {"absent", "text"}
               /\ \E t : Settled(t, call) /\ r = Result(Text(TRUE, t), "installed")
<1> DEFINE r == Installed(f, call)
           s == f.lines
           Written(t) == Result(Text(TRUE, t), "installed")
<1>1. f.state \in {"absent", "symlink", "unreadable", "text"} /\ s \in Seq(Line)
  BY FileIs
<1>9. CASE f.state = "symlink"
  BY <1>9 DEF Installed
<1>10. CASE f.state = "unreadable"
  BY <1>10 DEF Installed
<1>3. Settled(Script(call), call)
  BY DEF Settled
<1>4. CASE f.state = "absent"
  BY <1>3, <1>4 DEF Installed
<1>5. CASE f.state = "text" /\ Owned(s)
  BY <1>3, <1>5 DEF Installed
<1>6. CASE f.state = "text" /\ ~Owned(s) /\ Malformed(s)
  <2>1. ~Valid(s) /\ ~NoMarkers(s)
    BY <1>6 DEF Malformed
  <2> QED BY <1>6, <2>1 DEF Installed
<1>7. CASE f.state = "text" /\ ~Owned(s) /\ Valid(s)
  <2>1. ~Malformed(s) /\ ~NoMarkers(s)
    BY <1>7 DEF Malformed, NoMarkers, Valid
  <2>2. Settled(Replaced(s, Managed(call)), call)
    <3>1. Replaced(s, Managed(call)) = Wrapped(Before(s), call, After(s))
      BY DEF Replaced, Wrapped
    <3> QED BY <1>1, <1>7, <3>1, ReplacedIs DEF Settled
  <2>3. r = Result(Text(TRUE, s), "current") \/ r = Written(Replaced(s, Managed(call)))
    BY <1>7, <2>1 DEF Installed
  <2> QED BY <1>7, <2>2, <2>3
<1>8. CASE f.state = "text" /\ ~Owned(s) /\ NoMarkers(s)
  <2>1. ~Malformed(s) /\ ~Valid(s)
    BY <1>8 DEF Malformed, NoMarkers, Valid
  <2>2. CASE HasLegacy(s)
    <3>1. r = Written(Migrated(s, Managed(call)))
      BY <1>8, <2>1, <2>2 DEF Installed
    <3> QED BY <1>1, <1>8, <2>2, <3>1, MigratedIs
  <2>3. CASE ~HasLegacy(s) /\ Shell(s)
    <3>1. r = Written(Inserted(s, Managed(call)))
      BY <1>8, <2>1, <2>3 DEF Installed
    <3>2. Settled(Inserted(s, Managed(call)), call)
      BY <1>1, <1>8, <2>3, InsertedIs DEF Settled
    <3>3. \E t : Settled(t, call) /\ r = Result(Text(TRUE, t), "installed")
      <4> HIDE DEF r
      <4> QED BY <3>1, <3>2
    <3> QED BY <1>8, <3>3
  <2>4. CASE ~HasLegacy(s) /\ ~Shell(s)
    BY <1>8, <2>1, <2>4 DEF Installed
  <2> QED BY <2>2, <2>3, <2>4
<1> QED BY <1>1, <1>4, <1>5, <1>6, <1>7, <1>8, <1>9, <1>10 DEF Malformed

\* What deinit_hook may decide.
LEMMA RemovedIs ==
  ASSUME NEW f \in File
  PROVE  LET r == Removed(f)
         IN \/ \E o \in {"skipped", "error", "notFound", "manual"} : r = Result(f, o)
            \/ f.state = "text" /\ r = Result(Absent, "removed")
            \/ /\ f.state = "text"
               /\ \E t \in Seq(Line) : r = Result(Text(f.exec, t), "removed")
<1> DEFINE r == Removed(f)
           s == f.lines
<1>1. f.state \in {"absent", "symlink", "unreadable", "text"} /\ s \in Seq(Line)
  BY FileIs
<1>2. CASE f.state = "symlink"
  BY <1>2 DEF Removed
<1>3. CASE f.state = "unreadable"
  BY <1>3 DEF Removed
<1>4. CASE f.state = "absent"
  BY <1>4 DEF Removed
<1>5. CASE f.state = "text" /\ Owned(s)
  BY <1>5 DEF Removed
<1>6. CASE f.state = "text" /\ ~Owned(s) /\ Malformed(s)
  <2>1. ~Valid(s) /\ ~NoMarkers(s)
    BY <1>6 DEF Malformed
  <2> QED BY <1>6, <2>1 DEF Removed
<1>7. CASE f.state = "text" /\ ~Owned(s) /\ Valid(s)
  <2>1. ~Malformed(s) /\ ~NoMarkers(s)
    BY <1>7 DEF Malformed, NoMarkers, Valid
  <2>2. Replaced(s, <<>>) \in Seq(Line)
    <3>1. Before(s) \in Seq(Line) /\ After(s) \in Seq(Line)
      BY <1>1, <1>7, ReplacedIs DEF Unmarked
    <3> QED BY <3>1 DEF Replaced
  <2>3. r = Result(Text(f.exec, Replaced(s, <<>>)), "removed")
    BY <1>7, <2>1 DEF Removed
  <2> HIDE DEF r
  <2> QED BY <1>7, <2>2, <2>3 DEF r
<1>8. CASE f.state = "text" /\ ~Owned(s) /\ NoMarkers(s)
  <2>1. ~Malformed(s) /\ ~Valid(s)
    BY <1>8 DEF Malformed, NoMarkers, Valid
  <2>2. r = Result(Text(f.exec, WithoutLegacy(s)), "removed") \/ r = Result(f, "notFound")
    BY <1>8, <2>1 DEF Removed
  <2>3. WithoutLegacy(s) \in Seq(Line)
    BY <1>1, WithoutLegacyIs
  <2> HIDE DEF r
  <2> QED BY <1>8, <2>2, <2>3 DEF r
<1> QED BY <1>1, <1>2, <1>3, <1>4, <1>5, <1>6, <1>7, <1>8 DEF Malformed

\* A hook that knows nothing of portool.
Foreign(f) == ~Mentions(f.lines) /\ \A i \in DOMAIN f.lines : f.lines[i] \notin Calls

\* Removal undoes an installation into a foreign hook.
LEMMA Undone ==
  ASSUME NEW f \in File, NEW call \in Calls, f.state \in {"absent", "text"}, Foreign(f),
         Installed(f, call).outcome = "installed"
  PROVE  LET undone == Removed(Installed(f, call).file)
         IN undone.outcome = "removed" /\ undone.file.state = f.state
            /\ undone.file.lines = f.lines
<1> DEFINE r == Installed(f, call)
           s == f.lines
<1>1. \A g, o : Result(g, o).file = g /\ Result(g, o).outcome = o
  BY DEF Result
<1>2. f.state = "absent" => s = <<>>
  BY FileIs, AbsentIs
<1>3. s \in Seq(Line)
  BY FileIs
<1>4. CASE f.state = "absent"
  <2>1. r = Result(Text(TRUE, Script(call)), "installed")
    BY <1>4 DEF Installed
  <2>2. Removed(Text(TRUE, Script(call))) = Result(Absent, "removed")
    BY CallBlock DEF Removed, Text
  <2> HIDE DEF r
  <2>3. Removed(r.file) = Result(Absent, "removed")
    BY <1>1, <2>1, <2>2
  <2> QED BY <1>1, <1>2, <1>4, <2>3, AbsentIs DEF r
<1>5. CASE f.state = "text"
  <2>1. /\ ~HasLegacy(s) /\ ~Owned(s) /\ At(s, "begin") = {}
    BY <1>3 DEF Foreign, Mentions, HasLegacy, IsLegacy, Owned, At
  <2>2. ~Valid(s)
    BY <2>1 DEF Valid
  <2>3. NoMarkers(s) /\ Shell(s)
    <3>1. ~Malformed(s)
      <4> SUFFICES ASSUME Malformed(s) PROVE FALSE
        OBVIOUS
      <4>1. ~NoMarkers(s) /\ ~Valid(s)
        BY DEF Malformed
      <4>2. r = Result(f, "manual")
        BY <1>5, <2>1, <4>1 DEF Installed
      <4> QED BY <1>1, <4>2
    <3>2. NoMarkers(s)
      BY <2>2, <3>1 DEF Malformed
    <3>3. ASSUME ~Shell(s) PROVE FALSE
      <4>1. r = Result(f, "manual")
        BY <1>5, <2>1, <2>2, <3>1, <3>2, <3>3 DEF Installed
      <4> QED BY <1>1, <4>1
    <3> QED BY <3>2, <3>3
  <2>4. r = Result(Text(TRUE, Inserted(s, Managed(call))), "installed")
    BY <1>5, <2>1, <2>2, <2>3 DEF Installed, Malformed
  <2>5. PICK a, c : /\ Unmarked(a) /\ NotOwned(a) /\ Unmarked(c)
                    /\ Inserted(s, Managed(call)) = Wrapped(a, call, c)
                    /\ a \o c = s
    BY <1>3, <2>1, <2>3, InsertedIs
  <2> DEFINE w == Wrapped(a, call, c)
             g == Text(TRUE, w)
  <2>6. ~Owned(w) /\ Valid(w) /\ Replaced(w, <<>>) = s
    BY <2>5, WrappedIs
  <2>7. g.state = "text" /\ g.lines = w /\ g.exec = TRUE
    BY DEF Text
  <2>8. ~Malformed(w) /\ ~NoMarkers(w)
    BY <2>6 DEF Malformed, NoMarkers, Valid
  <2>9. Removed(g) = Result(Text(TRUE, s), "removed")
    <3> HIDE DEF g, w, s
    <3> QED BY <2>6, <2>7, <2>8 DEF Removed
  <2>10. Text(TRUE, s).state = "text" /\ Text(TRUE, s).lines = s
    BY DEF Text
  <2>11. r = Result(g, "installed")
    BY <2>4, <2>5
  <2> DEFINE v == Text(TRUE, s)
  <2> HIDE DEF r, g, v
  <2>12. Removed(r.file) = Result(v, "removed")
    BY <1>1, <2>9, <2>11 DEF v
  <2>13. Removed(r.file).outcome = "removed" /\ Removed(r.file).file = v
    BY <1>1, <2>12
  <2>14. v.state = "text" /\ v.lines = s
    BY <2>10 DEF v
  <2> QED BY <1>5, <2>13, <2>14 DEF r
<1> QED BY <1>4, <1>5

-----------------------------------------------------------------------------
(* The inductive invariant.                                                *)

\* A directory that a walk from its boundary reaches without leaving it.
Near(h) == ~WriteRefused(h) /\ HasBoundary(h)

\* The steps at which the ledger's lock is held.
Section == {"removeEnv", "drop"}
\* The steps that have a hook before them.
AtHook == {"locate", "readHook", "writeHook"}
\* The steps of a process.
Places == {"idle", "locate", "readHook", "writeHook", "verify", "lock",
          "removeEnv", "drop", "readExclude", "writeExclude", "sync", "report"}
\* The lines of info/exclude.
ExcludeLine == {"comment", "ignore", "other"}

\* A file that may be renamed over or made executable.
Plain(f) == f.state \in {"absent", "text"}

\* What a process that is about to write relies on.
Ready(j, step, hk) ==
  /\ step \in AtHook => j.todo # <<>>
  /\ step = "writeHook" => /\ Near(j.path)
                           /\ Plain(j.plan) /\ Plain(hk[j.path.dir][Head(j.todo)])

\* The inductive invariant.
HooksInv ==
  /\ TypeOK
  /\ \A p, q \in lock : p = q
  /\ \A p \in Processes : Ready(job[p], pc[p], hook)

\* Which files are plain stays as it is.
StaysPlain == \A d \in Dirs, n \in Names : Plain(hook[d][n]) => Plain(hook'[d][n])

\* What a process relies on outlives the steps of others.
LEMMA ReadyStays ==
  ASSUME NEW j \in Job, NEW step, Ready(j, step, hook), StaysPlain
  PROVE  Ready(j, step, hook')
<1>1. step \in AtHook => j.todo # <<>>
  BY DEF Ready
<1>2. ASSUME step = "writeHook"
      PROVE  Near(j.path) /\ Plain(j.plan) /\ Plain(hook'[j.path.dir][Head(j.todo)])
  <2>1. j.todo \in Seq(Names) /\ j.path.dir \in Dirs
    BY DEF Job, HookPath
  <2>2. j.todo # <<>>
    BY <1>1, <1>2 DEF AtHook
  <2>3. Head(j.todo) \in Names
    BY <2>1, <2>2
  <2> QED BY <1>2, <2>1, <2>3 DEF Ready, StaysPlain
<1> QED BY <1>1, <1>2 DEF Ready

\* One process gets on.
LEMMA GetsOn ==
  ASSUME HooksInv, NEW p \in Processes,
         NEW step \in Places, pc' = [pc EXCEPT ![p] = step],
         NEW j \in Job, job' = [job EXCEPT ![p] = j],
         UNCHANGED world,
         hook' \in Hooks, StaysPlain, exclude' \in Seq(ExcludeLine),
         allocated' \in BOOLEAN, env' \in BOOLEAN, overlapped' \subseteq Processes,
         Ready(j, step, hook'),
         step \in Section => lock' = {p} /\ lock \subseteq {p},
         step \notin Section => lock' = lock \ {p}
  PROVE  HooksInv'
<1>1. /\ path \in HookPaths /\ binary \in Binaries /\ edits \in 0..MaxEdits
      /\ pc \in [Processes -> Places] /\ job \in [Processes -> Job]
      /\ lock = {q \in Processes : pc[q] \in Section}
  BY DEF HooksInv, TypeOK, Places, Section
<1>2. pc' \in [Processes -> Places] /\ job' \in [Processes -> Job]
  BY <1>1
<1>3. /\ pc'[p] = step /\ job'[p] = j
      /\ \A q \in Processes : q # p => pc'[q] = pc[q] /\ job'[q] = job[q]
  BY <1>1
<1>4. lock' = {q \in Processes : pc'[q] \in Section}
  BY <1>1, <1>3
<1>5. \A x, y \in lock' : x = y
  BY DEF HooksInv
<1>6. \A q \in Processes : Ready(job[q], pc[q], hook')
  BY <1>1, ReadyStays DEF HooksInv
<1>7. \A q \in Processes : Ready(job'[q], pc'[q], hook')
  <2> TAKE q \in Processes
  <2>1. CASE q = p
    BY <1>3, <2>1
  <2>2. CASE q # p
    BY <1>3, <1>6, <2>2
  <2> QED BY <2>1, <2>2
<1>8. TypeOK'
  <2>1. /\ hook' \in Hooks /\ path' \in HookPaths /\ binary' \in Binaries
        /\ edits' \in 0..MaxEdits
    BY <1>1 DEF world
  <2> QED BY <1>2, <1>4, <2>1 DEF TypeOK, Places, Section, ExcludeLine
<1> QED BY <1>5, <1>7, <1>8 DEF HooksInv, Ready, Plain

\* The parts of the invariant.
LEMMA TypesOf ==
  ASSUME HooksInv
  PROVE  /\ hook \in Hooks /\ path \in HookPaths /\ exclude \in Seq(ExcludeLine)
         /\ binary \in Binaries /\ allocated \in BOOLEAN /\ env \in BOOLEAN
         /\ edits \in 0..MaxEdits /\ overlapped \subseteq Processes
         /\ pc \in [Processes -> Places] /\ job \in [Processes -> Job]
         /\ lock = {q \in Processes : pc[q] \in Section}
         /\ \A p \in Processes : job[p] \in Job /\ Ready(job[p], pc[p], hook)
  BY DEF HooksInv, TypeOK, Places, Section, ExcludeLine

\* People's edits are counted.
LEMMA EditCounts ==
  ASSUME HooksInv
  PROVE  EditHook => edits' # edits
<1>1. MaxEdits \in Nat
  BY HooksAssumption
<1>2. edits \in 0..MaxEdits
  BY TypesOf
<1> QED BY <1>1, <1>2 DEF EditHook

\* The data of a process that has none.
LEMMA NoJobType ==
  ASSUME HooksInv \/ path \in HookPaths
  PROVE  NoJob \in Job
<1> DEFINE any == CHOOSE h \in HookPaths : TRUE
<1>1. HookPaths # {}
  BY DEF HooksInv, TypeOK
<1>2. any \in HookPaths
  BY <1>1
<1> HIDE DEF any
<1>3. any \in HookPath
  BY <1>2, HooksAssumption
<1>4. NoJob = [command |-> "sync", path |-> any, todo |-> <<>>,
          plan |-> Absent, last |-> "notFound", outcome |-> "notFound",
          lines |-> <<>>, residue |-> {}]
  BY DEF NoJob, any
<1>5. /\ "sync" \in AllCommands /\ <<>> \in Seq(Names) /\ Absent \in File /\ "notFound" \in Outcome
      /\ <<>> \in Seq(ExcludeLine) /\ {} \in SUBSET Residue
  BY AbsentIs DEF AllCommands, Outcome
<1> QED BY <1>3, <1>4, <1>5 DEF Job, ExcludeLine

\* The end of a process.
LEMMA EndsType ==
  ASSUME HooksInv, NEW p \in Processes, Ends(p), UNCHANGED <<world, overlapped>>,
         hook' = hook, exclude' \in Seq(ExcludeLine),
         allocated' \in BOOLEAN, env' \in BOOLEAN
  PROVE  HooksInv'
<1>1. StaysPlain
  BY DEF StaysPlain
<1>2. Ready(NoJob, "idle", hook')
  BY DEF Ready, AtHook
<1>3. "idle" \in Places /\ "idle" \notin Section
  BY DEF Places, Section
<1>4. NoJob \in Job
  BY NoJobType
<1>5. hook' \in Hooks /\ overlapped' \subseteq Processes
  BY TypesOf
<1>6. pc' = [pc EXCEPT ![p] = "idle"] /\ job' = [job EXCEPT ![p] = NoJob] /\ lock' = lock \ {p}
  BY DEF Ends
<1> HIDE DEF NoJob, HooksInv
<1> QED BY <1>1, <1>2, <1>3, <1>4, <1>5, <1>6, GetsOn

\* The end of a process that changes no file.
LEMMA FailsType ==
  ASSUME HooksInv, NEW p \in Processes, Fails(p), UNCHANGED <<world, overlapped>>
  PROVE  HooksInv'
  BY TypesOf, EndsType DEF Fails, files

\* A process outside of deinit's section stays outside.
LEMMA GoesType ==
  ASSUME HooksInv, NEW p \in Processes, pc[p] \notin Section,
         NEW step \in Places \ Section, Goes(p, step),
         NEW j \in Job, job' = [job EXCEPT ![p] = j],
         Ready(j, step, hook'), hook' \in Hooks, StaysPlain,
         exclude' \in Seq(ExcludeLine), allocated' \in BOOLEAN, env' \in BOOLEAN,
         UNCHANGED <<world, overlapped>>
  PROVE  HooksInv'
<1>1. lock = lock \ {p}
  BY TypesOf
<1>2. overlapped' \subseteq Processes
  BY TypesOf
<1>3. pc' = [pc EXCEPT ![p] = step] /\ lock' = lock \ {p}
  BY <1>1 DEF Goes
<1> QED BY <1>2, <1>3, GetsOn

\* A command starts.
LEMMA StartType ==
  ASSUME HooksInv, NEW p \in Processes, NEW c \in AllCommands, Start(p, c)
  PROVE  HooksInv'
<1> DEFINE j == [NoJob EXCEPT !.command = c, !.path = path, !.todo = InOrder]
           step == FirstStep(c)
<1>1. j \in Job
  <2>1. NoJob \in Job /\ path \in HookPath /\ InOrder \in Seq(Names)
    <3>1. path \in HookPath
      BY HooksAssumption, TypesOf
    <3>2. InOrder \in Seq(Names)
      BY DEF InOrder, Names
    <3> QED BY <3>1, <3>2, NoJobType
  <2> QED BY <2>1 DEF Job
<1>2. j.todo = InOrder
  <2>1. NoJob \in Job
    BY NoJobType
  <2> QED BY <2>1 DEF Job
<1>3. step \in Places \ Section /\ step # "writeHook"
  BY DEF FirstStep, AllCommands, Places, Section
<1>4. Ready(j, step, hook')
  <2>1. InOrder # <<>>
    BY DEF InOrder
  <2> HIDE DEF j, step
  <2> QED BY <1>2, <1>3, <2>1 DEF Ready
<1>5. /\ UNCHANGED <<files, world, lock>> /\ pc[p] = "idle"
      /\ pc' = [pc EXCEPT ![p] = step] /\ job' = [job EXCEPT ![p] = j]
      /\ overlapped' \subseteq Processes
  BY DEF Start
<1>6. /\ hook' \in Hooks /\ exclude' \in Seq(ExcludeLine)
      /\ allocated' \in BOOLEAN /\ env' \in BOOLEAN
      /\ hook' = hook
  BY <1>5, TypesOf DEF files
<1>7. lock' = lock \ {p}
  BY <1>5, TypesOf DEF Section
<1>8. StaysPlain
  BY <1>6 DEF StaysPlain
<1> HIDE DEF j, step
<1> QED BY <1>1, <1>3, <1>4, <1>5, <1>6, <1>7, <1>8, GetsOn

\* The job of a process whose hook is dealt with, and its next step.
LEMMA DoneType ==
  ASSUME HooksInv, NEW p \in Processes, pc[p] \in {"readHook", "writeHook"},
         NEW last \in Outcome, Done(p, last),
         hook' \in Hooks, StaysPlain,
         UNCHANGED <<exclude, allocated, env, world, overlapped>>
  PROVE  HooksInv'
<1> DEFINE name == Head(job[p].todo)
           step == IF Len(job[p].todo) > 1 THEN "readHook" ELSE AfterHooks(job[p].command)
           j == [job[p] EXCEPT !.todo = Tail(@), !.plan = Absent, !.last = "notFound",
                               !.outcome = IF name = "post-checkout" THEN last ELSE @]
<1>1. job[p] \in Job /\ job[p].todo \in Seq(Names) /\ job[p].todo # <<>>
  BY TypesOf DEF Job, Ready, AtHook
<1>2. Tail(job[p].todo) \in Seq(Names) /\ Len(Tail(job[p].todo)) = Len(job[p].todo) - 1
  BY <1>1
<1>3. j \in Job /\ j.todo = Tail(job[p].todo)
  <2>1. "notFound" \in Outcome /\ Absent \in File
    BY AbsentIs DEF Outcome
  <2> DEFINE outcome == IF name = "post-checkout" THEN last ELSE job[p].outcome
             rest == Tail(job[p].todo)
  <2>2. outcome \in Outcome /\ rest \in Seq(Names)
    BY <1>1, <1>2 DEF Job
  <2>3. j = [job[p] EXCEPT !.todo = rest, !.plan = Absent, !.last = "notFound", !.outcome = outcome]
    BY <1>1 DEF Job
  <2> HIDE DEF outcome, rest, name
  <2>4. j \in Job /\ j.todo = rest
    BY <1>1, <2>1, <2>2, <2>3 DEF Job
  <2> QED BY <2>4 DEF rest
<1>4. step \in {"readHook", "readExclude", "report", "verify"}
  BY DEF AfterHooks
<1>5. step \in AtHook => Len(job[p].todo) > 1
  BY DEF AfterHooks, AtHook
<1>6. pc' = [pc EXCEPT ![p] = step] /\ job' = [job EXCEPT ![p] = j] /\ Goes(p, step)
  BY DEF Done, Goes
<1>7. exclude' \in Seq(ExcludeLine) /\ allocated' \in BOOLEAN /\ env' \in BOOLEAN
  BY TypesOf
<1> HIDE DEF step, j
<1>8. step \in Places \ Section /\ pc[p] \notin Section
  BY <1>4 DEF Places, Section
<1>9. Ready(j, step, hook')
  <2>1. ASSUME step \in AtHook PROVE j.todo # <<>>
    BY <1>1, <1>2, <1>3, <1>5, <2>1
  <2> QED BY <1>4, <2>1 DEF Ready
<1> QED BY <1>3, <1>6, <1>7, <1>8, <1>9, GoesType

\* init looks for the hooks.
LEMMA LocateType ==
  ASSUME HooksInv, NEW p \in Processes, Locate(p)
  PROVE  HooksInv'
<1>1. UNCHANGED <<world, overlapped>> /\ pc[p] = "locate" /\ pc[p] \notin Section
  BY DEF Locate, Section
<1>2. CASE Fails(p)
  BY <1>1, <1>2, FailsType
<1>3. CASE ~Fails(p)
  <2>1. UNCHANGED files
    BY <1>3 DEF Locate
  <2>2. /\ hook' = hook /\ hook' \in Hooks /\ exclude' \in Seq(ExcludeLine)
        /\ allocated' \in BOOLEAN /\ env' \in BOOLEAN
    BY <2>1, TypesOf DEF files
  <2>3. StaysPlain
    BY <2>2 DEF StaysPlain
  <2>4. job[p] \in Job /\ job[p].todo # <<>> /\ job = [job EXCEPT ![p] = job[p]]
    BY <1>1, TypesOf DEF Ready, AtHook
  <2>5. CASE Goes(p, "readHook") /\ UNCHANGED job
    <3>1. Ready(job[p], "readHook", hook')
      BY <2>4 DEF Ready
    <3>2. "readHook" \in Places \ Section
      BY DEF Places, Section
    <3>3. job' = [job EXCEPT ![p] = job[p]]
      BY <2>4, <2>5
    <3> QED BY <1>1, <2>2, <2>3, <2>4, <2>5, <3>1, <3>2, <3>3, GoesType
  <2>6. CASE Goes(p, AfterHooks(job[p].command)) /\ job' = [job EXCEPT ![p].outcome = "current"]
    <3> DEFINE j == [job[p] EXCEPT !.outcome = "current"]
               step == AfterHooks(job[p].command)
    <3>1. j \in Job
      BY <2>4 DEF Job, Outcome
    <3>2. step \in Places \ (Section \cup AtHook)
      BY DEF AfterHooks, Places, Section, AtHook
    <3>3. Ready(j, step, hook')
      BY <3>2 DEF Ready, AtHook
    <3>4. job' = [job EXCEPT ![p] = j] /\ Goes(p, step)
      BY <2>6
    <3> HIDE DEF j, step
    <3> QED BY <1>1, <2>2, <2>3, <3>1, <3>2, <3>3, <3>4, GoesType
  <2> QED BY <1>3, <2>5, <2>6 DEF Locate
<1> QED BY <1>2, <1>3

\* What one read decides.
LEMMA DecisionType ==
  ASSUME HooksInv, NEW p \in Processes, NEW f \in File
  PROVE  LET r == IF Installing(p) THEN Installed(f, binary) ELSE Removed(f)
         IN /\ r.file \in File /\ r.outcome \in Outcome
            /\ r.file # f => Plain(f) /\ Plain(r.file)
<1> DEFINE r == IF Installing(p) THEN Installed(f, binary) ELSE Removed(f)
<1>1. binary \in Calls
  BY HooksAssumption, TypesOf
<1>2. \A g, o : Result(g, o).file = g /\ Result(g, o).outcome = o
  BY DEF Result
<1>3. f.lines \in Seq(Line) /\ f.exec \in BOOLEAN
  BY FileIs
<1>4. {"skipped", "manual", "error", "notFound", "current",
       "installed", "removed"} \subseteq Outcome
  BY DEF Outcome
<1>5. CASE Installing(p)
  <2>1. r = Installed(f, binary)
    BY <1>5
  <2> HIDE DEF r
  <2>2. CASE r = Result(f, "skipped") \/ r = Result(f, "manual")
    BY <1>2, <1>4, <2>2 DEF r
  <2>3. CASE f.state = "text" /\ r = Result(Text(TRUE, f.lines), "current")
    <3>1. Text(TRUE, f.lines) \in File /\ Plain(Text(TRUE, f.lines)) /\ Plain(f)
      BY <1>3, <2>3, TextIs DEF Plain
    <3>2. r.file = Text(TRUE, f.lines) /\ r.outcome = "current"
      BY <1>2, <2>3
    <3>3. r.file \in File /\ r.outcome \in Outcome /\ (r.file # f => Plain(f) /\ Plain(r.file))
      BY <1>4, <3>1, <3>2
    <3> QED BY <3>3 DEF r
  <2>4. ASSUME f.state \in {"absent", "text"},
               NEW t, Settled(t, binary), r = Result(Text(TRUE, t), "installed")
        PROVE  r.file \in File /\ r.outcome \in Outcome /\ (r.file # f => Plain(f) /\ Plain(r.file))
    <3>1. t \in Seq(Line)
      BY <1>1, <2>4, SettledIs
    <3>2. Text(TRUE, t) \in File /\ Plain(Text(TRUE, t)) /\ Plain(f)
      BY <2>4, <3>1, TextIs DEF Plain
    <3> QED BY <1>2, <1>4, <2>4, <3>2
  <2>5. \/ r = Result(f, "skipped") \/ r = Result(f, "manual")
        \/ f.state = "text" /\ r = Result(Text(TRUE, f.lines), "current")
        \/ /\ f.state \in {"absent", "text"}
           /\ \E t : Settled(t, binary) /\ r = Result(Text(TRUE, t), "installed")
    BY <1>1, <2>1, InstalledIs
  <2>6. r.file \in File /\ r.outcome \in Outcome /\ (r.file # f => Plain(f) /\ Plain(r.file))
    BY <1>2, <1>4, <2>2, <2>3, <2>4, <2>5 DEF r
  <2> QED BY <2>6 DEF r
<1>6. CASE ~Installing(p)
  <2>1. r = Removed(f)
    BY <1>6
  <2> HIDE DEF r
  <2>2. \/ \E o \in {"skipped", "error", "notFound", "manual"} : r = Result(f, o)
        \/ f.state = "text" /\ r = Result(Absent, "removed")
        \/ /\ f.state = "text"
           /\ \E t \in Seq(Line) : r = Result(Text(f.exec, t), "removed")
    BY <2>1, RemovedIs
  <2>3. CASE \E o \in {"skipped", "error", "notFound", "manual"} : r = Result(f, o)
    BY <1>2, <1>4, <2>3 DEF r
  <2>4. CASE f.state = "text" /\ r = Result(Absent, "removed")
    BY <1>2, <1>4, <2>4, AbsentIs DEF r, Plain
  <2>5. CASE f.state = "text" /\ \E t \in Seq(Line) : r = Result(Text(f.exec, t), "removed")
    <3>1. PICK t \in Seq(Line) : r = Result(Text(f.exec, t), "removed")
      BY <2>5
    <3>2. Text(f.exec, t) \in File /\ Plain(Text(f.exec, t)) /\ Plain(f)
      BY <1>3, <2>5, TextIs DEF Plain
    <3>3. r.file \in File /\ r.outcome \in Outcome /\ (r.file # f => Plain(f) /\ Plain(r.file))
      BY <1>2, <1>4, <3>1, <3>2
    <3> QED BY <3>3 DEF r
  <2> QED BY <2>2, <2>3, <2>4, <2>5
<1> QED BY <1>5, <1>6

\* A write is planned only where it will not be refused, and of a plain file.
LEMMA ReadHookType ==
  ASSUME HooksInv, NEW p \in Processes, ReadHook(p)
  PROVE  HooksInv'
<1> DEFINE h == job[p].path
           f == hook[h.dir][Head(job[p].todo)]
           r == IF Installing(p) THEN Installed(f, binary) ELSE Removed(f)
           j == [job[p] EXCEPT !.plan = r.file, !.last = r.outcome]
<1>1. /\ UNCHANGED <<files, world, overlapped>> /\ pc[p] = "readHook"
      /\ UNCHANGED <<exclude, allocated, env>> /\ hook' = hook
  BY DEF ReadHook, files
<1>2. /\ hook' \in Hooks /\ exclude' \in Seq(ExcludeLine)
      /\ allocated' \in BOOLEAN /\ env' \in BOOLEAN /\ StaysPlain
  BY <1>1, TypesOf DEF StaysPlain
<1>3. job[p] \in Job /\ job[p].todo \in Seq(Names) /\ job[p].todo # <<>> /\ h.dir \in Dirs
  BY <1>1, TypesOf DEF Job, HookPath, Ready, AtHook
<1>4. Head(job[p].todo) \in Names
  BY <1>3
<1>5. f \in File
  BY <1>3, <1>4, TypesOf DEF Hooks
<1>6. r.file \in File /\ r.outcome \in Outcome /\ (r.file # f => Plain(f) /\ Plain(r.file))
  BY <1>5, DecisionType
<1>7. CASE Ends(p)
  BY <1>1, <1>2, <1>7, EndsType
<1>8. CASE \E last \in {"notFound", "manual", "skipped", r.outcome} : Done(p, last)
  <2> HIDE DEF r
  <2>1. PICK last \in Outcome : Done(p, last)
    BY <1>6, <1>8 DEF Outcome
  <2> QED BY <1>1, <1>2, <2>1, DoneType
<1>9. CASE Near(h) /\ r.file # f /\ Goes(p, "writeHook") /\ job' = [job EXCEPT ![p] = j]
  <2>1. j \in Job /\ j.plan = r.file /\ j.todo = job[p].todo /\ j.path = h
    <3> HIDE DEF r
    <3> QED BY <1>3, <1>6 DEF Job
  <2>2. Ready(j, "writeHook", hook')
    <3> HIDE DEF r
    <3>1. Plain(j.plan) /\ Plain(f) /\ j.todo # <<>>
      BY <1>3, <1>6, <1>9, <2>1
    <3> HIDE DEF j
    <3>2. f = hook'[j.path.dir][Head(j.todo)]
      BY <1>1, <2>1
    <3>3. Near(j.path)
      BY <1>9, <2>1 DEF j
    <3> QED BY <3>1, <3>2, <3>3 DEF Ready
  <2>3. "writeHook" \in Places \ Section /\ pc[p] \notin Section
    BY <1>1 DEF Places, Section
  <2> HIDE DEF j
  <2> QED BY <1>1, <1>2, <1>9, <2>1, <2>2, <2>3, GoesType
<1>10. \/ \E last \in {"notFound", "manual", "skipped", r.outcome} : Done(p, last)
       \/ Ends(p)
       \/ Near(h) /\ r.file # f /\ Goes(p, "writeHook") /\ job' = [job EXCEPT ![p] = j]
  BY DEF ReadHook, Near
<1> QED BY <1>7, <1>8, <1>9, <1>10

\* What is written is a file, and plain as before.
LEMMA WriteHookType ==
  ASSUME HooksInv, NEW p \in Processes, WriteHook(p)
  PROVE  HooksInv'
<1> DEFINE d == job[p].path.dir
           n == Head(job[p].todo)
           inPlace == job[p].last = "current" \/ job[p].plan = Absent
           new == IF job[p].last = "current" THEN [hook[d][n] EXCEPT !.exec = TRUE]
                  ELSE job[p].plan
<1>1. UNCHANGED <<world, overlapped>> /\ pc[p] = "writeHook"
  BY DEF WriteHook
<1>2. /\ job[p] \in Job /\ job[p].todo \in Seq(Names) /\ job[p].todo # <<>> /\ d \in Dirs
      /\ Plain(job[p].plan) /\ Plain(hook[d][n])
  BY <1>1, TypesOf DEF Job, HookPath, Ready, AtHook
<1>3. n \in Names
  BY <1>2
<1>4. job[p].last \in Outcome /\ job[p].plan \in File /\ hook[d][n] \in File
  BY <1>2, <1>3, TypesOf DEF Job, Hooks
<1>5. CASE Fails(p)
  BY <1>1, <1>5, FailsType
<1>6. CASE /\ ~(inPlace /\ hook[d][n] = Absent)
           /\ hook' = [hook EXCEPT ![d][n] = new] /\ Done(p, job[p].last)
           /\ UNCHANGED <<exclude, allocated, env>>
  <2>1. new \in File /\ Plain(new)
    <3>1. CASE job[p].last = "current"
      <4> DEFINE f == hook[d][n]
      <4>1. f.state = "text"
        <5>1. f.state \in {"absent", "text"} /\ f # Absent
          BY <1>2, <1>6, <3>1 DEF Plain
        <5>2. f \in File
          BY <1>4
        <5> HIDE DEF f
        <5> QED BY <5>1, <5>2, FileIs
      <4>2. f = Text(f.exec, f.lines) /\ f.lines \in Seq(Line)
        BY <1>4, <4>1, FileIs
      <4>3. new = Text(TRUE, f.lines)
        <5>1. new = [f EXCEPT !.exec = TRUE]
          BY <3>1
        <5> DEFINE lines == f.lines
                   exec == f.exec
        <5> HIDE DEF new
        <5>2. f = Text(exec, lines)
          BY <4>2
        <5> HIDE DEF f, lines, exec
        <5>3. new = Text(TRUE, lines)
          BY <5>1, <5>2 DEF Text
        <5> QED BY <5>3 DEF lines
      <4> HIDE DEF new, f
      <4> QED BY <4>2, <4>3, TextIs DEF Plain
    <3>2. CASE job[p].last # "current"
      BY <1>2, <1>4, <3>2
    <3> QED BY <3>1, <3>2
  <2> HIDE DEF new, d, n
  <2>2. hook \in Hooks
    BY TypesOf
  <2>3. hook' \in Hooks /\ hook'[d][n] = new
    BY <1>2, <1>3, <1>6, <2>1, <2>2 DEF Hooks
  <2>4. \A e \in Dirs, m \in Names : e # d \/ m # n => hook'[e][m] = hook[e][m]
    BY <1>2, <1>3, <1>6, <2>2 DEF Hooks
  <2>5. StaysPlain
    BY <2>1, <2>3, <2>4 DEF StaysPlain
  <2> QED BY <1>1, <1>4, <1>6, <2>3, <2>5, DoneType
<1> QED BY <1>5, <1>6 DEF WriteHook

\* A step of deinit's rest, or of the others, that has no hook before it.
LEMMA PlainStep ==
  ASSUME HooksInv, NEW p \in Processes, pc[p] \notin Section,
         NEW step \in Places \ (Section \cup AtHook), Goes(p, step),
         NEW j \in Job, job' = [job EXCEPT ![p] = j],
         UNCHANGED <<hook, world, overlapped>>,
         exclude' \in Seq(ExcludeLine), allocated' \in BOOLEAN, env' \in BOOLEAN
  PROVE  HooksInv'
<1>1. Ready(j, step, hook')
  BY DEF Ready, AtHook
<1>2. hook' \in Hooks /\ StaysPlain
  BY TypesOf DEF StaysPlain
<1> QED BY <1>1, <1>2, GoesType

\* The hooks are verified.
LEMMA VerifyType ==
  ASSUME HooksInv, NEW p \in Processes, Verify(p)
  PROVE  HooksInv'
<1> DEFINE j == [job[p] EXCEPT !.residue = Unneutralized(job[p].path)]
           step == CASE job[p].command = "unhook" -> "report"
                     [] job[p].command = "deinit" -> "lock"
                     [] OTHER -> "readExclude"
<1>1. job[p] \in Job
  BY TypesOf
<1>2. j \in Job
  <2>1. Unneutralized(job[p].path) \in SUBSET Residue
    BY DEF Unneutralized, Residue
  <2> QED BY <1>1, <2>1 DEF Job
<1>3. step \in Places \ (Section \cup AtHook) /\ pc[p] \notin Section
  BY DEF Places, Section, AtHook, Verify
<1>4. Goes(p, step) /\ job' = [job EXCEPT ![p] = j] /\ UNCHANGED <<files, world, overlapped>>
  BY DEF Verify
<1>5. /\ UNCHANGED <<hook, world, overlapped>>
      /\ exclude' \in Seq(ExcludeLine) /\ allocated' \in BOOLEAN /\ env' \in BOOLEAN
  BY <1>4, TypesOf DEF files
<1> HIDE DEF j, step
<1> QED BY <1>2, <1>3, <1>4, <1>5, PlainStep

\* deinit's section begins,
LEMMA AcquireType ==
  ASSUME HooksInv, NEW p \in Processes, Acquire(p)
  PROVE  HooksInv'
<1>1. /\ pc' = [pc EXCEPT ![p] = "removeEnv"] /\ lock = {} /\ lock' = {p}
      /\ UNCHANGED <<files, world, job, overlapped>>
  BY DEF Acquire
<1>2. /\ UNCHANGED <<hook, world, overlapped>> /\ hook' \in Hooks
      /\ exclude' \in Seq(ExcludeLine) /\ allocated' \in BOOLEAN /\ env' \in BOOLEAN
      /\ overlapped' \subseteq Processes
  BY <1>1, TypesOf DEF files
<1>3. StaysPlain
  BY <1>2 DEF StaysPlain
<1>4. job[p] \in Job /\ job' = [job EXCEPT ![p] = job[p]]
  BY <1>1, TypesOf
<1>5. Ready(job[p], "removeEnv", hook')
  BY DEF Ready, AtHook
<1>6. "removeEnv" \in Places /\ "removeEnv" \in Section
  BY DEF Places, Section
<1> QED BY <1>1, <1>2, <1>3, <1>4, <1>5, <1>6, GetsOn

\* Residue is noted in the job.
LEMMA Noted ==
  ASSUME NEW p \in Processes, job[p] \in Job, NEW what \in {"env", "allocations", "exclude"}
  PROVE  [job[p] EXCEPT !.residue = @ \cup {what}] \in Job
<1>1. job[p].residue \cup {what} \in SUBSET Residue
  BY DEF Job, Residue
<1> QED BY <1>1 DEF Job

\* goes on,
LEMMA RemoveEnvType ==
  ASSUME HooksInv, NEW p \in Processes, RemoveEnv(p)
  PROVE  HooksInv'
<1>1. job[p] \in Job /\ job = [job EXCEPT ![p] = job[p]]
  BY TypesOf
<1>2. PICK j \in Job : job' = [job EXCEPT ![p] = j]
  <2>1. [job[p] EXCEPT !.residue = @ \cup {"env"}] \in Job
    BY <1>1, Noted
  <2>2. UNCHANGED job \/ job' = [job EXCEPT ![p] = [job[p] EXCEPT !.residue = @ \cup {"env"}]]
    BY DEF RemoveEnv
  <2> QED BY <1>1, <2>1, <2>2
<1>3. /\ pc[p] = "removeEnv" /\ env' \in BOOLEAN /\ Goes(p, "drop")
      /\ UNCHANGED <<hook, exclude, allocated, world, overlapped>>
  BY TypesOf DEF RemoveEnv
<1>4. /\ hook' \in Hooks /\ exclude' \in Seq(ExcludeLine) /\ allocated' \in BOOLEAN
      /\ overlapped' \subseteq Processes /\ StaysPlain
  BY <1>3, TypesOf DEF StaysPlain
<1>5. "drop" \in Places /\ "drop" \in Section /\ "removeEnv" \in Section
  BY DEF Places, Section
<1>6. p \in lock
  BY <1>3, <1>5, TypesOf
<1>7. lock' = {p} /\ lock \subseteq {p} /\ pc' = [pc EXCEPT ![p] = "drop"]
  BY <1>3, <1>6 DEF Goes, HooksInv
<1>8. Ready(j, "drop", hook')
  BY DEF Ready, AtHook
<1> QED BY <1>2, <1>3, <1>4, <1>5, <1>7, <1>8, GetsOn

\* and ends.
LEMMA DropType ==
  ASSUME HooksInv, NEW p \in Processes, Drop(p)
  PROVE  HooksInv'
<1>1. job[p] \in Job /\ job = [job EXCEPT ![p] = job[p]]
  BY TypesOf
<1>2. PICK j \in Job : job' = [job EXCEPT ![p] = j]
  <2>1. [job[p] EXCEPT !.residue = @ \cup {"allocations"}] \in Job
    BY <1>1, Noted
  <2>2. \/ UNCHANGED job
        \/ job' = [job EXCEPT ![p] = [job[p] EXCEPT !.residue = @ \cup {"allocations"}]]
    BY DEF Drop
  <2> QED BY <1>1, <2>1, <2>2
<1>3. /\ pc[p] = "drop" /\ allocated' \in BOOLEAN /\ lock' = {}
      /\ pc' = [pc EXCEPT ![p] = "readExclude"]
      /\ UNCHANGED <<hook, exclude, env, world, overlapped>>
  BY TypesOf DEF Drop
<1>4. /\ hook' \in Hooks /\ exclude' \in Seq(ExcludeLine) /\ env' \in BOOLEAN
      /\ overlapped' \subseteq Processes /\ StaysPlain
  BY <1>3, TypesOf DEF StaysPlain
<1>5. "readExclude" \in Places /\ "readExclude" \notin Section /\ "drop" \in Section
  BY DEF Places, Section
<1>6. p \in lock
  BY <1>3, <1>5, TypesOf
<1>7. lock' = lock \ {p}
  BY <1>3, <1>6 DEF HooksInv
<1>8. Ready(j, "readExclude", hook')
  BY DEF Ready, AtHook
<1> QED BY <1>2, <1>3, <1>4, <1>5, <1>7, <1>8, GetsOn

\* info/exclude with and without portool's pair of lines.
LEMMA ExcludeTypes ==
  ASSUME NEW s \in Seq(ExcludeLine)
  PROVE  WithPair(s) \in Seq(ExcludeLine) /\ WithoutPair(s) \in Seq(ExcludeLine)
<1>1. <<"comment", "ignore">> \in Seq(ExcludeLine)
  BY DEF ExcludeLine
<1>2. WithPair(s) \in Seq(ExcludeLine)
  BY <1>1 DEF WithPair
<1>3. WithoutPair(s) \in Seq(ExcludeLine)
  BY KeptType DEF WithoutPair
<1> QED BY <1>2, <1>3

\* info/exclude is read
LEMMA ReadExcludeType ==
  ASSUME HooksInv, NEW p \in Processes, ReadExclude(p)
  PROVE  HooksInv'
<1> DEFINE new == IF Undoing(p) THEN WithoutPair(exclude) ELSE WithPair(exclude)
           after == AfterExclude(job[p].command)
<1>1. job[p] \in Job /\ job = [job EXCEPT ![p] = job[p]]
  BY TypesOf
<1>2. new \in Seq(ExcludeLine)
  BY TypesOf, ExcludeTypes
<1>3. {"writeExclude", after} \subseteq Places \ (Section \cup AtHook)
  BY DEF AfterExclude, Places, Section, AtHook
<1>4. /\ pc[p] \notin Section /\ UNCHANGED <<files, world, overlapped>>
  BY DEF ReadExclude, Section
<1>5. /\ UNCHANGED <<hook, world, overlapped>>
      /\ exclude' \in Seq(ExcludeLine) /\ allocated' \in BOOLEAN /\ env' \in BOOLEAN
  BY <1>4, TypesOf DEF files
<1>6. \E j \in Job, step \in {"writeExclude", after} :
        Goes(p, step) /\ job' = [job EXCEPT ![p] = j]
  <2>1. [job[p] EXCEPT !.residue = @ \cup {"exclude"}] \in Job
    BY <1>1, Noted
  <2>2. [job[p] EXCEPT !.lines = new] \in Job
    <3> HIDE DEF new
    <3> QED BY <1>1, <1>2 DEF Job, ExcludeLine
  <2>3. \/ Goes(p, "writeExclude") /\ job' = [job EXCEPT ![p] = [job[p] EXCEPT !.lines = new]]
        \/ Goes(p, after) /\ UNCHANGED job
        \/ Goes(p, after) /\
            job' = [job EXCEPT ![p] = [job[p] EXCEPT !.residue = @ \cup {"exclude"}]]
    BY DEF ReadExclude, ExcludeKept
  <2> HIDE DEF new, after
  <2> QED BY <1>1, <2>1, <2>2, <2>3
<1> HIDE DEF after
<1> QED BY <1>3, <1>4, <1>5, <1>6, PlainStep

\* and replaced.
LEMMA WriteExcludeType ==
  ASSUME HooksInv, NEW p \in Processes, WriteExclude(p)
  PROVE  HooksInv'
<1> DEFINE after == AfterExclude(job[p].command)
<1>1. job[p] \in Job /\ job = [job EXCEPT ![p] = job[p]]
  BY TypesOf
<1>2. after \in Places \ (Section \cup AtHook)
  BY DEF AfterExclude, Places, Section, AtHook
<1>3. /\ pc[p] \notin Section /\ UNCHANGED <<hook, allocated, env, world, overlapped>>
      /\ Goes(p, after)
  BY DEF WriteExclude, Section
<1>4. exclude' \in Seq(ExcludeLine) /\ allocated' \in BOOLEAN /\ env' \in BOOLEAN
  <2>1. job[p].lines \in Seq(ExcludeLine)
    BY <1>1 DEF Job, ExcludeLine
  <2> QED BY <1>3, <2>1, TypesOf DEF WriteExclude
<1>5. PICK j \in Job : job' = [job EXCEPT ![p] = j]
  <2>1. [job[p] EXCEPT !.residue = @ \cup {"exclude"}] \in Job
    BY <1>1, Noted
  <2>2. UNCHANGED job \/ job' = [job EXCEPT ![p] = [job[p] EXCEPT !.residue = @ \cup {"exclude"}]]
    BY DEF WriteExclude, ExcludeKept
  <2> QED BY <1>1, <2>1, <2>2
<1> HIDE DEF after
<1> QED BY <1>2, <1>3, <1>4, <1>5, PlainStep

\* A sync, as one step.
LEMMA SyncType ==
  ASSUME HooksInv, NEW p \in Processes, Sync(p)
  PROVE  HooksInv'
<1>1. job[p] \in Job /\ job' = [job EXCEPT ![p] = job[p]]
  BY TypesOf DEF Sync
<1>2. "report" \in Places \ (Section \cup AtHook) /\ pc[p] \notin Section
  BY DEF Places, Section, AtHook, Sync
<1>3. /\ UNCHANGED <<hook, world, overlapped>> /\ Goes(p, "report")
      /\ exclude' \in Seq(ExcludeLine) /\ allocated' \in BOOLEAN /\ env' \in BOOLEAN
  BY TypesOf DEF Sync
<1> QED BY <1>1, <1>2, <1>3, PlainStep

\* People edit only between commands.
LEMMA EditHookType ==
  ASSUME HooksInv, EditHook
  PROVE  HooksInv'
<1>1. PICK d \in Dirs, n \in Names :
        LET f == hook[d][n]
            Edited(lines) == hook' = [hook EXCEPT ![d][n].lines = lines]
        IN /\ f.state = "text"
           /\ \/ \E i \in 1..(Len(f.lines) + 1), l \in Inserts : Edited(InsertAt(f.lines, i, l))
              \/ \E i \in DOMAIN f.lines : f.lines[i] \in Deletes /\ Edited(RemoveAt(f.lines, i))
              \/ hook' = [hook EXCEPT ![d][n].exec = FALSE]
  BY DEF EditHook
<1> DEFINE f == hook[d][n]
           s == f.lines
<1>2. f \in File /\ s \in Seq(Line) /\ f.exec \in BOOLEAN /\ f = Text(f.exec, s)
  <2>1. f \in File
    BY TypesOf DEF Hooks
  <2> QED BY <1>1, <2>1, FileIs
<1>3. \E g \in File : hook' = [hook EXCEPT ![d][n] = g]
  <2>1. \A x \in BOOLEAN, t \in Seq(Line) : Text(x, t) \in File
    BY TextIs
  <2> DEFINE With(t) == [f EXCEPT !.lines = t]
  <2>2. \A t \in Seq(Line) : With(t) \in File
    <3> TAKE t \in Seq(Line)
    <3> DEFINE x == f.exec
               lines == f.lines
    <3>1. f = Text(x, lines) /\ x \in BOOLEAN
      BY <1>2
    <3> HIDE DEF f, x, lines
    <3>2. With(t) = Text(x, t)
      BY <3>1 DEF Text
    <3> QED BY <2>1, <3>1, <3>2
  <2>3. [f EXCEPT !.exec = FALSE] \in File
    <3> DEFINE x == f.exec
               lines == f.lines
    <3>1. f = Text(x, lines) /\ lines \in Seq(Line)
      BY <1>2
    <3> HIDE DEF f, x, lines
    <3>2. \A y : [f EXCEPT !.exec = y] = Text(y, lines)
      BY <3>1 DEF Text
    <3>3. [f EXCEPT !.exec = FALSE] = Text(FALSE, lines)
      BY <3>2, Zenon
    <3>4. Text(FALSE, lines) \in File
      BY <2>1, <3>1
    <3> QED BY <3>3, <3>4
  <2>4. ASSUME NEW i \in 1..(Len(s) + 1), NEW l \in Inserts
        PROVE  InsertAt(s, i, l) \in Seq(Line)
    <3>1. l \in Line
      BY HooksAssumption
    <3>2. SubSeq(s, 1, i - 1) \in Seq(Line) /\ SubSeq(s, i, Len(s)) \in Seq(Line)
      BY <1>2
    <3> HIDE DEF s
    <3> QED BY <3>1, <3>2 DEF InsertAt
  <2>5. ASSUME NEW i \in DOMAIN s
        PROVE  RemoveAt(s, i) \in Seq(Line)
    <3>1. SubSeq(s, 1, i - 1) \in Seq(Line) /\ SubSeq(s, i + 1, Len(s)) \in Seq(Line)
      BY <1>2
    <3> HIDE DEF s
    <3> QED BY <3>1 DEF RemoveAt
  <2>6. \/ \E t \in Seq(Line) : hook' = [hook EXCEPT ![d][n] = With(t)]
        \/ hook' = [hook EXCEPT ![d][n] = [f EXCEPT !.exec = FALSE]]
    BY <1>1, <2>4, <2>5
  <2> HIDE DEF f
  <2> QED BY <2>2, <2>3, <2>6
<1>4. hook \in Hooks /\ hook' \in Hooks
  BY <1>3, TypesOf DEF Hooks
<1>5. /\ \A p \in Processes : pc[p] = "idle"
      /\ edits' \in 0..MaxEdits
      /\ UNCHANGED <<path, binary, exclude, allocated, env, lock, pc, job, overlapped>>
  <2>1. edits \in 0..MaxEdits /\ edits < MaxEdits /\ edits' = edits + 1
    BY TypesOf DEF EditHook
  <2> QED BY <2>1, HooksAssumption DEF EditHook, Idle
<1>6. TypeOK'
  BY <1>4, <1>5 DEF HooksInv, TypeOK
<1>7. \A p \in Processes : Ready(job[p], pc[p], hook')
  BY <1>5 DEF Ready, AtHook
<1> QED BY <1>5, <1>6, <1>7 DEF HooksInv, Ready, Plain

\* People change core.hooksPath and the binary.
LEMMA SettingsType ==
  ASSUME HooksInv, SetHooksPath \/ MoveBinary
  PROVE  HooksInv'
<1>1. /\ hook' = hook /\ path' \in HookPaths /\ binary' \in Binaries /\ edits' \in 0..MaxEdits
      /\ UNCHANGED <<exclude, allocated, env, lock, pc, job, overlapped>>
  <2>1. edits \in 0..MaxEdits /\ binary \in Binaries /\ path \in HookPaths
    BY TypesOf
  <2> QED BY <2>1, HooksAssumption DEF SetHooksPath, MoveBinary, files
<1>2. TypeOK'
  BY <1>1 DEF HooksInv, TypeOK
<1> QED BY <1>1, <1>2 DEF HooksInv, Ready, Plain

\* The invariant is inductive,
LEMMA NextType ==
  ASSUME HooksInv, [Next]_vars
  PROVE  HooksInv'
<1>1. CASE UNCHANGED vars
  BY <1>1 DEF vars, files, world, HooksInv, TypeOK, Ready, Plain
<1>2. ASSUME NEW p \in Processes, NEW c \in Commands, Start(p, c)
      PROVE  HooksInv'
  BY <1>2, StartType, HooksAssumption
<1>3. ASSUME NEW p \in Processes, Checkout(p) \/ Step(p) \/ Crash(p)
      PROVE  HooksInv'
  <2>1. CASE Checkout(p)
    <3>1. Start(p, "sync") /\ "sync" \in AllCommands
      BY <2>1 DEF Checkout, AllCommands
    <3> QED BY <3>1, StartType
  <2>2. CASE Step(p)
    BY <2>2, LocateType, ReadHookType, WriteHookType, VerifyType, AcquireType, RemoveEnvType,
       DropType, ReadExcludeType, WriteExcludeType, SyncType, FailsType DEF Step, Report
  <2>3. CASE Crash(p)
    BY <2>3, FailsType DEF Crash
  <2> QED BY <1>3, <2>1, <2>2, <2>3
<1>4. CASE EditHook \/ SetHooksPath \/ MoveBinary
  BY <1>4, EditHookType, SettingsType
<1> QED BY <1>1, <1>2, <1>3, <1>4 DEF Next

\* holds at first,
LEMMA InitType ==
  ASSUME Init
  PROVE  HooksInv
<1>1. hook \in Hooks /\ path \in HookPaths /\ exclude \in Seq(ExcludeLine) /\ binary \in Binaries
  BY HooksAssumption DEF Init, ExcludeLine
<1>2. NoJob \in Job
  BY <1>1, NoJobType
<1>3. /\ pc = [p \in Processes |-> "idle"] /\ job = [p \in Processes |-> NoJob]
      /\ lock = {} /\ overlapped = {} /\ edits \in 0..MaxEdits
      /\ allocated \in BOOLEAN /\ env \in BOOLEAN
  BY HooksAssumption DEF Init
<1> HIDE DEF NoJob
<1>4. pc \in [Processes -> Places] /\ job \in [Processes -> Job]
  BY <1>2, <1>3 DEF Places
<1>5. TypeOK
  BY <1>1, <1>3, <1>4 DEF TypeOK, Places, ExcludeLine
<1> QED BY <1>3, <1>5 DEF HooksInv, Ready, AtHook


-----------------------------------------------------------------------------
(* Where hooks are written.                                                *)

\* A directory that may be written is the worktree's or the repository's own.
LEMMA NearIsHome ==
  ASSUME NEW h \in HookPath, Near(h)
  PROVE  h.dir \in Dirs /\ RealRegion[h.dir] \notin {"main", "outside"}
  BY DEF Near, WriteRefused, HasBoundary, Boundary, HookPath, RealRegion, Dirs

\* What a step does to the hooks of others.
Away == \A d \in Dirs : RealRegion[d] \in {"main", "outside"} /\ edits' = edits =>
          hook'[d] = hook[d]

\* Only WriteHook changes a hook while nobody edits, and only where its process
\* may write.
LEMMA StepsStayHome ==
  ASSUME HooksInv, [Next]_vars
  PROVE  Away
<1>1. CASE UNCHANGED hook
  BY <1>1 DEF Away
<1>2. CASE EditHook
  <2>1. edits' # edits
    BY <1>2, TypesOf, HooksAssumption DEF EditHook
  <2> QED BY <2>1 DEF Away
<1>3. ASSUME NEW p \in Processes, WriteHook(p)
      PROVE  Away
  <2> DEFINE d == job[p].path.dir
             n == Head(job[p].todo)
             new == IF job[p].last = "current" THEN [hook[d][n] EXCEPT !.exec = TRUE]
                    ELSE job[p].plan
  <2>1. CASE UNCHANGED hook
    BY <2>1 DEF Away
  <2>2. CASE hook' = [hook EXCEPT ![d][n] = new]
    <3>1. job[p].path \in HookPath /\ Near(job[p].path)
      BY <1>3, TypesOf DEF WriteHook, Job, Ready
    <3>2. d \in Dirs /\ RealRegion[d] \notin {"main", "outside"}
      BY <3>1, NearIsHome
    <3>3. \A e \in Dirs : e # d => hook'[e] = hook[e]
      <4>1. hook \in Hooks
        BY TypesOf
      <4> HIDE DEF d, n, new
      <4> QED BY <2>2, <4>1 DEF Hooks
    <3> HIDE DEF d
    <3> QED BY <3>2, <3>3 DEF Away
  <2> QED BY <1>3, <2>1, <2>2 DEF WriteHook, Fails, files
<1>4. ASSUME NEW p \in Processes, Checkout(p) \/ Step(p) \/ Crash(p), ~WriteHook(p)
      PROVE  UNCHANGED hook
  BY <1>4 DEF Checkout, Start, Step, Crash, Locate, ReadHook, Verify, Acquire, RemoveEnv, Drop,
              ReadExclude, WriteExclude, Sync, Report, Fails, files
<1>5. ASSUME NEW p \in Processes, NEW c \in Commands, Start(p, c)
      PROVE  UNCHANGED hook
  BY <1>5 DEF Start, files
<1>6. CASE SetHooksPath \/ MoveBinary \/ UNCHANGED vars
  BY <1>1, <1>6 DEF SetHooksPath, MoveBinary, vars, files
<1> QED BY <1>1, <1>2, <1>3, <1>4, <1>5, <1>6 DEF Next

-----------------------------------------------------------------------------

\* and therefore always.
LEMMA Invariance == Spec => []HooksInv
<1>1. Init => HooksInv
  BY InitType
<1>2. HooksInv /\ [Next]_vars => HooksInv'
  BY NextType
<1> QED BY <1>1, <1>2, PTL DEF Spec

\* Whatever is in the hooks, however many commands work on them at once and
\* wherever they are killed, the state is well formed and the ledger's lock is
\* held in deinit's section and nowhere else.
THEOREM HooksTyped == Spec => []TypeOK
<1>1. HooksInv => TypeOK
  BY DEF HooksInv
<1> QED BY <1>1, Invariance, PTL

\* A hook that init has written is current to the next init: refresh, migration
\* and insertion all end in one block for the binary, outside of which there are
\* neither markers nor appended lines to be found (install_into).
THEOREM InstallsSettle == Spec => []InstallSettles
<1>1. HooksInv => InstallSettles
  <2> SUFFICES ASSUME HooksInv, NEW d \in Dirs, NEW n \in Names,
                      Installed(hook[d][n], binary).outcome = "installed"
               PROVE  LET r == Installed(hook[d][n], binary)
                      IN Installed(r.file, binary) = Result(r.file, "current")
    BY DEF InstallSettles
  <2> DEFINE f == hook[d][n]
             r == Installed(f, binary)
  <2>1. f \in File /\ binary \in Calls
    BY HooksAssumption, TypesOf DEF Hooks
  <2>2. \A g, o : Result(g, o).file = g /\ Result(g, o).outcome = o
    BY DEF Result
  <2>3. \/ r = Result(f, "skipped") \/ r = Result(f, "manual")
        \/ f.state = "text" /\ r = Result(Text(TRUE, f.lines), "current")
        \/ \E t : Settled(t, binary) /\ r = Result(Text(TRUE, t), "installed")
    BY <2>1, InstalledIs
  <2> HIDE DEF r
  <2>4. r.outcome = "installed"
    BY DEF r
  <2>5. PICK t : Settled(t, binary) /\ r = Result(Text(TRUE, t), "installed")
    <3>1. r # Result(f, "skipped") /\ r # Result(f, "manual")
      BY <2>2, <2>4
    <3> DEFINE g == Text(TRUE, f.lines)
    <3> HIDE DEF g
    <3>3. r # Result(g, "current")
      BY <2>2, <2>4
    <3>2. r # Result(Text(TRUE, f.lines), "current")
      BY <3>3 DEF g
    <3> QED BY <2>3, <3>1, <3>2
  <2>6. Installed(Text(TRUE, t), binary) = Result(Text(TRUE, t), "current")
    BY <2>1, <2>5, SettledIs
  <2>7. Installed(r.file, binary) = Result(r.file, "current")
    BY <2>2, <2>5, <2>6
  <2> QED BY <2>7 DEF r
<1> QED BY <1>1, Invariance, PTL

\* What init inserts into a foreign hook, unhook removes without a trace
\* (install_into, deinit_hook).
THEOREM InstallsUndo == Spec => []InstallUndone
<1>1. HooksInv => InstallUndone
  <2> SUFFICES ASSUME HooksInv, NEW d \in Dirs, NEW n \in Names,
                      hook[d][n].state \in {"absent", "text"}, Foreign(hook[d][n]),
                      Installed(hook[d][n], binary).outcome = "installed"
               PROVE  LET undone == Removed(Installed(hook[d][n], binary).file)
                      IN undone.outcome = "removed" /\ undone.file.state = hook[d][n].state
                         /\ undone.file.lines = hook[d][n].lines
    BY DEF InstallUndone, Foreign
  <2>1. hook[d][n] \in File /\ binary \in Calls
    BY HooksAssumption, TypesOf DEF Hooks
  <2> QED BY <2>1, Undone
<1> QED BY <1>1, Invariance, PTL

\* Whatever the values of core.hooksPath, the hooks and the commands, and
\* however many run at once: no command writes a hook of the main worktree or
\* of another repository (hook_boundary and the directory walk of store.rs).
THEOREM HooksStayHome == Spec => WritesStayHome
<1>1. HooksInv /\ [Next]_vars =>
        [\A d \in Dirs : RealRegion[d] \in {"main", "outside"} /\ edits' = edits =>
           hook'[d] = hook[d]]_vars
  BY StepsStayHome DEF Away
<1> QED BY <1>1, Invariance, PTL DEF Spec, WritesStayHome

-----------------------------------------------------------------------------
(* What commands leave of a hook.                                          *)

\* What remains of a file without its block.
Remains(s) == IF Valid(s) THEN Replaced(s, <<>>) ELSE s

\* Some line is one of L.
Some(s, L) == \E i \in DOMAIN s : s[i] \in L

\* Parts have what the whole has.
LEMMA SomeJoined ==
  ASSUME NEW S, NEW s \in Seq(S), NEW t \in Seq(S), NEW L
  PROVE  Some(s \o t, L) <=> Some(s, L) \/ Some(t, L)
<1>1. /\ s \o t \in Seq(S) /\ Len(s \o t) = Len(s) + Len(t)
      /\ \A i \in 1..(Len(s) + Len(t)) :
            (s \o t)[i] = IF i <= Len(s) THEN s[i] ELSE t[i - Len(s)]
  BY Joined
<1>2. Len(s) \in Nat /\ Len(t) \in Nat /\ DOMAIN s = 1..Len(s) /\ DOMAIN t = 1..Len(t)
  OBVIOUS
<1> DEFINE u == s \o t
<1>3. DOMAIN u = 1..(Len(s) + Len(t))
  BY <1>1
<1> HIDE DEF u
<1>4. ASSUME NEW i \in DOMAIN u, u[i] \in L PROVE Some(s, L) \/ Some(t, L)
  <2>1. CASE i <= Len(s)
    BY <1>1, <1>2, <1>3, <1>4, <2>1 DEF Some, u
  <2>2. CASE i > Len(s)
    <3>1. i - Len(s) \in 1..Len(t) /\ u[i] = t[i - Len(s)]
      BY <1>1, <1>2, <1>3, <2>2 DEF u
    <3> QED BY <1>2, <1>4, <3>1 DEF Some
  <2> QED BY <1>2, <1>3, <2>1, <2>2
<1>5. ASSUME NEW i \in DOMAIN s, s[i] \in L PROVE Some(u, L)
  BY <1>1, <1>2, <1>3, <1>5 DEF Some, u
<1>6. ASSUME NEW i \in DOMAIN t, t[i] \in L PROVE Some(u, L)
  <2> DEFINE k == Len(s) + i
  <2>1. k \in DOMAIN u /\ k > Len(s) /\ k - Len(s) = i /\ k \in 1..(Len(s) + Len(t))
    BY <1>2, <1>3
  <2> HIDE DEF k
  <2>2. u[k] = t[i]
    BY <1>1, <1>2, <2>1 DEF u
  <2> QED BY <1>6, <2>1, <2>2 DEF Some
<1> QED BY <1>4, <1>5, <1>6 DEF Some, u

\* Equality, as the provers do not take sequences apart under it.
Equal(s, t) == s = t

\* A line behind both parts is one behind the second.
LEMMA AppendJoined ==
  ASSUME NEW S, NEW a \in Seq(S), NEW b \in Seq(S), NEW x \in S
  PROVE  Equal(Append(a \o b, x), a \o Append(b, x))
<1> DEFINE c == Append(b, x)
           u == Append(a \o b, x)
           v == a \o c
<1>1. /\ a \o b \in Seq(S) /\ Len(a \o b) = Len(a) + Len(b)
      /\ \A i \in 1..(Len(a) + Len(b)) :
            (a \o b)[i] = IF i <= Len(a) THEN a[i] ELSE b[i - Len(a)]
  BY Joined
<1>2. /\ c \in Seq(S) /\ Len(c) = Len(b) + 1
      /\ \A i \in 1..(Len(b) + 1) : c[i] = IF i <= Len(b) THEN b[i] ELSE x
  OBVIOUS
<1> HIDE DEF c
<1>3. /\ v \in Seq(S) /\ Len(v) = Len(a) + Len(c)
      /\ \A i \in 1..(Len(a) + Len(c)) : v[i] = IF i <= Len(a) THEN a[i] ELSE c[i - Len(a)]
  BY <1>2, Joined
<1> DEFINE w == a \o b
<1> HIDE DEF v, w
<1>4. /\ u \in Seq(S) /\ Len(u) = Len(w) + 1
      /\ \A i \in 1..(Len(w) + 1) : u[i] = IF i <= Len(w) THEN w[i] ELSE x
  BY <1>1 DEF w
<1>5. Len(a) \in Nat /\ Len(b) \in Nat
  OBVIOUS
<1> HIDE DEF u
<1>6. \A i \in 1..Len(u) : u[i] = v[i]
  <2> TAKE i \in 1..Len(u)
  <2>1. CASE i <= Len(a)
    <3>1. i \in 1..(Len(a) + Len(b)) /\ i \in 1..(Len(a) + Len(c)) /\ i <= Len(w)
      BY <1>1, <1>2, <1>4, <1>5, <2>1 DEF w
    <3>2. w[i] = a[i]
      BY <1>1, <2>1, <3>1 DEF w
    <3>3. v[i] = a[i]
      BY <1>3, <2>1, <3>1
    <3>4. u[i] = w[i]
      BY <1>4, <3>1
    <3> QED BY <3>2, <3>3, <3>4
  <2>2. CASE i > Len(a)
    <3> DEFINE k == i - Len(a)
    <3>1. k \in 1..(Len(b) + 1) /\ k \in 1..Len(c) /\ ~(i <= Len(a))
      BY <1>1, <1>2, <1>4, <1>5, <2>2 DEF w
    <3>2. v[i] = c[k]
      BY <1>1, <1>2, <1>3, <1>4, <1>5, <2>2 DEF w
    <3>3. i <= Len(w) <=> k <= Len(b)
      BY <1>1, <1>5, <2>2 DEF w
    <3>4. i <= Len(w) => w[i] = b[k]
      BY <1>1, <1>5, <2>2 DEF w
    <3>5. i \in 1..(Len(w) + 1)
      BY <1>4
    <3> HIDE DEF k
    <3> QED BY <1>2, <1>4, <3>1, <3>2, <3>3, <3>4, <3>5
  <2> QED BY <1>5, <2>1, <2>2
<1>7. Len(u) = Len(v)
  BY <1>1, <1>2, <1>3, <1>4, <1>5 DEF w
<1>8. u = v
  BY <1>3, <1>4, <1>6, <1>7, Same
<1> QED BY <1>8 DEF u, v, c, Equal

\* The lines that stay while the appended ones are filtered out.
Filter(s, g) ==
  /\ g[0] = <<>>
  /\ \A n \in 1..Len(s) : g[n] = IF IsLegacy(s[n]) THEN g[n - 1] ELSE Append(g[n - 1], s[n])

\* That is what WithoutLegacy computes,
LEMMA FilterIs ==
  ASSUME NEW S, NEW s \in Seq(S)
  PROVE  \E g : /\ Filter(s, g) /\ WithoutLegacy(s) = g[Len(s)]
                /\ \A n \in 0..Len(s) : g[n] \in Seq(S)
<1> DEFINE K == {i \in DOMAIN s : ~IsLegacy(s[i])}
<1>1. Len(s) \in Nat /\ DOMAIN s = 1..Len(s)
  OBVIOUS
<1>2. PICK g : KeptUpTo(s, K, g, Len(s)) /\ Keep(s, K) = g[Len(s)]
  BY <1>1, KeepIs
<1>3. \A n \in 0..Len(s) :
        g[n] = IF n = 0 THEN <<>> ELSE IF n \in K THEN Append(g[n - 1], s[n]) ELSE g[n - 1]
  BY <1>2 DEF KeptUpTo
<1>4. Filter(s, g)
  <2>1. 0 \in 0..Len(s) /\ \A n \in 1..Len(s) : n \in 0..Len(s) /\ n # 0
    BY <1>1
  <2>2. \A n \in 1..Len(s) : n \in K <=> ~IsLegacy(s[n])
    BY <1>1
  <2> HIDE DEF K
  <2> QED BY <1>3, <2>1, <2>2 DEF Filter
<1>5. \A n \in 0..Len(s) : g[n] \in Seq(S)
  <2> DEFINE T == {n \in Nat : n <= Len(s) => g[n] \in Seq(S)}
  <2>1. 0 \in T
    <3>1. g[0] = <<>> /\ <<>> \in Seq(S)
      BY <1>4 DEF Filter
    <3> QED BY <3>1
  <2>2. ASSUME NEW n \in Nat, n \in T PROVE n + 1 \in T
    <3> SUFFICES ASSUME n + 1 <= Len(s) PROVE g[n + 1] \in Seq(S)
      OBVIOUS
    <3>1. g[n] \in Seq(S) /\ n + 1 \in 1..Len(s) /\ (n + 1) - 1 = n
      BY <1>1, <2>2
    <3>2. g[n + 1] = IF IsLegacy(s[n + 1]) THEN g[n] ELSE Append(g[n], s[n + 1])
      BY <1>4, <3>1 DEF Filter
    <3>3. s[n + 1] \in S
      BY <3>1
    <3> QED BY <3>1, <3>2, <3>3
  <2> HIDE DEF T
  <2>3. Nat \subseteq T
    BY <2>1, <2>2, Induct
  <2> QED BY <1>1, <2>3 DEF T
<1> QED BY <1>2, <1>4, <1>5 DEF WithoutLegacy

\* part by part,
LEMMA FilteredApart ==
  ASSUME NEW S, NEW s \in Seq(S), NEW t \in Seq(S)
  PROVE  WithoutLegacy(s \o t) = WithoutLegacy(s) \o WithoutLegacy(t)
<1> DEFINE u == s \o t
           m == Len(s)
           l == Len(t)
<1>1. /\ u \in Seq(S) /\ Len(u) = m + l
      /\ \A i \in 1..(m + l) : u[i] = IF i <= m THEN s[i] ELSE t[i - m]
  BY Joined
<1>2. m \in Nat /\ l \in Nat
  OBVIOUS
<1>3. PICK g : Filter(s, g) /\ WithoutLegacy(s) = g[m] /\ \A n \in 0..m : g[n] \in Seq(S)
  BY FilterIs
<1>4. PICK h : Filter(t, h) /\ WithoutLegacy(t) = h[l] /\ \A n \in 0..l : h[n] \in Seq(S)
  BY FilterIs
<1> HIDE DEF u
<1>5. PICK f : Filter(u, f) /\ WithoutLegacy(u) = f[Len(u)]
  BY <1>1, FilterIs
<1>6. \A n \in 1..m : g[n] = IF IsLegacy(s[n]) THEN g[n - 1] ELSE Append(g[n - 1], s[n])
  BY <1>3 DEF Filter
<1>7. \A n \in 1..l : h[n] = IF IsLegacy(t[n]) THEN h[n - 1] ELSE Append(h[n - 1], t[n])
  BY <1>4 DEF Filter
<1>8. \A n \in 1..(m + l) : f[n] = IF IsLegacy(u[n]) THEN f[n - 1] ELSE Append(f[n - 1], u[n])
  BY <1>1, <1>5 DEF Filter
<1> HIDE DEF m, l
<1>9. f[m] = g[m]
  <2> DEFINE T == {n \in Nat : n <= m => f[n] = g[n]}
  <2>1. 0 \in T
    BY <1>3, <1>5 DEF Filter
  <2>2. ASSUME NEW n \in Nat, n \in T PROVE n + 1 \in T
    <3> SUFFICES ASSUME n + 1 <= m PROVE f[n + 1] = g[n + 1]
      OBVIOUS
    <3> DEFINE k == n + 1
    <3>1. f[n] = g[n] /\ k \in 1..m /\ k \in 1..(m + l) /\ k - 1 = n /\ k <= m
      BY <1>2, <2>2
    <3> HIDE DEF k
    <3>2. u[k] = s[k]
      BY <1>1, <3>1
    <3>3. f[k] = g[k]
      BY <1>6, <1>8, <3>1, <3>2, Zenon
    <3> QED BY <3>3 DEF k
  <2> HIDE DEF T
  <2>3. m \in T
    BY <1>2, <2>1, <2>2, Induct
  <2> QED BY <1>2, <2>3 DEF T
<1>10. f[m + l] = g[m] \o h[l]
  <2> DEFINE a == g[m]
             T == {n \in Nat : n <= l => f[m + n] = a \o h[n]}
  <2>1. a \in Seq(S)
    BY <1>2, <1>3
  <2> HIDE DEF a
  <2>2. 0 \in T
    <3>1. h[0] = <<>> /\ m + 0 = m /\ f[m] = a
      BY <1>2, <1>4, <1>9 DEF Filter, a
    <3>2. a \o <<>> = a
      BY <2>1
    <3>3. f[m + 0] = a \o h[0]
      BY <3>1, <3>2
    <3> QED BY <3>3
  <2>3. ASSUME NEW n \in Nat, n \in T PROVE n + 1 \in T
    <3> SUFFICES ASSUME n + 1 <= l PROVE f[m + (n + 1)] = a \o h[n + 1]
      OBVIOUS
    <3>1. f[m + n] = a \o h[n]
      BY <1>2, <2>3
    <3> DEFINE k == m + (n + 1)
               j == n + 1
               p == m + n
    <3>2. k \in 1..(m + l) /\ k - 1 = p /\ ~(k <= m) /\ k - m = j
      BY <1>2
    <3>3. j \in 1..l /\ j - 1 = n /\ n \in 0..l
      BY <1>2
    <3>4. f[p] = a \o h[n]
      BY <3>1
    <3> HIDE DEF k, j, p
    <3>5. u[k] = t[j]
      BY <1>1, <3>2
    <3>6. h[n] \in Seq(S) /\ t[j] \in S
      <4>1. j \in 1..Len(t)
        BY <3>3 DEF l
      <4> QED BY <1>4, <3>3, <4>1
    <3>7. f[k] = IF IsLegacy(t[j]) THEN f[p] ELSE Append(f[p], t[j])
      BY <1>8, <3>2, <3>5, Zenon
    <3>8. h[j] = IF IsLegacy(t[j]) THEN h[n] ELSE Append(h[n], t[j])
      BY <1>7, <3>3, Zenon
    <3>9. Append(a \o h[n], t[j]) = a \o Append(h[n], t[j])
      <4> DEFINE b == h[n]
                 x == t[j]
      <4>1. a \in Seq(S) /\ b \in Seq(S) /\ x \in S
        BY <2>1, <3>6
      <4> HIDE DEF b, x
      <4>2. Equal(Append(a \o b, x), a \o Append(b, x))
        BY <4>1, AppendJoined, Zenon
      <4> QED BY <4>2 DEF b, x, Equal
    <3>10. f[k] = a \o h[j]
      BY <3>4, <3>7, <3>8, <3>9, Zenon
    <3> QED BY <3>10 DEF k, j
  <2> HIDE DEF T
  <2>4. l \in T
    BY <1>2, <2>2, <2>3, Induct
  <2>5. f[m + l] = a \o h[l]
    BY <1>2, <2>4 DEF T
  <2> QED BY <2>5 DEF a
<1> QED BY <1>1, <1>3, <1>4, <1>5, <1>10 DEF u, m, l

\* and all of a file that has none.
LEMMA NoneFiltered ==
  ASSUME NEW S, NEW s \in Seq(S), \A i \in 1..Len(s) : ~IsLegacy(s[i])
  PROVE  WithoutLegacy(s) = s
<1>1. Len(s) \in Nat
  OBVIOUS
<1>2. PICK g : Filter(s, g) /\ WithoutLegacy(s) = g[Len(s)] /\ \A n \in 0..Len(s) : g[n] \in Seq(S)
  BY FilterIs
<1> DEFINE T == {n \in Nat : n <= Len(s) => Len(g[n]) = n /\ \A i \in 1..n : g[n][i] = s[i]}
<1>3. 0 \in T
  <2>1. g[0] = <<>>
    BY <1>2 DEF Filter
  <2> QED BY <2>1
<1>4. ASSUME NEW n \in Nat, n \in T PROVE n + 1 \in T
  <2> SUFFICES ASSUME n + 1 <= Len(s)
               PROVE  Len(g[n + 1]) = n + 1 /\ \A i \in 1..(n + 1) : g[n + 1][i] = s[i]
    OBVIOUS
  <2>1. /\ Len(g[n]) = n /\ \A i \in 1..n : g[n][i] = s[i]
        /\ n + 1 \in 1..Len(s) /\ (n + 1) - 1 = n /\ n \in 0..Len(s)
    BY <1>1, <1>4
  <2>2. g[n + 1] = Append(g[n], s[n + 1])
    BY <1>2, <2>1 DEF Filter
  <2>3. g[n] \in Seq(S) /\ s[n + 1] \in S
    BY <1>2, <2>1
  <2> DEFINE a == g[n]
  <2> HIDE DEF a
  <2>4. Len(Append(a, s[n + 1])) = n + 1
    BY <2>1, <2>3 DEF a
  <2>5. \A i \in 1..(n + 1) : Append(a, s[n + 1])[i] = IF i <= n THEN a[i] ELSE s[n + 1]
    BY <2>1, <2>3 DEF a
  <2>6. \A i \in 1..(n + 1) : Append(a, s[n + 1])[i] = s[i]
    BY <2>1, <2>5 DEF a
  <2> QED BY <2>2, <2>4, <2>6 DEF a
<1> HIDE DEF T
<1>5. Len(s) \in T
  BY <1>1, <1>3, <1>4, Induct
<1>6. /\ g[Len(s)] \in Seq(S) /\ Len(g[Len(s)]) = Len(s)
      /\ \A i \in 1..Len(s) : s[i] = g[Len(s)][i]
  BY <1>1, <1>2, <1>5 DEF T
<1> DEFINE r == g[Len(s)]
<1> HIDE DEF r
<1>7. s = r
  BY <1>6, Same DEF r
<1> QED BY <1>2, <1>7 DEF r

\* Filtering again changes nothing.
LEMMA FilteredOnce ==
  ASSUME NEW s \in Seq(Line)
  PROVE  /\ WithoutLegacy(s) \in Seq(Line)
         /\ WithoutLegacy(WithoutLegacy(s)) = WithoutLegacy(s)
<1> DEFINE R == Line \ Legacy
           t == WithoutLegacy(s)
<1>1. t \in Seq(R)
  BY KeptType DEF WithoutLegacy, IsLegacy
<1>2. \A i \in 1..Len(t) : ~IsLegacy(t[i])
  <2> HIDE DEF t
  <2> QED BY <1>1 DEF IsLegacy
<1> HIDE DEF t
<1>3. WithoutLegacy(t) = t
  BY <1>1, <1>2, NoneFiltered
<1>4. t \in Seq(Line)
  BY <1>1
<1> QED BY <1>3, <1>4 DEF t

\* Any other line stays.
LEMMA SomeFiltered ==
  ASSUME NEW s \in Seq(Line), NEW L, L \cap Legacy = {}
  PROVE  Some(WithoutLegacy(s), L) <=> Some(s, L)
<1>1. PICK g : /\ Filter(s, g) /\ WithoutLegacy(s) = g[Len(s)]
               /\ \A n \in 0..Len(s) : g[n] \in Seq(Line)
  BY FilterIs
<1>2. Len(s) \in Nat /\ DOMAIN s = 1..Len(s)
  OBVIOUS
<1> DEFINE T == {n \in Nat : n <= Len(s) =>
                    (Some(g[n], L) <=> \E i \in 1..n : s[i] \in L)}
<1>3. 0 \in T
  <2>1. g[0] = <<>>
    BY <1>1 DEF Filter
  <2> QED BY <2>1 DEF Some
<1>4. ASSUME NEW n \in Nat, n \in T PROVE n + 1 \in T
  <2> SUFFICES ASSUME n + 1 <= Len(s)
               PROVE  Some(g[n + 1], L) <=> \E i \in 1..(n + 1) : s[i] \in L
    OBVIOUS
  <2>1. /\ Some(g[n], L) <=> \E i \in 1..n : s[i] \in L
        /\ n + 1 \in 1..Len(s) /\ (n + 1) - 1 = n /\ n \in 0..Len(s)
    BY <1>2, <1>4
  <2>2. g[n + 1] = IF IsLegacy(s[n + 1]) THEN g[n] ELSE Append(g[n], s[n + 1])
    BY <1>1, <2>1 DEF Filter
  <2>3. g[n] \in Seq(Line) /\ s[n + 1] \in Line
    BY <1>1, <2>1
  <2>4. (\E i \in 1..(n + 1) : s[i] \in L) <=> (\E i \in 1..n : s[i] \in L) \/ s[n + 1] \in L
    <3>1. 1..(n + 1) = (1..n) \cup {n + 1}
      OBVIOUS
    <3> QED BY <3>1
  <2>5. CASE IsLegacy(s[n + 1])
    BY <2>1, <2>2, <2>4, <2>5 DEF IsLegacy
  <2>6. CASE ~IsLegacy(s[n + 1])
    <3> DEFINE a == g[n]
               x == s[n + 1]
    <3>1. a \in Seq(Line) /\ x \in Line
      BY <2>3
    <3> HIDE DEF a, x
    <3>2. Some(Append(a, x), L) <=> Some(a, L) \/ x \in L
      <4>1. /\ Append(a, x) \in Seq(Line) /\ Len(Append(a, x)) = Len(a) + 1
            /\ \A i \in 1..(Len(a) + 1) : Append(a, x)[i] = IF i <= Len(a) THEN a[i] ELSE x
        BY <3>1
      <4>2. Len(a) \in Nat /\ DOMAIN a = 1..Len(a) /\ DOMAIN Append(a, x) = 1..(Len(a) + 1)
        BY <3>1, <4>1
      <4> QED BY <4>1, <4>2 DEF Some
    <3> QED BY <2>1, <2>2, <2>4, <2>6, <3>2 DEF a, x
  <2> QED BY <2>5, <2>6
<1> HIDE DEF T
<1>5. Len(s) \in T
  BY <1>2, <1>3, <1>4, Induct
<1> QED BY <1>1, <1>2, <1>5 DEF T, Some

\* Lines that need no change: a file without markers has no block.
LEMMA UnmarkedRemains ==
  ASSUME NEW s, Unmarked(s)
  PROVE  s \in Seq(Line) /\ Remains(s) = s
<1>1. s \in Seq(Line) /\ ~Valid(s)
  BY DEF Unmarked, Valid, At
<1> QED BY <1>1 DEF Remains

\* Parts without markers, put together.
LEMMA UnmarkedJoined ==
  ASSUME NEW a, Unmarked(a), NEW c, Unmarked(c)
  PROVE  Unmarked(a \o c)
<1> DEFINE U == Line \ {"begin", "end"}
<1>1. a \in Seq(U) /\ c \in Seq(U)
  BY DEF Unmarked
<1> HIDE DEF U
<1> DEFINE t == a \o c
<1>2. t \in Seq(U)
  BY <1>1
<1> HIDE DEF t
<1>3. Unmarked(t)
  BY <1>2 DEF Unmarked, U
<1> QED BY <1>3 DEF t

\* Migration takes the appended lines away and leaves the rest around the block.
LEMMA MigratedParts ==
  ASSUME NEW s \in Seq(Line), NoMarkers(s), ~Owned(s), HasLegacy(s), NEW call \in Calls
  PROVE  \E a, c : /\ Unmarked(a) /\ NotOwned(a) /\ Unmarked(c)
                   /\ Migrated(s, Managed(call)) = Wrapped(a, call, c)
                   /\ a \o c = WithoutLegacy(s)
                   /\ Ahead(s) => Clean(a)
<1> DEFINE IsFirst(i) == i \in DOMAIN s /\ IsLegacy(s[i]) /\ \A j \in 1..(i - 1) : ~IsLegacy(s[j])
           first == CHOOSE i \in DOMAIN s : IsLegacy(s[i]) /\ \A j \in 1..(i - 1) : ~IsLegacy(s[j])
           a == SubSeq(s, 1, first - 1)
           l == <<s[first]>>
           rest == SubSeq(s, first + 1, Len(s))
           U == Line \ {"begin", "end"}
<1>1. Len(s) \in Nat /\ DOMAIN s = 1..Len(s) /\ Unmarked(s) /\ NotOwned(s)
  BY NoMarkersIs
<1>2. s \in Seq(U)
  BY <1>1 DEF Unmarked
<1>3. IsFirst(first)
  <2> DEFINE T == {i \in 1..Len(s) : IsLegacy(s[i])}
  <2>1. T \in SUBSET Nat /\ T # {}
    BY <1>1 DEF HasLegacy
  <2>2. PICK i \in T : \A j \in T : i <= j
    BY <2>1, Least
  <2>3. IsFirst(i)
    BY <1>1, <2>2
  <2> QED BY <2>3
<1>4. first \in 1..Len(s) /\ IsLegacy(s[first]) /\ \A j \in 1..(first - 1) : ~IsLegacy(s[j])
  BY <1>1, <1>3
<1> HIDE DEF first, U, IsFirst
<1>5. a \in Seq(U) /\ Len(a) = first - 1 /\ \A i \in 1..(first - 1) : a[i] = s[i]
  <2>1. 1 \in 1..(Len(s) + 1) /\ first - 1 \in (1 - 1)..Len(s) /\ first - 1 + 1 - 1 = first - 1
    BY <1>1, <1>4
  <2>2. \A i \in 1..(first - 1) : 1 + i - 1 = i
    BY <1>4
  <2> QED BY <1>2, <2>1, <2>2, Part
<1>6. /\ rest \in Seq(U) /\ Len(rest) = Len(s) - first
      /\ \A i \in 1..(Len(s) - first) : rest[i] = s[first + i]
  <2>1. /\ first + 1 \in 1..(Len(s) + 1) /\ Len(s) \in (first + 1 - 1)..Len(s)
        /\ Len(s) + 1 - (first + 1) = Len(s) - first
    <3> DEFINE m == Len(s)
    <3>1. first \in 1..m /\ m \in Nat
      BY <1>1, <1>4
    <3> HIDE DEF m
    <3>2. first + 1 \in 1..(m + 1) /\ m \in (first + 1 - 1)..m /\ m + 1 - (first + 1) = m - first
      BY <3>1
    <3> QED BY <3>2 DEF m
  <2>2. \A i \in 1..(Len(s) - first) : first + 1 + i - 1 = first + i
    BY <1>1, <1>4
  <2> QED BY <1>2, <2>1, <2>2, Part
<1>7. l \in Seq(U) /\ Len(l) = 1 /\ l[1] = s[first]
  BY <1>2, <1>4
<1> HIDE DEF a, l, rest
<1> DEFINE al == a \o l
           all == al \o rest
<1>8. /\ al \in Seq(U) /\ Len(al) = first
      /\ \A i \in 1..first : al[i] = IF i <= first - 1 THEN a[i] ELSE l[i - (first - 1)]
  <2>1. /\ al \in Seq(U) /\ Len(al) = Len(a) + Len(l)
        /\ \A i \in 1..(Len(a) + Len(l)) : al[i] = IF i <= Len(a) THEN a[i] ELSE l[i - Len(a)]
    BY <1>5, <1>7, Joined
  <2>2. Len(a) + Len(l) = first
    BY <1>4, <1>5, <1>7
  <2> HIDE DEF al
  <2> QED BY <1>5, <2>1, <2>2
<1> HIDE DEF al
<1>9. all = s
  <2>1. /\ all \in Seq(U) /\ Len(all) = Len(al) + Len(rest)
        /\ \A i \in 1..(Len(al) + Len(rest)) :
              all[i] = IF i <= Len(al) THEN al[i] ELSE rest[i - Len(al)]
    BY <1>6, <1>8, Joined
  <2>2. Len(al) + Len(rest) = Len(s) /\ Len(al) = first
    BY <1>1, <1>4, <1>6, <1>8
  <2> HIDE DEF all
  <2>3. ASSUME NEW i \in 1..Len(s) PROVE all[i] = s[i]
    <3>1. CASE i < first
      <4>1. i \in 1..first /\ i <= first - 1 /\ i \in 1..(first - 1) /\ i <= first
        BY <1>4, <3>1
      <4> QED BY <1>5, <1>8, <2>1, <2>2, <4>1
    <3>2. CASE i = first
      <4>1. i \in 1..first /\ ~(i <= first - 1) /\ i - (first - 1) = 1 /\ i <= first
        BY <1>4, <3>2
      <4>2. al[i] = l[1]
        BY <1>8, <4>1
      <4>3. all[i] = al[i]
        BY <2>1, <2>2, <4>1
      <4> QED BY <1>7, <3>2, <4>2, <4>3
    <3>3. CASE i > first
      <4> DEFINE k == i - first
      <4>1. k \in 1..(Len(s) - first) /\ first + k = i /\ ~(i <= first)
        BY <1>1, <1>4, <3>3
      <4> HIDE DEF k
      <4>2. all[i] = rest[k]
        BY <2>1, <2>2, <4>1 DEF k
      <4> QED BY <1>6, <4>1, <4>2
    <3> QED BY <1>4, <3>1, <3>2, <3>3
  <2> QED BY <1>2, <2>1, <2>2, <2>3, Same
<1>10. WithoutLegacy(s) = WithoutLegacy(al) \o WithoutLegacy(rest)
  BY <1>6, <1>8, <1>9, FilteredApart
<1>11. WithoutLegacy(al) = WithoutLegacy(a) \o WithoutLegacy(l)
  BY <1>5, <1>7, FilteredApart DEF al
<1>12. WithoutLegacy(a) = a
  BY <1>4, <1>5, NoneFiltered
<1>13. WithoutLegacy(l) = <<>>
  <2>1. PICK g : Filter(l, g) /\ WithoutLegacy(l) = g[Len(l)]
    BY <1>7, FilterIs
  <2>2. g[0] = <<>> /\ g[1] = IF IsLegacy(l[1]) THEN g[1 - 1] ELSE Append(g[1 - 1], l[1])
    BY <1>7, <2>1 DEF Filter
  <2>3. g[1] = <<>>
    BY <1>4, <1>7, <2>2
  <2> QED BY <1>7, <2>1, <2>3
<1> DEFINE c == WithoutLegacy(rest)
<1>14. c \in Seq(U)
  BY <1>6, WithoutLegacyIs
<1> HIDE DEF c
<1>15. a \o <<>> = a
  BY <1>5
<1>16. a \o c = WithoutLegacy(s)
  BY <1>10, <1>11, <1>12, <1>13, <1>15 DEF c
<1>17. Unmarked(a) /\ Unmarked(c)
  BY <1>5, <1>14 DEF Unmarked, U
<1>18. NotOwned(a)
  BY <1>1, <1>4, <1>5 DEF NotOwned
<1>19. Migrated(s, Managed(call)) = Wrapped(a, call, c)
  BY DEF Migrated, Wrapped, a, rest, c, first
<1>20. Ahead(s) => Clean(a)
  <2>1. \A i \in 1..(first - 1) : i \in 1..Len(s) /\ i < first
    BY <1>1, <1>4
  <2> QED BY <1>4, <1>5, <2>1 DEF Ahead, Clean, IsLegacy
<1> QED BY <1>16, <1>17, <1>18, <1>19, <1>20

\* What remains is lines.
LEMMA RemainsType ==
  ASSUME NEW s \in Seq(Line)
  PROVE  /\ Remains(s) \in Seq(Line)
         /\ UserLines(s) = WithoutLegacy(Remains(s))
         /\ ~Owned(s) /\ Valid(s) => Unmarked(Remains(s)) /\ Remains(s) = Before(s) \o After(s)
<1>1. CASE ~Valid(s)
  BY <1>1 DEF Remains, UserLines
<1>2. CASE Valid(s)
  <2>1. PICK b, e \in 1..Len(s) : The(At(s, "begin")) = b /\ The(At(s, "end")) = e
    BY <1>2, ValidMarkers
  <2>2. Before(s) \in Seq(Line) /\ After(s) \in Seq(Line)
    BY <2>1 DEF Before, After
  <2> DEFINE a == Before(s)
             c == After(s)
  <2>3. a \in Seq(Line) /\ c \in Seq(Line)
    BY <2>2
  <2>4. Replaced(s, <<>>) = (a \o <<>>) \o c
    BY DEF Replaced
  <2> HIDE DEF a, c
  <2>5. a \o <<>> = a
    BY <2>3
  <2>6. Remains(s) = a \o c
    BY <1>2, <2>4, <2>5 DEF Remains
  <2>7. UserLines(s) = WithoutLegacy(a \o c)
    BY <1>2 DEF UserLines, a, c
  <2>8. ~Owned(s) => Unmarked(a \o c)
    <3> SUFFICES ASSUME ~Owned(s) PROVE Unmarked(a \o c)
      OBVIOUS
    <3>1. Unmarked(a) /\ Unmarked(c)
      BY <1>2, ReplacedIs DEF a, c
    <3> QED BY <3>1, UnmarkedJoined
  <2> QED BY <1>2, <2>3, <2>6, <2>7, <2>8 DEF a, c
<1> QED BY <1>1, <1>2

\* t is what a command may leave of s: what remains of it is what remained,
\* or that without the appended lines.
Leaves(s, t) ==
  /\ t \in Seq(Line)
  /\ Remains(t) = Remains(s) \/ Remains(t) = WithoutLegacy(Remains(s))

\* What install_into leaves: portool's own script where none or one was, and of
\* any other file what the user has.
LEMMA InstalledLeaves ==
  ASSUME NEW f \in File, NEW call \in Calls
  PROVE  LET g == Installed(f, call).file
         IN \/ g.lines = f.lines /\ g.state = f.state
            \/ /\ f.state = "absent" \/ (f.state = "text" /\ Owned(f.lines))
               /\ g = Text(TRUE, Script(call))
            \/ /\ f.state = "text" /\ ~Owned(f.lines)
               /\ g.state = "text" /\ ~Owned(g.lines) /\ Leaves(f.lines, g.lines)
<1> DEFINE r == Installed(f, call)
           s == f.lines
           Wrote(t) == Result(Text(TRUE, t), "installed")
           Left == \/ r.file.lines = f.lines /\ r.file.state = f.state
                   \/ /\ f.state = "absent" \/ (f.state = "text" /\ Owned(f.lines))
                      /\ r.file = Text(TRUE, Script(call))
                   \/ /\ f.state = "text" /\ ~Owned(f.lines)
                      /\ r.file.state = "text" /\ ~Owned(r.file.lines)
                      /\ Leaves(f.lines, r.file.lines)
<1>1. f.state \in {"absent", "symlink", "unreadable", "text"} /\ s \in Seq(Line)
  BY FileIs
<1>2. /\ \A g, o : Result(g, o).file = g
      /\ \A t : Text(TRUE, t).state = "text" /\ Text(TRUE, t).lines = t
  BY DEF Result, Text
<1>3. CASE \E o : r = Result(f, o)
  <2> HIDE DEF r
  <2> QED BY <1>2, <1>3 DEF r
<1>4. ASSUME f.state = "text", r = Result(Text(TRUE, s), "current")
      PROVE  Left
  <2> DEFINE g == Text(TRUE, s)
             rf == r.file
  <2>1. g.state = "text" /\ g.lines = s
    BY DEF Text
  <2>2. rf = g
    <3> HIDE DEF r, g
    <3>1. r = Result(g, "current")
      BY <1>4 DEF g
    <3> QED BY <3>1, <1>2
  <2> HIDE DEF rf, g
  <2>3. rf.lines = f.lines /\ rf.state = f.state
    BY <1>4, <2>1, <2>2
  <2> QED BY <2>3 DEF rf
<1>5. ASSUME f.state = "absent" \/ (f.state = "text" /\ Owned(s)), r = Wrote(Script(call))
      PROVE  Left
  <2> DEFINE g == Text(TRUE, Script(call))
             rf == r.file
  <2>1. rf = g
    <3> HIDE DEF r, g
    <3>1. r = Result(g, "installed")
      BY <1>5 DEF g
    <3> QED BY <3>1, <1>2
  <2> HIDE DEF rf, g
  <2>2. rf = Text(TRUE, Script(call))
    BY <2>1 DEF g
  <2> QED BY <1>5, <2>2, Zenon DEF rf
<1>6. ASSUME f.state = "text", ~Owned(s), NEW t, ~Owned(t), Leaves(s, t), r = Wrote(t)
      PROVE  Left
  <2> DEFINE g == Text(TRUE, t)
             rf == r.file
  <2>1. g.state = "text" /\ g.lines = t
    BY DEF Text
  <2>2. rf = g
    <3> HIDE DEF r, g
    <3>1. r = Result(g, "installed")
      BY <1>6 DEF g
    <3> QED BY <3>1, <1>2
  <2> HIDE DEF rf, g
  <2>3. rf.state = "text" /\ rf.lines = t
    BY <2>1, <2>2
  <2>4. rf.state = "text" /\ ~Owned(rf.lines) /\ Leaves(f.lines, rf.lines)
    BY <1>6, <2>3, Zenon
  <2> QED BY <1>6, <2>4, Zenon DEF rf
<1>7. ASSUME NEW a, Unmarked(a), NotOwned(a), NEW c, Unmarked(c),
             a \o c = Remains(s) \/ a \o c = WithoutLegacy(Remains(s))
      PROVE  ~Owned(Wrapped(a, call, c)) /\ Leaves(s, Wrapped(a, call, c))
  <2> DEFINE t == Wrapped(a, call, c)
  <2>1. t \in Seq(Line) /\ ~Owned(t) /\ Valid(t) /\ Replaced(t, <<>>) = a \o c
    BY <1>7, WrappedIs
  <2>2. Remains(t) = a \o c
    BY <2>1 DEF Remains
  <2> HIDE DEF t
  <2> QED BY <1>7, <2>1, <2>2 DEF Leaves, t
<1>8. CASE f.state = "symlink" \/ f.state = "unreadable" \/ f.state = "absent"
  <2>1. (\E o : r = Result(f, o)) \/ (f.state = "absent" /\ r = Wrote(Script(call)))
    BY <1>8 DEF Installed
  <2> HIDE DEF r
  <2> QED BY <1>3, <1>5, <2>1 DEF r
<1>9. CASE f.state = "text" /\ Owned(s)
  <2>1. r = Result(Text(TRUE, s), "current") \/ r = Wrote(Script(call))
    BY <1>9 DEF Installed
  <2> HIDE DEF r, Left
  <2> QED BY <1>4, <1>5, <1>9, <2>1 DEF Left, r
<1>10. CASE f.state = "text" /\ ~Owned(s) /\ Malformed(s)
  <2>1. ~Valid(s) /\ ~NoMarkers(s)
    BY <1>10 DEF Malformed
  <2>2. r = Result(f, "manual")
    BY <1>10, <2>1 DEF Installed
  <2> QED BY <1>3, <2>2
<1>11. CASE f.state = "text" /\ ~Owned(s) /\ Valid(s)
  <2>1. ~Malformed(s) /\ ~NoMarkers(s)
    BY <1>11 DEF Malformed, NoMarkers, Valid
  <2>2. Replaced(s, Managed(call)) = Wrapped(Before(s), call, After(s))
    BY DEF Replaced, Wrapped
  <2>3. Unmarked(Before(s)) /\ NotOwned(Before(s)) /\ Unmarked(After(s))
    BY <1>1, <1>11, ReplacedIs
  <2>4. Before(s) \o After(s) = Remains(s)
    BY <1>1, <1>11, RemainsType
  <2>5. r = Result(Text(TRUE, s), "current") \/ r = Wrote(Replaced(s, Managed(call)))
    BY <1>11, <2>1 DEF Installed
  <2> DEFINE t == Replaced(s, Managed(call))
  <2>6. ~Owned(t) /\ Leaves(s, t)
    BY <1>7, <2>2, <2>3, <2>4
  <2> HIDE DEF r, t, Left
  <2> QED BY <1>4, <1>6, <1>11, <2>5, <2>6 DEF Left, r, t
<1>12. CASE f.state = "text" /\ ~Owned(s) /\ NoMarkers(s)
  <2>1. ~Malformed(s) /\ ~Valid(s) /\ Remains(s) = s
    BY <1>12 DEF Malformed, NoMarkers, Valid, Remains
  <2>2. CASE HasLegacy(s)
    <3>1. r = Wrote(Migrated(s, Managed(call)))
      BY <1>12, <2>1, <2>2 DEF Installed
    <3>2. PICK a, c : /\ Unmarked(a) /\ NotOwned(a) /\ Unmarked(c)
                      /\ Migrated(s, Managed(call)) = Wrapped(a, call, c)
                      /\ a \o c = WithoutLegacy(s)
      BY <1>1, <1>12, <2>2, MigratedParts
    <3> DEFINE t == Migrated(s, Managed(call))
    <3>3. ~Owned(t) /\ Leaves(s, t)
      BY <1>7, <2>1, <3>2
    <3> HIDE DEF r, t, Left
    <3> QED BY <1>6, <1>12, <3>1, <3>3 DEF Left, r, t
  <2>3. CASE ~HasLegacy(s) /\ Shell(s)
    <3>1. r = Wrote(Inserted(s, Managed(call)))
      BY <1>12, <2>1, <2>3 DEF Installed
    <3>2. PICK a, c : /\ Unmarked(a) /\ NotOwned(a) /\ Unmarked(c)
                      /\ Inserted(s, Managed(call)) = Wrapped(a, call, c)
                      /\ a \o c = s
      BY <1>1, <1>12, <2>3, InsertedIs
    <3> DEFINE t == Inserted(s, Managed(call))
    <3>3. ~Owned(t) /\ Leaves(s, t)
      BY <1>7, <2>1, <3>2
    <3> HIDE DEF r, t, Left
    <3> QED BY <1>6, <1>12, <3>1, <3>3 DEF Left, r, t
  <2>4. CASE ~HasLegacy(s) /\ ~Shell(s)
    <3>1. r = Result(f, "manual")
      BY <1>12, <2>1, <2>4 DEF Installed
    <3> QED BY <1>3, <3>1
  <2> QED BY <2>2, <2>3, <2>4
<1> QED BY <1>1, <1>8, <1>9, <1>10, <1>11, <1>12 DEF Malformed

\* What deinit_hook leaves: nothing of portool's own script, and of any other
\* file what the user has.
LEMMA RemovedLeaves ==
  ASSUME NEW f \in File
  PROVE  LET g == Removed(f).file
         IN \/ g = f
            \/ f.state = "text" /\ Owned(f.lines) /\ g = Absent
            \/ /\ f.state = "text" /\ ~Owned(f.lines)
               /\ g.state = "text" /\ g.lines = Remains(g.lines) /\ Unmarked(g.lines)
               /\ Leaves(f.lines, g.lines)
<1> DEFINE r == Removed(f)
           s == f.lines
           Kept(t) == Result(Text(f.exec, t), "removed")
           Left == \/ r.file = f
                   \/ f.state = "text" /\ Owned(f.lines) /\ r.file = Absent
                   \/ /\ f.state = "text" /\ ~Owned(f.lines)
                      /\ r.file.state = "text" /\ r.file.lines = Remains(r.file.lines)
                      /\ Unmarked(r.file.lines) /\ Leaves(f.lines, r.file.lines)
<1>1. f.state \in {"absent", "symlink", "unreadable", "text"} /\ s \in Seq(Line)
  BY FileIs
<1>2. /\ \A g, o : Result(g, o).file = g
      /\ \A t : Text(f.exec, t).state = "text" /\ Text(f.exec, t).lines = t
  BY DEF Result, Text
<1>3. CASE \E o : r = Result(f, o)
  <2> HIDE DEF r
  <2> QED BY <1>2, <1>3 DEF r
<1>4. ASSUME f.state = "text", ~Owned(s), NEW t, Unmarked(t), r = Kept(t),
             t = Remains(s) \/ t = WithoutLegacy(Remains(s))
      PROVE  Left
  <2>1. t \in Seq(Line) /\ Remains(t) = t
    BY <1>4, UnmarkedRemains
  <2>2. Leaves(s, t)
    BY <1>4, <2>1 DEF Leaves
  <2>3. r.file.state = "text" /\ r.file.lines = t
    <3> HIDE DEF r
    <3> QED BY <1>2, <1>4
  <2> HIDE DEF r
  <2> QED BY <1>4, <2>1, <2>2, <2>3
<1>5. CASE f.state = "symlink" \/ f.state = "unreadable" \/ f.state = "absent"
  <2>1. \E o : r = Result(f, o)
    BY <1>5 DEF Removed
  <2> QED BY <1>3, <2>1
<1>6. CASE f.state = "text" /\ Owned(s)
  <2>1. r = Result(Absent, "removed")
    BY <1>6 DEF Removed
  <2>2. r.file = Absent
    <3> HIDE DEF r
    <3> QED BY <1>2, <2>1
  <2> HIDE DEF r
  <2> QED BY <1>6, <2>2 DEF r
<1>7. CASE f.state = "text" /\ ~Owned(s) /\ Malformed(s)
  <2>1. ~Valid(s) /\ ~NoMarkers(s)
    BY <1>7 DEF Malformed
  <2>2. r = Result(f, "manual")
    BY <1>7, <2>1 DEF Removed
  <2> QED BY <1>3, <2>2
<1>8. CASE f.state = "text" /\ ~Owned(s) /\ Valid(s)
  <2>1. ~Malformed(s) /\ ~NoMarkers(s)
    BY <1>8 DEF Malformed, NoMarkers, Valid
  <2>2. Replaced(s, <<>>) = Remains(s) /\ Unmarked(Remains(s))
    BY <1>1, <1>8, RemainsType DEF Remains
  <2>3. r = Kept(Replaced(s, <<>>))
    BY <1>8, <2>1 DEF Removed
  <2> HIDE DEF r, Left
  <2> QED BY <1>4, <1>8, <2>2, <2>3 DEF Left, r
<1>9. CASE f.state = "text" /\ ~Owned(s) /\ NoMarkers(s)
  <2>1. ~Malformed(s) /\ ~Valid(s) /\ Remains(s) = s
    BY <1>9 DEF Malformed, NoMarkers, Valid, Remains
  <2>2. r = Kept(WithoutLegacy(s)) \/ r = Result(f, "notFound")
    BY <1>9, <2>1 DEF Removed
  <2>3. Unmarked(WithoutLegacy(s))
    <3>1. s \in Seq(Line \ {"begin", "end"})
      BY <1>1, <1>9, NoMarkersIs DEF Unmarked
    <3>2. WithoutLegacy(s) \in Seq(Line \ {"begin", "end"})
      BY <3>1, WithoutLegacyIs
    <3> DEFINE t == WithoutLegacy(s)
    <3> HIDE DEF t
    <3>3. Unmarked(t)
      BY <3>2 DEF Unmarked, t
    <3> QED BY <3>3 DEF t
  <2> HIDE DEF r, Left
  <2> QED BY <1>3, <1>4, <1>9, <2>1, <2>2, <2>3 DEF Left, r
<1> QED BY <1>1, <1>5, <1>6, <1>7, <1>8, <1>9 DEF Malformed

-----------------------------------------------------------------------------
(* What every command keeps of a hook.                                     *)

\* The user's lines, of a hook that is not portool's own script.
Keeps(f) == IF f.state = "text" /\ ~Owned(f.lines) THEN {UserLines(f.lines)} ELSE {}

\* The lines of the user alone are not taken for portool's own script.
Clear(s) == Owned(s) \/ (~Owned(Remains(s)) /\ ~Owned(WithoutLegacy(Remains(s))))

\* A call outside of a well-formed block comes with the comment of portool's own
\* scripts or with a begin marker.
Tame(s) == Some(Remains(s), Calls) => Some(Remains(s), {"owned", "begin"})

\* What a command may leave of lines has the user's lines in it,
LEMMA LeavesKeep ==
  ASSUME NEW s \in Seq(Line), NEW t, Leaves(s, t)
  PROVE  /\ UserLines(t) = UserLines(s)
         /\ Clear(s) /\ ~Owned(s) => Clear(t)
         /\ Tame(s) => Tame(t)
<1> DEFINE r == Remains(s)
           u == Remains(t)
           w == WithoutLegacy(r)
<1>1. /\ r \in Seq(Line) /\ UserLines(s) = w
      /\ UserLines(t) = WithoutLegacy(u) /\ (u = r \/ u = w)
  BY RemainsType DEF Leaves
<1> HIDE DEF r, u
<1>2. w \in Seq(Line) /\ WithoutLegacy(w) = w
  BY <1>1, FilteredOnce
<1>3. Calls \cap Legacy = {} /\ {"owned", "begin"} \cap Legacy = {}
  BY DEF Calls, Legacy
<1>4. /\ Some(w, Calls) <=> Some(r, Calls)
      /\ Some(w, {"owned", "begin"}) <=> Some(r, {"owned", "begin"})
  BY <1>1, <1>3, SomeFiltered
<1> HIDE DEF w
<1>5. WithoutLegacy(r) = w
  BY DEF w
<1>6. UserLines(t) = UserLines(s)
  BY <1>1, <1>2, <1>5
<1>7. Clear(s) /\ ~Owned(s) => Clear(t)
  BY <1>1, <1>2, <1>5 DEF Clear, r, u
<1>8. Tame(s) => Tame(t)
  BY <1>1, <1>4 DEF Tame, r, u
<1> QED BY <1>6, <1>7, <1>8

\* and so do portool's script and no file.
LEMMA OwnLines ==
  /\ \A call \in Calls : /\ Owned(Script(call)) /\ Clear(Script(call)) /\ Tame(Script(call))
                         /\ Script(call) \in Seq(Line)
  /\ Clear(<<>>) /\ Tame(<<>>) /\ ~Owned(<<>>)
<1>1. ASSUME NEW call \in Calls
      PROVE  /\ Owned(Script(call)) /\ Clear(Script(call)) /\ Tame(Script(call))
             /\ Script(call) \in Seq(Line)
  <2> DEFINE s == Script(call)
  <2>1. /\ s \in Seq(Line) /\ Len(s) = 4 /\ s[2] = "owned"
        /\ s[1] = "sh" /\ s[3] = call /\ s[4] = "exit"
    BY DEF Script, Line, Shebangs
  <2>2. call \notin {"begin", "end"}
    BY DEF Calls
  <2> HIDE DEF s
  <2>3. DOMAIN s = 1..4
    BY <2>1
  <2>4. ~Valid(s)
    BY <2>1, <2>2, <2>3 DEF Valid, At
  <2>5. Remains(s) = s
    BY <2>4 DEF Remains
  <2>6. Some(s, {"owned", "begin"})
    BY <2>1, <2>3 DEF Some
  <2>7. Owned(s)
    BY <2>1 DEF Owned
  <2> QED BY <2>1, <2>5, <2>6, <2>7 DEF Clear, Tame, s
<1>2. Clear(<<>>) /\ Tame(<<>>) /\ ~Owned(<<>>)
  <2> DEFINE s == <<>>
  <2>1. s \in Seq(Line) /\ Len(s) = 0 /\ DOMAIN s = {}
    OBVIOUS
  <2> HIDE DEF s
  <2>2. ~Valid(s) /\ ~Owned(s) /\ ~Some(s, Calls)
    BY <2>1 DEF Valid, Owned, Some
  <2>3. Remains(s) = s
    BY <2>2 DEF Remains
  <2>4. WithoutLegacy(s) = s
    <3>1. \A i \in 1..Len(s) : ~IsLegacy(s[i])
      BY <2>1
    <3> QED BY <2>1, <3>1, NoneFiltered
  <2>5. Clear(s) /\ Tame(s) /\ ~Owned(s)
    BY <2>2, <2>3, <2>4 DEF Clear, Tame
  <2> QED BY <2>5 DEF s
<1> QED BY <1>1, <1>2

\* Installing keeps the user's lines,
LEMMA InstalledKeeps ==
  ASSUME NEW f \in File, NEW call \in Calls
  PROVE  LET g == Installed(f, call).file
         IN /\ Keeps(g) = Keeps(f)
            /\ Clear(f.lines) => Clear(g.lines)
            /\ Tame(f.lines) => Tame(g.lines)
<1> DEFINE g == Installed(f, call).file
<1>1. f.lines \in Seq(Line)
  BY FileIs
<1>2. \/ g.lines = f.lines /\ g.state = f.state
      \/ /\ f.state = "absent" \/ (f.state = "text" /\ Owned(f.lines))
         /\ g = Text(TRUE, Script(call))
      \/ /\ f.state = "text" /\ ~Owned(f.lines)
         /\ g.state = "text" /\ ~Owned(g.lines) /\ Leaves(f.lines, g.lines)
  BY InstalledLeaves
<1> SUFFICES /\ Keeps(g) = Keeps(f)
             /\ Clear(f.lines) => Clear(g.lines)
             /\ Tame(f.lines) => Tame(g.lines)
  OBVIOUS
<1> HIDE DEF g
<1>3. CASE g.lines = f.lines /\ g.state = f.state
  BY <1>3 DEF Keeps
<1>4. CASE /\ f.state = "absent" \/ (f.state = "text" /\ Owned(f.lines))
           /\ g = Text(TRUE, Script(call))
  <2>1. g.lines = Script(call)
    BY <1>4 DEF Text
  <2> QED BY <1>4, <2>1, OwnLines DEF Keeps
<1>5. CASE /\ f.state = "text" /\ ~Owned(f.lines)
           /\ g.state = "text" /\ ~Owned(g.lines) /\ Leaves(f.lines, g.lines)
  BY <1>1, <1>5, LeavesKeep DEF Keeps
<1> QED BY <1>2, <1>3, <1>4, <1>5

\* and so does removing, if they are not taken for portool's.
LEMMA RemovedKeeps ==
  ASSUME NEW f \in File
  PROVE  LET g == Removed(f).file
         IN /\ Clear(f.lines) => Keeps(g) = Keeps(f) /\ Clear(g.lines)
            /\ Tame(f.lines) => Tame(g.lines)
<1> DEFINE g == Removed(f).file
<1>1. f.lines \in Seq(Line)
  BY FileIs
<1>2. \/ g = f
      \/ f.state = "text" /\ Owned(f.lines) /\ g = Absent
      \/ /\ f.state = "text" /\ ~Owned(f.lines)
         /\ g.state = "text" /\ g.lines = Remains(g.lines) /\ Unmarked(g.lines)
         /\ Leaves(f.lines, g.lines)
  BY RemovedLeaves
<1> SUFFICES /\ Clear(f.lines) => Keeps(g) = Keeps(f) /\ Clear(g.lines)
             /\ Tame(f.lines) => Tame(g.lines)
  OBVIOUS
<1> HIDE DEF g
<1>3. CASE g = f
  BY <1>3
<1>4. CASE f.state = "text" /\ Owned(f.lines) /\ g = Absent
  <2>1. g.lines = <<>> /\ g.state = "absent"
    BY <1>4, AbsentIs
  <2> QED BY <1>4, <2>1, OwnLines DEF Keeps
<1>5. CASE /\ f.state = "text" /\ ~Owned(f.lines)
           /\ g.state = "text" /\ g.lines = Remains(g.lines) /\ Leaves(f.lines, g.lines)
  <2>1. Clear(f.lines) => ~Owned(g.lines)
    BY <1>5 DEF Leaves, Clear
  <2> QED BY <1>1, <1>5, <2>1, LeavesKeep DEF Keeps
<1> QED BY <1>2, <1>3, <1>4, <1>5

-----------------------------------------------------------------------------
(* Who takes a step, and what becomes of the hooks.                        *)

\* A step of a process.
Acts(p) == (\E c \in Commands : Start(p, c)) \/ Checkout(p) \/ Step(p) \/ Crash(p)

\* A step of people.
People == EditHook \/ SetHooksPath \/ MoveBinary

\* No process but p notices a step of p.
LEMMA OthersStay ==
  ASSUME HooksInv, NEW p \in Processes, Acts(p), NEW q \in Processes, q # p
  PROVE  pc'[q] = pc[q] /\ job'[q] = job[q]
<1>1. pc \in [Processes -> Places] /\ job \in [Processes -> Job]
  BY TypesOf
<1>2. ASSUME NEW step, pc' = [pc EXCEPT ![p] = step] PROVE pc'[q] = pc[q]
  BY <1>1, <1>2
<1>3. ASSUME NEW j, job' = [job EXCEPT ![p] = j] PROVE job'[q] = job[q]
  BY <1>1, <1>3
<1>4. (\E step : pc' = [pc EXCEPT ![p] = step]) /\ ((\E j : job' = [job EXCEPT ![p] = j]) \/ job' = job)
  <2>1. ASSUME NEW c, Start(p, c)
        PROVE  (\E step : pc' = [pc EXCEPT ![p] = step]) /\ (\E j : job' = [job EXCEPT ![p] = j])
    BY <2>1, Zenon DEF Start
  <2>2. ASSUME Ends(p)
        PROVE  (\E step : pc' = [pc EXCEPT ![p] = step]) /\ (\E j : job' = [job EXCEPT ![p] = j])
    BY <2>2, Zenon DEF Ends
  <2>3. ASSUME NEW step, Goes(p, step) PROVE \E s : pc' = [pc EXCEPT ![p] = s]
    BY <2>3, Zenon DEF Goes
  <2>4. ASSUME NEW last, Done(p, last)
        PROVE  (\E step : pc' = [pc EXCEPT ![p] = step]) /\ (\E j : job' = [job EXCEPT ![p] = j])
    <3>1. \E step : pc' = [pc EXCEPT ![p] = step]
      BY <2>3, <2>4, Zenon DEF Done
    <3>2. \E j : job' = [job EXCEPT ![p] = j]
      BY <2>4 DEF Done
    <3> QED BY <3>1, <3>2
  <2>5. CASE Checkout(p) \/ (\E c \in Commands : Start(p, c))
    BY <2>1, <2>5 DEF Checkout
  <2>6. CASE Crash(p) \/ Report(p)
    BY <2>2, <2>6 DEF Crash, Report, Fails
  <2>7. CASE Locate(p)
    BY <2>2, <2>3, <2>7, Zenon DEF Locate, Fails
  <2>8. CASE ReadHook(p)
    BY <2>2, <2>3, <2>4, <2>8 DEF ReadHook
  <2>9. CASE WriteHook(p)
    BY <2>2, <2>4, <2>9 DEF WriteHook, Fails
  <2>10. CASE Verify(p)
    BY <2>3, <2>10 DEF Verify
  <2>11. CASE Acquire(p)
    BY <2>11 DEF Acquire
  <2>12. CASE RemoveEnv(p)
    BY <2>3, <2>12 DEF RemoveEnv
  <2>13. CASE Drop(p)
    BY <2>13 DEF Drop
  <2>14. CASE ReadExclude(p)
    BY <2>3, <2>14 DEF ReadExclude, ExcludeKept
  <2>15. CASE WriteExclude(p)
    BY <2>3, <2>15 DEF WriteExclude, ExcludeKept
  <2>16. CASE Sync(p)
    BY <2>3, <2>16 DEF Sync
  <2> QED BY <2>5, <2>6, <2>7, <2>8, <2>9, <2>10, <2>11, <2>12, <2>13, <2>14, <2>15, <2>16 DEF Acts, Step
<1>5. pc'[q] = pc[q]
  BY <1>2, <1>4
<1>6. job'[q] = job[q]
  BY <1>3, <1>4
<1> QED BY <1>5, <1>6

\* Every step is somebody's, or nobody's.
LEMMA WhoActs ==
  ASSUME [Next]_vars
  PROVE  (\E p \in Processes : Acts(p)) \/ People \/ UNCHANGED vars
  BY DEF Next, Acts, People

\* What is about to be written is what its process has made of the hook it read.
LEMMA Planned ==
  ASSUME HooksInv, NEW p \in Processes, Acts(p), pc'[p] = "writeHook"
  PROVE  LET d == job[p].path.dir
             n == Head(job[p].todo)
         IN /\ UNCHANGED hook
            /\ d \in Dirs /\ n \in Names
            /\ job'[p].path = job[p].path /\ job'[p].todo = job[p].todo
            /\ job'[p].plan \in {Installed(hook[d][n], binary).file, Removed(hook[d][n]).file}
<1>1. pc \in [Processes -> Places] /\ job \in [Processes -> Job]
  BY TypesOf
<1>2. ASSUME NEW step, pc' = [pc EXCEPT ![p] = step] PROVE step = "writeHook"
  BY <1>1, <1>2
<1>3. ASSUME NEW step, Goes(p, step) PROVE step = "writeHook"
  BY <1>2, <1>3 DEF Goes
<1>4. ~Ends(p) /\ ~Fails(p)
  BY <1>2 DEF Ends, Fails
<1>5. \A last : ~Done(p, last)
  BY <1>3 DEF Done, AfterHooks
<1>6. \A c \in AllCommands : ~Start(p, c)
  <2> SUFFICES ASSUME NEW c \in AllCommands, Start(p, c) PROVE FALSE
    OBVIOUS
  <2>1. FirstStep(c) = "writeHook"
    BY <1>2 DEF Start
  <2> QED BY <2>1 DEF FirstStep, AllCommands
<1>7. ~Checkout(p) /\ ~Crash(p) /\ ~Report(p) /\ ~WriteHook(p)
  <2>1. "sync" \in AllCommands
    BY DEF AllCommands
  <2> QED BY <1>4, <1>5, <1>6, <2>1 DEF Checkout, Crash, Report, WriteHook
<1>8. ~Locate(p)
  BY <1>3, <1>4 DEF Locate, AfterHooks
<1>9. ~Verify(p)
  BY <1>3 DEF Verify
<1>10. ~Acquire(p) /\ ~Drop(p)
  BY <1>2 DEF Acquire, Drop
<1>11. ~RemoveEnv(p) /\ ~Sync(p) /\ ~WriteExclude(p)
  BY <1>3 DEF RemoveEnv, Sync, WriteExclude, AfterExclude
<1>12. ~ReadExclude(p)
  BY <1>3 DEF ReadExclude, AfterExclude
<1>13. ReadHook(p)
  BY HooksAssumption, <1>6, <1>7, <1>8, <1>9, <1>10, <1>11, <1>12 DEF Acts, Step
<1> DEFINE h == job[p].path
           n == Head(job[p].todo)
           f == hook[h.dir][n]
           r == IF Installing(p) THEN Installed(f, binary) ELSE Removed(f)
<1>14. job' = [job EXCEPT ![p].plan = r.file, ![p].last = r.outcome] /\ UNCHANGED hook
  BY <1>4, <1>5, <1>13 DEF ReadHook, files
<1>15. h \in HookPath /\ job[p].todo \in Seq(Names) /\ job[p].todo # <<>>
  BY <1>1, <1>13, TypesOf DEF ReadHook, Job, Ready, AtHook
<1>16. h.dir \in Dirs /\ n \in Names
  BY <1>15 DEF HookPath
<1>17. /\ job'[p].path = job[p].path /\ job'[p].todo = job[p].todo
       /\ job'[p].plan = r.file
  <2> HIDE DEF r
  <2> QED BY <1>1, <1>14 DEF Job
<1>18. r.file \in {Installed(f, binary).file, Removed(f).file}
  OBVIOUS
<1> HIDE DEF r
<1> QED BY <1>14, <1>16, <1>17, <1>18

\* A hook changes only when its process writes what it has planned, or sets the
\* bit for execution.
LEMMA Writes ==
  ASSUME HooksInv, NEW p \in Processes, Acts(p)
  PROVE  LET d == job[p].path.dir
             n == Head(job[p].todo)
         IN \/ UNCHANGED hook
            \/ /\ pc[p] = "writeHook" /\ d \in Dirs /\ n \in Names
               /\ Near(job[p].path) /\ Plain(hook[d][n])
               /\ \/ hook'[d][n] = job[p].plan
                  \/ /\ hook'[d][n].state = hook[d][n].state
                     /\ hook'[d][n].lines = hook[d][n].lines
               /\ \A e \in Dirs, m \in Names : e # d \/ m # n => hook'[e][m] = hook[e][m]
<1> DEFINE d == job[p].path.dir
           n == Head(job[p].todo)
           x == [hook[d][n] EXCEPT !.exec = TRUE]
           new == IF job[p].last = "current" THEN x ELSE job[p].plan
<1>1. ASSUME NEW c, Start(p, c) PROVE UNCHANGED hook
  BY <1>1 DEF Start, files
<1>2. CASE Checkout(p) \/ Crash(p) \/ (Step(p) /\ ~WriteHook(p))
  BY <1>1, <1>2 DEF Checkout, Step, Crash, Locate, ReadHook, Verify, Acquire, RemoveEnv, Drop,
              ReadExclude, WriteExclude, Sync, Report, Fails, files
<1>3. CASE WriteHook(p)
  <2>1. UNCHANGED hook \/ hook' = [hook EXCEPT ![d][n] = new]
    BY <1>3 DEF WriteHook, Fails, files
  <2>2. /\ pc[p] = "writeHook" /\ job[p].path \in HookPath /\ job[p].todo \in Seq(Names)
        /\ job[p].todo # <<>> /\ Near(job[p].path) /\ Plain(hook[d][n])
    BY <1>3, TypesOf DEF WriteHook, Job, Ready, AtHook
  <2>3. d \in Dirs /\ n \in Names
    BY <2>2 DEF HookPath
  <2>4. hook \in [Dirs -> [Names -> File]] /\ hook[d][n] \in File
    BY <2>3, TypesOf DEF Hooks
  <2>5. x.state = hook[d][n].state /\ x.lines = hook[d][n].lines
    <3> DEFINE f == hook[d][n]
    <3>1. f \in File
      BY <2>4
    <3> HIDE DEF f
    <3>2. [f EXCEPT !.exec = TRUE].state = f.state /\ [f EXCEPT !.exec = TRUE].lines = f.lines
      BY <3>1 DEF File
    <3> QED BY <3>2 DEF f
  <2>6. new = job[p].plan \/ new = x
    OBVIOUS
  <2>7. ASSUME hook' = [hook EXCEPT ![d][n] = new]
        PROVE  /\ hook'[d][n] = new
               /\ \A e \in Dirs, m \in Names : e # d \/ m # n => hook'[e][m] = hook[e][m]
    <3> HIDE DEF d, n, new
    <3> QED BY <2>3, <2>4, <2>7
  <2> HIDE DEF new, x
  <2> QED BY <2>1, <2>2, <2>3, <2>5, <2>6, <2>7
<1> QED BY <1>1, <1>2, <1>3 DEF Acts, Step

\* The lines of all hooks, and of those about to be written, are in T.
AllIn(T) ==
  /\ \A d \in Dirs, n \in Names : hook[d][n].lines \in T
  /\ \A p \in Processes : pc[p] = "writeHook" => job[p].plan.lines \in T

\* No command leads out of T.
Closed(T) ==
  \A f \in File, call \in Calls :
    f.lines \in T => Installed(f, call).file.lines \in T /\ Removed(f).file.lines \in T

\* What commands keep and people do not break, holds on.
LEMMA LinesStay ==
  ASSUME NEW T, Closed(T), HooksInv, AllIn(T), [Next]_vars,
         EditHook => \A d \in Dirs, n \in Names : hook'[d][n].lines \in T
  PROVE  AllIn(T)'
<1>1. CASE People \/ UNCHANGED vars
  <2>1. CASE EditHook
    <3>1. \A p \in Processes : pc'[p] # "writeHook"
      BY <2>1 DEF EditHook, Idle
    <3> QED BY <2>1, <3>1 DEF AllIn
  <2>2. CASE ~EditHook
    <3>1. UNCHANGED <<hook, pc, job>>
      BY <1>1, <2>2 DEF People, SetHooksPath, MoveBinary, vars, files
    <3> QED BY <3>1 DEF AllIn
  <2> QED BY <2>1, <2>2
<1>2. ASSUME NEW p \in Processes, Acts(p) PROVE AllIn(T)'
  <2>1. \A d \in Dirs, n \in Names : hook'[d][n].lines \in T
    BY <1>2, Writes DEF AllIn
  <2>2. ASSUME NEW q \in Processes, pc'[q] = "writeHook" PROVE job'[q].plan.lines \in T
    <3>1. CASE q # p
      <4>1. pc'[q] = pc[q] /\ job'[q] = job[q]
        BY <1>2, <3>1, OthersStay
      <4> QED BY <2>2, <4>1 DEF AllIn
    <3>2. CASE q = p
      <4> DEFINE f == hook[job[p].path.dir][Head(job[p].todo)]
      <4>1. /\ job[p].path.dir \in Dirs /\ Head(job[p].todo) \in Names
            /\ job'[p].plan \in {Installed(f, binary).file, Removed(f).file}
        BY <1>2, <2>2, <3>2, Planned
      <4>2. f \in File /\ f.lines \in T /\ binary \in Calls
        BY <4>1, TypesOf, HooksAssumption DEF AllIn, Hooks
      <4> HIDE DEF f
      <4>3. Installed(f, binary).file.lines \in T /\ Removed(f).file.lines \in T
        BY <4>2 DEF Closed
      <4> QED BY <3>2, <4>1, <4>3
    <3> QED BY <3>1, <3>2
  <2> QED BY <2>1, <2>2 DEF AllIn
<1> QED BY <1>1, <1>2, WhoActs

-----------------------------------------------------------------------------
(* The lines of the user.                                                  *)

\* Lines of such hooks.
ClearLines == {s \in Seq(Line) : Clear(s)}

\* Commands write lines.
LEMMA CommandLines ==
  ASSUME NEW f \in File, NEW call \in Calls
  PROVE  Installed(f, call).file.lines \in Seq(Line) /\ Removed(f).file.lines \in Seq(Line)
<1> DEFINE g == Installed(f, call).file
           h == Removed(f).file
<1>1. f.lines \in Seq(Line)
  BY FileIs
<1>2. g.lines = f.lines \/ g = Text(TRUE, Script(call)) \/ Leaves(f.lines, g.lines)
  BY InstalledLeaves
<1>3. h = f \/ h = Absent \/ Leaves(f.lines, h.lines)
  BY RemovedLeaves
<1> HIDE DEF g, h
<1>4. g = Text(TRUE, Script(call)) => g.lines = Script(call)
  BY DEF Text
<1>5. g.lines \in Seq(Line)
  BY <1>1, <1>2, <1>4, OwnLines DEF Leaves
<1>6. h.lines \in Seq(Line)
  BY <1>1, <1>3, AbsentIs, FileIs DEF Leaves
<1> QED BY <1>5, <1>6 DEF g, h

\* What is about to be written has the user's lines of the hook it replaces.
KeptInv ==
  /\ AllIn(ClearLines)
  /\ \A p \in Processes : pc[p] = "writeHook" =>
       Keeps(job[p].plan) = Keeps(hook[job[p].path.dir][Head(job[p].todo)])

\* No command changes what a hook has of the user's lines.
KeepsAll == \A d \in Dirs, n \in Names : Keeps(hook'[d][n]) = Keeps(hook[d][n])

\* Until it is renamed into place nothing else changes them, and neither does that.
LEMMA ActsKeep ==
  ASSUME HooksInv, KeptInv, NEW p \in Processes, Acts(p)
  PROVE  KeepsAll
<1> DEFINE d == job[p].path.dir
           n == Head(job[p].todo)
<1>1. CASE UNCHANGED hook
  BY <1>1 DEF KeepsAll
<1>2. CASE ~UNCHANGED hook
  <2>1. /\ pc[p] = "writeHook" /\ d \in Dirs /\ n \in Names
        /\ \/ hook'[d][n] = job[p].plan
           \/ /\ hook'[d][n].state = hook[d][n].state
              /\ hook'[d][n].lines = hook[d][n].lines
        /\ \A e \in Dirs, m \in Names : e # d \/ m # n => hook'[e][m] = hook[e][m]
    BY <1>2, Writes
  <2>2. Keeps(hook'[d][n]) = Keeps(hook[d][n])
    <3>1. Keeps(job[p].plan) = Keeps(hook[d][n])
      BY <2>1 DEF KeptInv
    <3>2. CASE hook'[d][n] = job[p].plan
      BY <3>1, <3>2
    <3>3. CASE hook'[d][n].state = hook[d][n].state /\ hook'[d][n].lines = hook[d][n].lines
      BY <3>3 DEF Keeps
    <3> QED BY <2>1, <3>2, <3>3
  <2> HIDE DEF d, n
  <2>3. ASSUME NEW e \in Dirs, NEW m \in Names PROVE Keeps(hook'[e][m]) = Keeps(hook[e][m])
    BY <2>1, <2>2
  <2> QED BY <2>3 DEF KeepsAll
<1> QED BY <1>1, <1>2

\* Every hook is one portool does not take for its own by the user's lines.
ClearHooks == \A d \in Dirs, n \in Names : Clear(hook[d][n].lines)

\* A hook is written only as it was planned from the hook that is still there, or
\* from one with the same lines of the user.
LEMMA KeptStays ==
  ASSUME HooksInv, HooksInv', KeptInv, [Next]_vars, EditHook => ClearHooks'
  PROVE  KeptInv'
<1>1. Closed(ClearLines)
  <2> SUFFICES ASSUME NEW f \in File, NEW call \in Calls, f.lines \in ClearLines
               PROVE  /\ Installed(f, call).file.lines \in ClearLines
                      /\ Removed(f).file.lines \in ClearLines
    BY DEF Closed
  <2> DEFINE g == Installed(f, call).file
             h == Removed(f).file
  <2>1. Clear(g.lines) /\ Clear(h.lines)
    BY InstalledKeeps, RemovedKeeps DEF ClearLines
  <2>2. g.lines \in Seq(Line) /\ h.lines \in Seq(Line)
    BY CommandLines
  <2> QED BY <2>1, <2>2 DEF ClearLines
<1>2. EditHook => \A d \in Dirs, n \in Names : hook'[d][n].lines \in ClearLines
  <2> SUFFICES ASSUME EditHook, NEW d \in Dirs, NEW n \in Names
               PROVE  hook'[d][n].lines \in ClearLines
    OBVIOUS
  <2>1. hook' \in Hooks
    BY DEF HooksInv, TypeOK
  <2> DEFINE g == hook'[d][n]
  <2>2. g \in File /\ Clear(g.lines)
    BY <2>1 DEF Hooks, ClearHooks
  <2> HIDE DEF g
  <2>3. g.lines \in Seq(Line)
    BY <2>2, FileIs
  <2> QED BY <2>2, <2>3 DEF ClearLines, g
<1>3. AllIn(ClearLines)'
  BY <1>1, <1>2, LinesStay DEF KeptInv
<1>4. ASSUME NEW q \in Processes, pc'[q] = "writeHook"
      PROVE  Keeps(job'[q].plan) = Keeps(hook'[job'[q].path.dir][Head(job'[q].todo)])
  <2>1. CASE People \/ UNCHANGED vars
    <3>1. ~EditHook
      BY <1>4 DEF EditHook, Idle
    <3>2. UNCHANGED <<hook, pc, job>>
      BY <2>1, <3>1 DEF People, SetHooksPath, MoveBinary, vars, files
    <3> QED BY <1>4, <3>2 DEF KeptInv
  <2>2. ASSUME NEW p \in Processes, Acts(p), p # q
        PROVE  Keeps(job'[q].plan) = Keeps(hook'[job'[q].path.dir][Head(job'[q].todo)])
    <3>1. pc'[q] = pc[q] /\ job'[q] = job[q]
      BY <2>2, OthersStay
    <3> DEFINE d == job[q].path.dir
               n == Head(job[q].todo)
    <3>2. d \in Dirs /\ n \in Names
      <4>1. job[q] \in Job /\ job[q].todo # <<>>
        BY <1>4, <3>1, TypesOf DEF Ready, AtHook
      <4> QED BY <4>1 DEF Job, HookPath
    <3>3. Keeps(job[q].plan) = Keeps(hook[d][n])
      BY <1>4, <3>1 DEF KeptInv
    <3>4. KeepsAll
      BY <2>2, ActsKeep
    <3> HIDE DEF d, n
    <3>5. Keeps(hook'[d][n]) = Keeps(hook[d][n])
      BY <3>2, <3>4 DEF KeepsAll
    <3> QED BY <3>1, <3>3, <3>5 DEF d, n
  <2>3. CASE Acts(q)
    <3> DEFINE d == job[q].path.dir
               n == Head(job[q].todo)
               f == hook[d][n]
    <3>1. /\ UNCHANGED hook /\ d \in Dirs /\ n \in Names
          /\ job'[q].path = job[q].path /\ job'[q].todo = job[q].todo
          /\ job'[q].plan \in {Installed(f, binary).file, Removed(f).file}
      BY <1>4, <2>3, Planned
    <3>2. f \in File /\ f.lines \in ClearLines /\ binary \in Calls
      BY <3>1, TypesOf, HooksAssumption DEF KeptInv, AllIn, Hooks
    <3>3. Keeps(hook'[job'[q].path.dir][Head(job'[q].todo)]) = Keeps(f)
      BY <3>1
    <3> HIDE DEF f
    <3>4. Keeps(Installed(f, binary).file) = Keeps(f) /\ Keeps(Removed(f).file) = Keeps(f)
      BY <3>2, InstalledKeeps, RemovedKeeps DEF ClearLines
    <3> QED BY <3>1, <3>3, <3>4
  <2> QED BY <2>1, <2>2, <2>3, WhoActs
<1> QED BY <1>3, <1>4 DEF KeptInv

\* Every step is as UserLinesKept wants it.
LEMMA KeptAction ==
  ASSUME HooksInv, KeptInv, [Next]_vars
  PROVE  [hook' # hook /\ edits' = edits =>
            \A d \in Dirs, n \in Names :
              LET f == hook[d][n]
                  g == hook'[d][n]
              IN /\ f.state = "text" /\ ~Owned(f.lines) =>
                      g.state = "text" /\ UserLines(g.lines) = UserLines(f.lines)
                 /\ f.state \in {"symlink", "unreadable"} => g = f]_vars
<1> SUFFICES ASSUME hook' # hook, edits' = edits, NEW d \in Dirs, NEW n \in Names
             PROVE  LET f == hook[d][n]
                        g == hook'[d][n]
                    IN /\ f.state = "text" /\ ~Owned(f.lines) =>
                            g.state = "text" /\ UserLines(g.lines) = UserLines(f.lines)
                       /\ f.state \in {"symlink", "unreadable"} => g = f
  OBVIOUS
<1>1. ~People /\ ~UNCHANGED vars
  <2>1. ~EditHook
    BY TypesOf, HooksAssumption DEF EditHook
  <2> QED BY <2>1 DEF People, SetHooksPath, MoveBinary, vars, files
<1>2. PICK p \in Processes : Acts(p)
  BY <1>1, WhoActs
<1> DEFINE f == hook[d][n]
           g == hook'[d][n]
<1>3. Keeps(g) = Keeps(f)
  BY <1>2, ActsKeep DEF KeepsAll
<1>4. g = f \/ Plain(f)
  BY <1>2, Writes
<1> SUFFICES /\ f.state = "text" /\ ~Owned(f.lines) =>
                  g.state = "text" /\ UserLines(g.lines) = UserLines(f.lines)
             /\ f.state \in {"symlink", "unreadable"} => g = f
  OBVIOUS
<1> HIDE DEF f, g
<1>5. f.state \in {"symlink", "unreadable"} => g = f
  BY <1>4 DEF Plain
<1>6. ASSUME f.state = "text", ~Owned(f.lines)
      PROVE  g.state = "text" /\ UserLines(g.lines) = UserLines(f.lines)
  <2>1. Keeps(f) = {UserLines(f.lines)}
    BY <1>6 DEF Keeps
  <2>2. UserLines(f.lines) \in Keeps(g)
    BY <1>3, <2>1
  <2> QED BY <2>2 DEF Keeps
<1> QED BY <1>5, <1>6

\* People leave hooks whose own lines look like portool's script to portool.
PeopleClear == ClearHooks /\ [][EditHook => ClearHooks']_vars

\* As long as no hook is, without portool's lines, one that would be taken for
\* portool's own script: no command loses, adds or reorders a line of the user,
\* though two of them may read a hook before either writes it, and be killed
\* anywhere (install_into, deinit_hook).
THEOREM UserLinesSafe == Spec /\ PeopleClear => UserLinesKept
<1>1. Init /\ HooksInv /\ ClearHooks => KeptInv
  <2> SUFFICES ASSUME Init, HooksInv, ClearHooks PROVE KeptInv
    OBVIOUS
  <2>1. \A p \in Processes : pc[p] # "writeHook"
    BY DEF Init
  <2>2. ASSUME NEW d \in Dirs, NEW n \in Names PROVE hook[d][n].lines \in ClearLines
    <3> DEFINE f == hook[d][n]
    <3>1. f \in File /\ Clear(f.lines)
      BY TypesOf DEF ClearHooks, Hooks
    <3> HIDE DEF f
    <3>2. f.lines \in Seq(Line)
      BY <3>1, FileIs
    <3> QED BY <3>1, <3>2 DEF f, ClearLines
  <2> QED BY <2>1, <2>2 DEF KeptInv, AllIn
<1>2. HooksInv /\ HooksInv' /\ KeptInv /\ [Next]_vars /\ [EditHook => ClearHooks']_vars => KeptInv'
  <2> SUFFICES ASSUME HooksInv, HooksInv', KeptInv, [Next]_vars, [EditHook => ClearHooks']_vars
               PROVE  KeptInv'
    OBVIOUS
  <2>1. EditHook => ClearHooks'
    <3>1. EditHook => edits' # edits
      BY EditCounts
    <3> QED BY <3>1 DEF vars, world
  <2> QED BY <2>1, KeptStays
<1>3. HooksInv /\ KeptInv /\ [Next]_vars =>
        [hook' # hook /\ edits' = edits =>
            \A d \in Dirs, n \in Names :
              LET f == hook[d][n]
                  g == hook'[d][n]
              IN /\ f.state = "text" /\ ~Owned(f.lines) =>
                      g.state = "text" /\ UserLines(g.lines) = UserLines(f.lines)
                 /\ f.state \in {"symlink", "unreadable"} => g = f]_vars
  BY KeptAction
<1> QED BY <1>1, <1>2, <1>3, Invariance, PTL DEF Spec, PeopleClear, UserLinesKept

-----------------------------------------------------------------------------
(* A process with no other beside it.                                      *)

\* The commands that take the hooks away.
Undo == {"unhook", "deinit", "deinitKeep"}

\* p runs, and no other command has run beside it.
Lone(p) == pc[p] # "idle" /\ p \notin overlapped

\* Then no other runs now.
Solitary == \A p, q \in Processes : Lone(p) /\ q # p => pc[q] = "idle"

\* The steps of a process do not say whom it overlaps with.
LEMMA StepsQuietly ==
  ASSUME NEW p, Step(p) \/ Crash(p)
  PROVE  pc[p] # "idle" /\ UNCHANGED <<world, overlapped>>
  BY DEF Step, Crash, Locate, ReadHook, WriteHook, Verify, Acquire, RemoveEnv, Drop,
         ReadExclude, WriteExclude, Sync, Report

\* What a process that is alone has just done.
LEMMA LoneStep ==
  ASSUME HooksInv, Solitary, [Next]_vars, NEW p \in Processes, Lone(p)'
  PROVE  \/ UNCHANGED vars
         \/ Lone(p) /\ Step(p)
         \/ Idle /\ \E c \in AllCommands : Start(p, c)
<1> SUFFICES ASSUME ~UNCHANGED vars
             PROVE  (Lone(p) /\ Step(p)) \/ (Idle /\ \E c \in AllCommands : Start(p, c))
  OBVIOUS
<1>1. ~People
  BY DEF People, EditHook, SetHooksPath, MoveBinary, Idle, Lone
<1>2. PICK q \in Processes : Acts(q)
  BY <1>1, WhoActs
<1>3. ASSUME NEW c, Start(q, c)
      PROVE  q = p /\ Idle
  <2>1. overlapped' = IF Idle THEN {} ELSE {q} \cup {r \in Processes : pc[r] # "idle"}
    BY <1>3 DEF Start
  <2>2. CASE q = p
    BY <2>1, <2>2 DEF Lone
  <2>3. CASE q # p
    <3>1. pc'[p] = pc[p]
      BY <1>2, <2>3, OthersStay
    <3>2. pc[p] # "idle" /\ p \notin overlapped'
      BY <3>1 DEF Lone
    <3> QED BY <2>1, <3>2 DEF Idle
  <2> QED BY <2>2, <2>3
<1>4. ASSUME Step(q) \/ Crash(q)
      PROVE  q = p /\ Step(p) /\ Lone(p)
  <2>1. pc[q] # "idle" /\ overlapped' = overlapped
    BY <1>4, StepsQuietly
  <2>2. q = p
    <3> SUFFICES ASSUME q # p PROVE FALSE
      OBVIOUS
    <3>1. pc'[p] = pc[p]
      BY <1>2, OthersStay
    <3> QED BY <2>1, <3>1 DEF Lone, Solitary
  <2>3. ~Crash(p)
    <3> SUFFICES ASSUME Crash(p) PROVE FALSE
      OBVIOUS
    <3>1. pc \in [Processes -> Places] /\ pc' = [pc EXCEPT ![p] = "idle"]
      BY TypesOf DEF Crash, Fails, Ends
    <3> QED BY <3>1 DEF Lone
  <2> QED BY <1>4, <2>1, <2>2, <2>3 DEF Lone
<1>5. "sync" \in AllCommands /\ Commands \subseteq AllCommands
  BY HooksAssumption DEF AllCommands
<1> QED BY <1>2, <1>3, <1>4, <1>5 DEF Acts, Checkout

\* Nobody joins it, without both being known to overlap.
LEMMA SolitaryStays ==
  ASSUME HooksInv, Solitary, [Next]_vars
  PROVE  Solitary'
<1> SUFFICES ASSUME NEW p \in Processes, NEW q \in Processes, Lone(p)', q # p
             PROVE  pc'[q] = "idle"
  BY DEF Solitary
<1>1. CASE UNCHANGED vars
  BY <1>1 DEF Solitary, Lone, vars
<1>2. CASE Lone(p) /\ Step(p)
  <2>1. Acts(p)
    BY <1>2 DEF Acts
  <2> QED BY <1>2, <2>1, OthersStay DEF Solitary
<1>3. CASE Idle /\ \E c \in AllCommands : Start(p, c)
  <2>1. pc \in [Processes -> Places] /\ \E s : pc' = [pc EXCEPT ![p] = s]
    BY <1>3, TypesOf DEF Start
  <2> QED BY <1>3, <2>1 DEF Idle
<1> QED BY <1>1, <1>2, <1>3, LoneStep

\* The pair of lines that init adds to info/exclude.
NoPair(s) == \A i \in 1..(Len(s) - 1) : ~(s[i] = "comment" /\ s[i + 1] = "ignore")

\* The steps after the verification.
Afterwards == {"lock", "removeEnv", "drop", "readExclude", "writeExclude", "report"}

\* What a command that is alone has found or done, by its next step.
Found(j, step) ==
  /\ j.path = path
  /\ step = "sync" => j.command \notin Undo
  /\ step \in {"lock"} \cup Section => j.command = "deinit"
  /\ j.command \in Undo /\ step \in Afterwards /\ j.residue \cap Names = {} /\ HasFiles(path) =>
       \A n \in Names : Neutral(hook[path.dir][n])
  /\ j.command = "deinit" /\ step \in {"drop", "readExclude", "writeExclude", "report"}
       /\ "env" \notin j.residue => ~env
  /\ j.command = "deinit" /\ step \in {"readExclude", "writeExclude", "report"}
       /\ "allocations" \notin j.residue => ~allocated

\* A command alone has nobody beside it, and found what it relies on.
SoloInv == Solitary /\ \A p \in Processes : Lone(p) => Found(job[p], pc[p])

\* What a command alone has found stays true until it reports: step by step.
LEMMA SoloStays ==
  ASSUME HooksInv, HooksInv', SoloInv, [Next]_vars
  PROVE  SoloInv'
<1>1. Solitary'
  BY SolitaryStays DEF SoloInv
<1> SUFFICES ASSUME NEW p \in Processes, Lone(p)'
             PROVE  Found(job[p], pc[p])'
  BY <1>1 DEF SoloInv
<1>2. /\ pc \in [Processes -> Places] /\ job \in [Processes -> Job]
      /\ job[p] \in Job
  BY TypesOf
<1>3. CASE UNCHANGED vars
  <2>1. Found(job[p], pc[p])
    BY <1>3 DEF SoloInv, Lone, vars
  <2> QED BY <1>3, <2>1 DEF Found, vars, files, world
<1>4. CASE Idle /\ \E c \in AllCommands : Start(p, c)
  <2>1. PICK c \in AllCommands : Start(p, c)
    BY <1>4
  <2> DEFINE j == [NoJob EXCEPT !.command = c, !.path = path, !.todo = InOrder]
  <2>2. pc'[p] = FirstStep(c) /\ job'[p] = j /\ path' = path
    BY <1>2, <2>1 DEF Start, world
  <2>3. j.command = c /\ j.path = path
    BY DEF NoJob
  <2> HIDE DEF j
  <2>4. FirstStep(c) \in {"locate", "readExclude", "readHook", "sync"}
    BY DEF FirstStep, AllCommands
  <2>5. c \in Undo => FirstStep(c) = "readHook"
    BY DEF FirstStep, Undo
  <2> QED BY <2>2, <2>3, <2>4, <2>5 DEF Found, Afterwards, Section, Undo
<1>5. CASE Lone(p) /\ Step(p)
  <2>1. Found(job[p], pc[p])
    BY <1>5 DEF SoloInv
  <2>2. path' = path
    BY <1>5, StepsQuietly DEF world
  <2>3. ~Ends(p) /\ ~Fails(p)
    BY <1>2 DEF Ends, Fails, Lone
  <2>4. ASSUME NEW step, pc' = [pc EXCEPT ![p] = step] PROVE pc'[p] = step
    BY <1>2, <2>4
  <2>5. ASSUME NEW step, Goes(p, step) PROVE pc'[p] = step
    BY <2>4, <2>5 DEF Goes
  <2> DEFINE c == job[p].command
  <2>6. AfterHooks(c) = "verify" \/ c \notin Undo
    BY DEF AfterHooks, Undo
  <2>7. ASSUME pc'[p] \in {"locate", "readHook", "writeHook", "verify", AfterHooks(c)},
               job'[p].command = c, job'[p].path = job[p].path
        PROVE  Found(job[p], pc[p])'
    <3>1. AfterHooks(c) \in {"readExclude", "report", "verify"}
      BY DEF AfterHooks
    <3> QED BY <2>1, <2>2, <2>6, <2>7, <3>1 DEF Found, Afterwards, Section, Undo
  <2>8. ASSUME NEW last, Done(p, last)
        PROVE  Found(job[p], pc[p])'
    <3>1. pc'[p] \in {"readHook", AfterHooks(c)}
      BY <2>5, <2>8 DEF Done
    <3>2. job'[p].command = c /\ job'[p].path = job[p].path
      BY <1>2, <2>8 DEF Done, Job
    <3> QED BY <2>7, <3>1, <3>2
  <2>9. CASE Locate(p)
    <3>1. pc'[p] \in {"readHook", AfterHooks(c)}
      BY <2>3, <2>5, <2>9 DEF Locate
    <3>2. job'[p].command = c /\ job'[p].path = job[p].path
      BY <1>2, <2>3, <2>9 DEF Locate, Job
    <3> QED BY <2>7, <3>1, <3>2
  <2>10. CASE ReadHook(p)
    <3>1. CASE pc'[p] = "writeHook"
      <4>1. Acts(p)
        BY <1>5 DEF Acts
      <4>2. job'[p].path = job[p].path
        BY <3>1, <4>1, Planned
      <4>3. job'[p].command = c \/ \E last : Done(p, last)
        <5> DEFINE h == job[p].path
                   f == hook[h.dir][Head(job[p].todo)]
                   r == IF Installing(p) THEN Installed(f, binary) ELSE Removed(f)
        <5>1. \/ \E last : Done(p, last)
              \/ job' = [job EXCEPT ![p].plan = r.file, ![p].last = r.outcome]
          BY <2>3, <2>10 DEF ReadHook
        <5> HIDE DEF r
        <5>2. CASE job' = [job EXCEPT ![p].plan = r.file, ![p].last = r.outcome]
          BY <1>2, <5>2 DEF Job
        <5> QED BY <5>1, <5>2
      <4> QED BY <2>7, <2>8, <3>1, <4>2, <4>3
    <3>2. CASE pc'[p] # "writeHook"
      <4>1. \E last : Done(p, last)
        BY <2>3, <2>5, <2>10, <3>2 DEF ReadHook
      <4> QED BY <2>8, <4>1
    <3> QED BY <3>1, <3>2
  <2>11. CASE WriteHook(p)
    BY <2>3, <2>8, <2>11 DEF WriteHook
  <2>12. CASE Verify(p)
    <3>1. /\ job'[p].residue = Unneutralized(job[p].path)
          /\ job'[p].command = c /\ job'[p].path = job[p].path /\ hook' = hook
      BY <1>2, <2>12 DEF Verify, Job, files
    <3>2. /\ c = "unhook" => pc'[p] = "report"
          /\ c = "deinit" => pc'[p] = "lock"
          /\ c \notin {"unhook", "deinit"} => pc'[p] = "readExclude"
      BY <2>5, <2>12 DEF Verify
    <3>3. job[p].path = path
      BY <2>1 DEF Found
    <3>4. Unneutralized(path) \cap Names = {} /\ HasFiles(path) =>
            \A n \in Names : Neutral(hook[path.dir][n])
      BY DEF Unneutralized
    <3> QED BY <2>2, <3>1, <3>2, <3>3, <3>4 DEF Found, Section
  <2>13. CASE Acquire(p)
    <3>1. pc'[p] = "removeEnv" /\ pc[p] = "lock" /\ UNCHANGED <<hook, job>>
      BY <2>4, <2>13 DEF Acquire, files
    <3> QED BY <2>1, <2>2, <3>1 DEF Found, Section, Afterwards
  <2>14. CASE RemoveEnv(p)
    <3>1. pc'[p] = "drop" /\ pc[p] = "removeEnv" /\ hook' = hook
      BY <2>5, <2>14 DEF RemoveEnv
    <3>2. /\ job'[p].command = c /\ job'[p].path = job[p].path
          /\ job'[p].residue \in {job[p].residue, job[p].residue \cup {"env"}}
          /\ "env" \notin job'[p].residue => ~env'
      BY <1>2, <2>14 DEF RemoveEnv, Job
    <3>3. "env" \notin Names
      BY DEF Names
    <3> QED BY <2>1, <2>2, <3>1, <3>2, <3>3 DEF Found, Section, Afterwards
  <2>15. CASE Drop(p)
    <3>1. pc'[p] = "readExclude" /\ pc[p] = "drop" /\ UNCHANGED <<hook, env>>
      BY <2>4, <2>15 DEF Drop
    <3>2. /\ job'[p].command = c /\ job'[p].path = job[p].path
          /\ job'[p].residue \in {job[p].residue, job[p].residue \cup {"allocations"}}
          /\ "allocations" \notin job'[p].residue => ~allocated'
      BY <1>2, <2>15 DEF Drop, Job
    <3>3. "allocations" \notin Names /\ "allocations" # "env"
      BY DEF Names
    <3> QED BY <2>1, <2>2, <3>1, <3>2, <3>3 DEF Found, Section, Afterwards
  <2>16. CASE ReadExclude(p) \/ WriteExclude(p)
    <3>1. /\ pc'[p] \in {"writeExclude", AfterExclude(c)}
          /\ pc[p] \in {"readExclude", "writeExclude"} /\ UNCHANGED <<hook, env, allocated>>
      BY <2>5, <2>16 DEF ReadExclude, WriteExclude, files
    <3>2. /\ job'[p].command = c /\ job'[p].path = job[p].path
          /\ job'[p].residue \in {job[p].residue, job[p].residue \cup {"exclude"}}
      BY <1>2, <2>16 DEF ReadExclude, WriteExclude, ExcludeKept, Job
    <3>3. "exclude" \notin Names /\ "exclude" # "env" /\ "exclude" # "allocations"
      BY DEF Names
    <3>4. AfterExclude(c) = "report" \/ (AfterExclude(c) = "sync" /\ c \notin Undo)
      BY DEF AfterExclude, Undo
    <3> QED BY <2>1, <2>2, <3>1, <3>2, <3>3, <3>4 DEF Found, Section, Afterwards
  <2>17. CASE Sync(p)
    <3>1. pc'[p] = "report" /\ pc[p] = "sync" /\ job' = job
      BY <2>5, <2>17 DEF Sync
    <3>2. c \notin Undo
      BY <2>1, <3>1 DEF Found
    <3> QED BY <2>1, <2>2, <3>1, <3>2 DEF Found, Section, Undo
  <2>18. ~Report(p)
    BY <2>3 DEF Report
  <2> QED BY <1>5, <2>9, <2>10, <2>11, <2>12, <2>13, <2>14, <2>15, <2>16, <2>17, <2>18 DEF Step
<1> QED BY <1>3, <1>4, <1>5, LoneStep DEF SoloInv

-----------------------------------------------------------------------------
(* Hooks that are silent.                                                  *)

\* Lines whose calls portool can tell by their surroundings.
TameLines == {s \in Seq(Line) : Tame(s)}

\* Every hook has such lines.
TameHooks == \A d \in Dirs, n \in Names : Tame(hook[d][n].lines)

\* People leave a call of portool outside of a well-formed block only where the
\* comment of portool's scripts or a begin marker stays in the file.
PeopleTame == TameHooks /\ [][EditHook => TameHooks']_vars

\* The lines of hooks are lines.
LEMMA HookLines ==
  ASSUME HooksInv, NEW d \in Dirs, NEW n \in Names
  PROVE  hook[d][n] \in File /\ hook[d][n].lines \in Seq(Line)
<1> DEFINE f == hook[d][n]
<1>1. f \in File
  BY TypesOf DEF Hooks
<1> HIDE DEF f
<1>2. f.lines \in Seq(Line)
  BY <1>1, FileIs
<1> QED BY <1>1, <1>2 DEF f

\* A hook that mentions portool nowhere does not call it.
LEMMA NeutralIsSilent ==
  ASSUME NEW f \in File, Tame(f.lines), Neutral(f)
  PROVE  ~MayRun(f)
<1> DEFINE s == f.lines
<1>1. s \in Seq(Line) /\ f.state \in {"absent", "text"}
  BY FileIs DEF Neutral
<1>2. SUFFICES ASSUME f.state = "text" PROVE ~Reached(s)
  BY <1>1 DEF MayRun, Runs
<1>3. ~Mentions(s)
  BY <1>2 DEF Neutral
<1> HIDE DEF s
<1>4. ~Valid(s) /\ ~Some(s, {"owned", "begin"}) /\ ~Some(s, Legacy)
  BY <1>3 DEF Valid, At, Mentions, Some
<1>5. Remains(s) = s
  BY <1>4 DEF Remains
<1>6. Tame(s)
  BY DEF s
<1>7. ~Some(s, Calls)
  BY <1>4, <1>5, <1>6 DEF Tame
<1> QED BY <1>4, <1>7 DEF Reached, Some

\* Commands add calls in blocks and in scripts of portool only.
LEMMA TameStays ==
  ASSUME HooksInv, HooksInv', AllIn(TameLines), [Next]_vars, EditHook => TameHooks'
  PROVE  AllIn(TameLines)'
<1>1. Closed(TameLines)
  <2> SUFFICES ASSUME NEW f \in File, NEW call \in Calls, f.lines \in TameLines
               PROVE  /\ Installed(f, call).file.lines \in TameLines
                      /\ Removed(f).file.lines \in TameLines
    BY DEF Closed
  <2> QED BY InstalledKeeps, RemovedKeeps, CommandLines DEF TameLines
<1>2. EditHook => \A d \in Dirs, n \in Names : hook'[d][n].lines \in TameLines
  <2> SUFFICES ASSUME EditHook, NEW d \in Dirs, NEW n \in Names
               PROVE  hook'[d][n].lines \in TameLines
    OBVIOUS
  <2>1. hook' \in Hooks
    BY DEF HooksInv, TypeOK
  <2> DEFINE g == hook'[d][n]
  <2>2. g \in File /\ Tame(g.lines)
    BY <2>1 DEF Hooks, TameHooks
  <2> HIDE DEF g
  <2>3. g.lines \in Seq(Line)
    BY <2>2, FileIs
  <2> QED BY <2>2, <2>3 DEF TameLines, g
<1> QED BY <1>1, <1>2, LinesStay

\* What Spec and PeopleTame keep.
SilentInv == HooksInv /\ SoloInv /\ AllIn(TameLines)

\* At first nobody runs,
LEMMA SoloStarts ==
  ASSUME Init
  PROVE  SoloInv /\ \A p \in Processes : pc[p] = "idle"
  BY DEF Init, SoloInv, Solitary, Lone

\* and the invariant holds always.
LEMMA Silent == Spec /\ PeopleTame => []SilentInv
<1>1. Init /\ HooksInv /\ TameHooks => SilentInv
  <2> SUFFICES ASSUME Init, HooksInv, TameHooks PROVE SilentInv
    OBVIOUS
  <2>1. \A d \in Dirs, n \in Names : hook[d][n].lines \in TameLines
    BY HookLines DEF TameHooks, TameLines
  <2> QED BY <2>1, SoloStarts DEF SilentInv, AllIn
<1>2. HooksInv' /\ SilentInv /\ [Next]_vars /\ [EditHook => TameHooks']_vars => SilentInv'
  <2> SUFFICES ASSUME HooksInv', SilentInv, [Next]_vars, [EditHook => TameHooks']_vars
               PROVE  SilentInv'
    OBVIOUS
  <2>1. EditHook => TameHooks'
    <3>1. EditHook => edits' # edits
      BY EditCounts DEF SilentInv
    <3> QED BY <3>1 DEF vars, world
  <2>2. AllIn(TameLines)'
    BY <2>1, TameStays DEF SilentInv
  <2>3. SoloInv'
    BY SoloStays DEF SilentInv
  <2> QED BY <2>2, <2>3 DEF SilentInv
<1> QED BY <1>1, <1>2, Invariance, PTL DEF Spec, PeopleTame

\* What a command that is alone has verified.
LEMMA Verified ==
  ASSUME SilentInv, NEW p \in Processes, Lone(p), job[p].command \in Undo,
         pc[p] \in Afterwards, job[p].residue \cap Names = {}, HasFiles(path), NEW n \in Names
  PROVE  ~Armed(n)
<1>1. Neutral(hook[path.dir][n])
  BY DEF SilentInv, SoloInv, Found
<1>2. path.dir \in Dirs
  BY TypesOf, HooksAssumption DEF SilentInv, HookPath
<1> DEFINE f == hook[path.dir][n]
<1>3. f \in File /\ Tame(f.lines)
  BY <1>2, HookLines DEF SilentInv, AllIn, TameLines
<1>4. ~MayRun(f)
  <2> HIDE DEF f
  <2> QED BY <1>1, <1>3, NeutralIsSilent DEF f
<1> QED BY <1>4 DEF Armed

\* Whatever the hooks and wherever git looks for them: deinit, alone, drops the
\* entries of a repository only when none of its hooks calls portool any more, so
\* that no checkout brings them back (deinit, steps 2 and 4).
THEOREM EntriesGoLast == Spec /\ PeopleTame => EntriesOutliveHooks
<1>1. SilentInv /\ [Next]_vars =>
        [allocated /\ ~allocated' /\ HasFiles(path) =>
           \A p \in Processes : Drop(p) /\ Alone(p) => \A n \in Names : ~Armed(n)]_vars
  <2> SUFFICES ASSUME SilentInv, allocated, ~allocated', HasFiles(path),
                      NEW p \in Processes, Drop(p), Alone(p), NEW n \in Names
               PROVE  ~Armed(n)
    OBVIOUS
  <2>1. Lone(p) /\ pc[p] = "drop"
    BY DEF Lone, Drop, Alone
  <2>2. job[p].residue \cap Names = {}
    BY DEF Drop
  <2>3. job[p].command \in Undo
    BY <2>1 DEF SilentInv, SoloInv, Found, Section, Undo
  <2> QED BY <2>1, <2>2, <2>3, Verified DEF Afterwards
<1> QED BY <1>1, Silent, PTL DEF Spec, EntriesOutliveHooks

\* Hooks that portool does not touch, as they may be another repository's.
SharedSilent ==
  \A h \in HookPaths : GitWillLook(h) /\ ~HasFiles(h) => \A n \in Names : ~MayRun(hook[h.dir][n])

\* Nobody calls portool from them.
PeopleApart == SharedSilent /\ [][EditHook => SharedSilent']_vars

\* Such hooks are the main worktree's or outside of it.
LEMMA SharedIsAway ==
  ASSUME NEW h \in HookPath, GitWillLook(h), ~HasFiles(h)
  PROVE  h.dir \in Dirs /\ RealRegion[h.dir] \in {"main", "outside"}
  BY DEF GitWillLook, GitLooks, HasFiles, Resolve, Classify, InsideRepository, HookPath,
         RealRegion, Dirs

\* No command writes them, so they stay silent.
LEMMA SharedStays ==
  ASSUME HooksInv, SharedSilent, [Next]_vars, EditHook => SharedSilent'
  PROVE  SharedSilent'
<1>1. CASE EditHook
  BY <1>1
<1>2. CASE ~EditHook
  <2>1. edits' = edits \/ UNCHANGED hook
    <3>1. \A p : Acts(p) => edits' = edits
      BY StepsQuietly DEF Acts, Checkout, Start, world
    <3>2. People => UNCHANGED hook
      BY <1>2 DEF People, SetHooksPath, MoveBinary, files
    <3> QED BY <3>1, <3>2, WhoActs DEF vars, files
  <2>2. \A d \in Dirs : RealRegion[d] \in {"main", "outside"} => hook'[d] = hook[d]
    BY <2>1, StepsStayHome DEF Away
  <2>3. ASSUME NEW h \in HookPaths, GitWillLook(h), ~HasFiles(h), NEW n \in Names
        PROVE  ~MayRun(hook'[h.dir][n])
    <3>1. hook'[h.dir] = hook[h.dir]
      BY <2>2, <2>3, SharedIsAway, HooksAssumption
    <3> QED BY <2>3, <3>1 DEF SharedSilent
  <2> QED BY <2>3 DEF SharedSilent
<1> QED BY <1>1, <1>2

\* An unhook or deinit, alone, that reports success, leaves no hook that calls
\* portool, in whichever way the call came there: as a block, as an appended line
\* of an old version, or as portool's own script (unneutralized_hooks).
THEOREM UnhooksAreSilent == Spec /\ PeopleTame /\ PeopleApart => UnhookSilences
<1>1. HooksInv /\ SharedSilent /\ [Next]_vars /\ [EditHook => SharedSilent']_vars => SharedSilent'
  <2> SUFFICES ASSUME HooksInv, SharedSilent, [Next]_vars, [EditHook => SharedSilent']_vars
               PROVE  SharedSilent'
    OBVIOUS
  <2>1. EditHook => edits' # edits
    BY EditCounts
  <2>2. EditHook => SharedSilent'
    BY <2>1 DEF vars, world
  <2> QED BY <2>2, SharedStays
<1>2. SilentInv /\ SharedSilent /\ [Next]_vars =>
        [\A p \in Processes :
           /\ Reports(p) /\ Alone(p) /\ Succeeds(p)
           /\ job[p].command \in {"unhook", "deinit", "deinitKeep"}
           => \A n \in Names : ~Armed(n)]_vars
  <2> SUFFICES ASSUME SilentInv, SharedSilent, NEW p \in Processes,
                      Reports(p), Alone(p), Succeeds(p), job[p].command \in Undo, NEW n \in Names
               PROVE  ~Armed(n)
    BY DEF Undo
  <2>1. Lone(p) /\ pc[p] = "report"
    BY DEF Lone, Reports, Alone
  <2>2. job[p].residue = {}
    BY DEF Succeeds, Undo, Installing
  <2>3. CASE HasFiles(path)
    BY <2>1, <2>2, <2>3, Verified DEF Afterwards
  <2>4. CASE ~HasFiles(path)
    <3>1. path \in HookPaths
      BY TypesOf DEF SilentInv
    <3> QED BY <2>4, <3>1 DEF SharedSilent, Armed
  <2> QED BY <2>3, <2>4
<1> QED BY <1>1, <1>2, Silent, Invariance, PTL DEF Spec, PeopleApart, UnhookSilences

-----------------------------------------------------------------------------
(* info/exclude.                                                           *)

\* No second line "ignore".
OneIgnore(s) == \A i, k \in 1..Len(s) : s[i] = "ignore" /\ s[k] = "ignore" => i = k

\* Taking the pair out leaves none, where there are no two lines to pair.
LEMMA PairGone ==
  ASSUME NEW s \in Seq(ExcludeLine), OneIgnore(s)
  PROVE  NoPair(WithoutPair(s)) /\ OneIgnore(WithoutPair(s))
<1> DEFINE K == {i \in DOMAIN s : ~PairAt(s, i) /\ (i = 1 \/ ~PairAt(s, i - 1))}
           t == WithoutPair(s)
<1>1. Len(s) \in Nat /\ DOMAIN s = 1..Len(s)
  OBVIOUS
<1>2. t = Keep(s, K)
  BY DEF WithoutPair
<1> SUFFICES NoPair(t) /\ OneIgnore(t)
  OBVIOUS
<1> HIDE DEF t
<1>3. CASE \E i \in DOMAIN s : PairAt(s, i)
  <2>1. PICK i \in 1..Len(s) : PairAt(s, i)
    BY <1>1, <1>3
  <2>2. i + 1 \in 1..Len(s) /\ s[i + 1] = "ignore" /\ i + 1 # 1 /\ (i + 1) - 1 = i
    BY <1>1, <2>1 DEF PairAt
  <2>3. i + 1 \notin K
    BY <2>1, <2>2
  <2> DEFINE R == ExcludeLine \ {"ignore"}
  <2>4. \A k \in 1..Len(s) : k \in K => s[k] \in R
    <3> SUFFICES ASSUME NEW k \in 1..Len(s), k \in K PROVE s[k] \in R
      OBVIOUS
    <3>1. s[k] \in ExcludeLine
      OBVIOUS
    <3>2. s[k] # "ignore"
      BY <2>2, <2>3 DEF OneIgnore
    <3> QED BY <3>1, <3>2
  <2> HIDE DEF K
  <2>5. t \in Seq(R)
    BY <1>2, <2>4, KeptType
  <2>6. \A k \in 1..Len(t) : t[k] # "ignore"
    BY <2>5
  <2>7. \A k \in 1..(Len(t) - 1) : k + 1 \in 1..Len(t)
    BY <2>5
  <2> QED BY <2>6, <2>7 DEF NoPair, OneIgnore
<1>4. CASE \A i \in DOMAIN s : ~PairAt(s, i)
  <2> DEFINE L == {i \in DOMAIN s : ~IsLegacy(s[i])}
  <2>1. \A i \in 1..Len(s) : ~IsLegacy(s[i])
    BY DEF IsLegacy, Legacy, ExcludeLine
  <2>2. K = DOMAIN s /\ L = DOMAIN s
    BY <1>1, <1>4, <2>1
  <2>3. WithoutLegacy(s) = s
    BY <2>1, NoneFiltered
  <2>4. Keep(s, L) = s
    BY <2>3 DEF WithoutLegacy
  <2>5. t = s
    BY <1>2, <2>2, <2>4, Zenon
  <2>6. NoPair(s)
    <3>1. ASSUME NEW i \in 1..(Len(s) - 1), s[i] = "comment", s[i + 1] = "ignore" PROVE FALSE
      <4>1. i \in DOMAIN s /\ i < Len(s)
        BY <1>1
      <4>2. PairAt(s, i)
        BY <3>1, <4>1 DEF PairAt
      <4> QED BY <1>4, <4>1, <4>2
    <3> QED BY <3>1 DEF NoPair
  <2> QED BY <2>5, <2>6
<1> QED BY <1>3, <1>4

\* Adding it adds no second line.
LEMMA PairOnce ==
  ASSUME NEW s \in Seq(ExcludeLine), OneIgnore(s)
  PROVE  OneIgnore(WithPair(s))
<1>1. CASE Contains(s, "ignore")
  BY <1>1 DEF WithPair
<1>2. CASE ~Contains(s, "ignore")
  <2> DEFINE pair == <<"comment", "ignore">>
             t == s \o pair
  <2>1. pair \in Seq(ExcludeLine) /\ Len(pair) = 2 /\ pair[1] = "comment" /\ Len(s) \in Nat
    BY DEF ExcludeLine
  <2> HIDE DEF pair
  <2>2. /\ Len(t) = Len(s) + 2
        /\ \A i \in 1..(Len(s) + 2) : t[i] = IF i <= Len(s) THEN s[i] ELSE pair[i - Len(s)]
    <3>1. /\ Len(t) = Len(s) + Len(pair)
          /\ \A i \in 1..(Len(s) + Len(pair)) :
                t[i] = IF i <= Len(s) THEN s[i] ELSE pair[i - Len(s)]
      BY <2>1, Joined
    <3> HIDE DEF t
    <3> QED BY <2>1, <3>1
  <2> HIDE DEF t
  <2>3. \A i \in 1..Len(t) : t[i] = "ignore" => i = Len(s) + 2
    <3> SUFFICES ASSUME NEW i \in 1..Len(t), t[i] = "ignore" PROVE i = Len(s) + 2
      OBVIOUS
    <3>1. ~(i <= Len(s))
      <4> SUFFICES ASSUME i <= Len(s) PROVE FALSE
        OBVIOUS
      <4>1. i \in 1..Len(s) /\ s[i] = "ignore"
        BY <2>1, <2>2
      <4> QED BY <1>2, <4>1 DEF Contains
    <3>2. t[i] = pair[i - Len(s)] /\ i - Len(s) \in {1, 2}
      BY <2>1, <2>2, <3>1
    <3> QED BY <2>1, <3>2
  <2>4. OneIgnore(t)
    BY <2>3 DEF OneIgnore
  <2>5. WithPair(s) = t
    BY <1>2 DEF WithPair, t, pair
  <2> QED BY <2>4, <2>5
<1> QED BY <1>1, <1>2

\* What info/exclude has, is to have, and has after a deinit that was alone.
ExcludeInv ==
  /\ OneIgnore(exclude)
  /\ \A p \in Processes : pc[p] = "writeExclude" =>
       OneIgnore(job[p].lines) /\ (Undoing(p) => NoPair(job[p].lines))
  /\ \A p \in Processes :
       Lone(p) /\ Undoing(p) /\ pc[p] = "report" /\ "exclude" \notin job[p].residue =>
         NoPair(exclude)

\* Where info/exclude is changed, and by whom.
LEMMA ExcludeChanges ==
  ASSUME [Next]_vars, ~UNCHANGED exclude
  PROVE  \E p \in Processes : WriteExclude(p) /\ exclude' = job[p].lines
<1>1. ~People /\ ~UNCHANGED vars
  BY DEF People, EditHook, SetHooksPath, MoveBinary, vars, files
<1>2. PICK p \in Processes : Acts(p)
  BY <1>1, WhoActs
<1>3. WriteExclude(p)
  <2>1. ~Crash(p) /\ ~Report(p) /\ ~Checkout(p) /\ \A c : ~Start(p, c)
    BY DEF Crash, Report, Fails, Checkout, Start, files
  <2>2. ~Locate(p) /\ ~ReadHook(p) /\ ~WriteHook(p) /\ ~Verify(p)
    BY DEF Locate, ReadHook, WriteHook, Verify, Fails, files
  <2>3. ~Acquire(p) /\ ~RemoveEnv(p) /\ ~Drop(p) /\ ~ReadExclude(p) /\ ~Sync(p)
    BY DEF Acquire, RemoveEnv, Drop, ReadExclude, Sync, files
  <2> QED BY <1>2, <2>1, <2>2, <2>3 DEF Acts, Step
<1> QED BY <1>3 DEF WriteExclude

\* What is to be written is the lines read, with the pair or without.
LEMMA ExcludePlanned ==
  ASSUME HooksInv, NEW p \in Processes, Acts(p), pc'[p] = "writeExclude"
  PROVE  /\ UNCHANGED exclude /\ job'[p].command = job[p].command
         /\ job'[p].lines = IF Undoing(p) THEN WithoutPair(exclude) ELSE WithPair(exclude)
<1>1. pc \in [Processes -> Places] /\ job \in [Processes -> Job] /\ job[p] \in Job
  BY TypesOf
<1>2. ASSUME NEW step, pc' = [pc EXCEPT ![p] = step] PROVE step = "writeExclude"
  BY <1>1, <1>2
<1>3. ASSUME NEW step, Goes(p, step) PROVE step = "writeExclude"
  BY <1>2, <1>3 DEF Goes
<1>4. ~Ends(p) /\ ~Fails(p)
  BY <1>2 DEF Ends, Fails
<1>5. \A last : ~Done(p, last)
  BY <1>3 DEF Done, AfterHooks
<1>6. \A c \in AllCommands : ~Start(p, c)
  <2> SUFFICES ASSUME NEW c \in AllCommands, Start(p, c) PROVE FALSE
    OBVIOUS
  <2>1. FirstStep(c) = "writeExclude"
    BY <1>2 DEF Start
  <2> QED BY <2>1 DEF FirstStep, AllCommands
<1>7. ~Checkout(p) /\ ~Crash(p) /\ ~Report(p) /\ ~WriteHook(p)
  <2>1. "sync" \in AllCommands
    BY DEF AllCommands
  <2> QED BY <1>4, <1>5, <1>6, <2>1 DEF Checkout, Crash, Report, WriteHook
<1>8. ~Locate(p) /\ ~ReadHook(p)
  BY <1>3, <1>4, <1>5 DEF Locate, ReadHook, AfterHooks
<1>9. ~Verify(p)
  BY <1>3 DEF Verify
<1>10. ~Acquire(p) /\ ~Drop(p)
  BY <1>2 DEF Acquire, Drop
<1>11. ~RemoveEnv(p) /\ ~Sync(p) /\ ~WriteExclude(p)
  BY <1>3 DEF RemoveEnv, Sync, WriteExclude, AfterExclude
<1>12. ReadExclude(p)
  BY HooksAssumption, <1>6, <1>7, <1>8, <1>9, <1>10, <1>11 DEF Acts, Step
<1> DEFINE new == IF Undoing(p) THEN WithoutPair(exclude) ELSE WithPair(exclude)
<1>13. job' = [job EXCEPT ![p].lines = new] /\ UNCHANGED exclude
  BY <1>3, <1>12 DEF ReadExclude, AfterExclude, files
<1> HIDE DEF new
<1>14. job'[p].lines = new /\ job'[p].command = job[p].command
  BY <1>1, <1>13 DEF Job
<1> QED BY <1>13, <1>14 DEF new

\* Each of its parts outlives every step.
LEMMA ExcludeStays ==
  ASSUME HooksInv, SoloInv, ExcludeInv, [Next]_vars
  PROVE  ExcludeInv'
<1>1. /\ pc \in [Processes -> Places] /\ job \in [Processes -> Job]
      /\ exclude \in Seq(ExcludeLine)
  BY TypesOf
<1>2. OneIgnore(exclude')
  <2>1. CASE UNCHANGED exclude
    BY <2>1 DEF ExcludeInv
  <2>2. CASE ~UNCHANGED exclude
    BY <2>2, ExcludeChanges DEF ExcludeInv, WriteExclude
  <2> QED BY <2>1, <2>2
<1>3. ASSUME NEW q \in Processes, pc'[q] = "writeExclude"
      PROVE  OneIgnore(job'[q].lines) /\ (Undoing(q)' => NoPair(job'[q].lines))
  <2>1. CASE pc'[q] = pc[q] /\ job'[q] = job[q]
    BY <1>3, <2>1 DEF ExcludeInv, Undoing
  <2>2. CASE Acts(q)
    <3>1. /\ Undoing(q)' <=> Undoing(q)
          /\ job'[q].lines = IF Undoing(q) THEN WithoutPair(exclude) ELSE WithPair(exclude)
      BY <1>3, <2>2, ExcludePlanned DEF Undoing
    <3>2. /\ OneIgnore(WithPair(exclude)) /\ OneIgnore(WithoutPair(exclude))
          /\ NoPair(WithoutPair(exclude))
      BY <1>1, PairGone, PairOnce DEF ExcludeInv
    <3> QED BY <3>1, <3>2
  <2>3. ASSUME NEW p \in Processes, Acts(p), p # q
        PROVE  pc'[q] = pc[q] /\ job'[q] = job[q]
    BY <2>3, OthersStay
  <2>4. CASE People \/ UNCHANGED vars
    BY <2>1, <2>4 DEF People, EditHook, SetHooksPath, MoveBinary, vars
  <2> QED BY <2>1, <2>2, <2>3, <2>4, WhoActs
<1>4. ASSUME NEW p \in Processes, Lone(p)', Undoing(p)', pc'[p] = "report",
             "exclude" \notin job'[p].residue
      PROVE  NoPair(exclude')
  <2>1. CASE UNCHANGED vars
    BY <1>4, <2>1 DEF ExcludeInv, Lone, Undoing, vars, files
  <2>2. ~\E c \in AllCommands : Start(p, c)
    <3> SUFFICES ASSUME NEW c \in AllCommands, Start(p, c) PROVE FALSE
      OBVIOUS
    <3>1. FirstStep(c) = "report"
      BY <1>1, <1>4 DEF Start
    <3> QED BY <3>1 DEF FirstStep, AllCommands
  <2>3. CASE Lone(p) /\ Step(p)
    <3>1. ASSUME NEW step, pc' = [pc EXCEPT ![p] = step] PROVE step = "report"
      BY <1>1, <1>4, <3>1
    <3>2. ASSUME NEW step, Goes(p, step) PROVE step = "report"
      BY <3>1, <3>2 DEF Goes
    <3>3. ~Ends(p) /\ ~Fails(p)
      BY <3>1 DEF Ends, Fails
    <3>4. Undoing(p)
      <4>1. Acts(p)
        BY <2>3 DEF Acts
      <4>2. Found(job[p], pc[p])
        BY <2>3 DEF SoloInv
      <4>3. job'[p].command = job[p].command
        <5>1. \A last : Done(p, last) => job'[p].command = job[p].command
          BY <1>1 DEF Done, Job
        <5>2. CASE ReadHook(p)
          <6> DEFINE h == job[p].path
                     f == hook[h.dir][Head(job[p].todo)]
                     r == IF Installing(p) THEN Installed(f, binary) ELSE Removed(f)
          <6>1. \/ \E last : Done(p, last)
                \/ job' = [job EXCEPT ![p].plan = r.file, ![p].last = r.outcome]
            BY <3>3, <5>2 DEF ReadHook
          <6> HIDE DEF r
          <6>2. CASE job' = [job EXCEPT ![p].plan = r.file, ![p].last = r.outcome]
            BY <1>1, <6>2 DEF Job
          <6> QED BY <5>1, <6>1, <6>2
        <5>3. CASE ~ReadHook(p)
          BY <1>1, <2>3, <3>3, <5>1, <5>3 DEF Step, Locate, WriteHook, Verify, Acquire,
             RemoveEnv, Drop, ReadExclude, WriteExclude, ExcludeKept, Sync, Report, Job
        <5> QED BY <5>2, <5>3
      <4> QED BY <1>4, <4>3 DEF Undoing
    <3>5. AfterHooks(job[p].command) = "verify"
      BY <3>4 DEF Undoing, AfterHooks
    <3>6. \A last : ~Done(p, last)
      BY <3>2, <3>5 DEF Done
    <3>7. ~Locate(p) /\ ~ReadHook(p) /\ ~WriteHook(p) /\ ~Report(p)
      BY <3>2, <3>3, <3>5, <3>6 DEF Locate, ReadHook, WriteHook, Report
    <3>8. ~Verify(p)
      BY <3>2, <3>4 DEF Verify, Undoing
    <3>9. ~Acquire(p) /\ ~RemoveEnv(p) /\ ~Drop(p)
      BY <3>1, <3>2 DEF Acquire, RemoveEnv, Drop
    <3>10. ~Sync(p)
      <4>1. Found(job[p], pc[p])
        BY <2>3 DEF SoloInv
      <4> QED BY <3>4, <4>1 DEF Sync, Found, Undoing, Undo
    <3>11. ~ExcludeKept(p)
      <4> SUFFICES ASSUME job' = [job EXCEPT ![p].residue = @ \cup {"exclude"}] PROVE FALSE
        BY DEF ExcludeKept
      <4>1. "exclude" \in job'[p].residue
        BY <1>1 DEF Job
      <4> QED BY <1>4, <4>1
    <3>12. CASE ReadExclude(p)
      <4>1. WithoutPair(exclude) = exclude /\ exclude' = exclude
        BY <3>2, <3>4, <3>11, <3>12 DEF ReadExclude, files
      <4>2. NoPair(WithoutPair(exclude))
        BY <1>1, PairGone DEF ExcludeInv
      <4> QED BY <4>1, <4>2
    <3>13. CASE WriteExclude(p)
      <4>1. exclude' = job[p].lines /\ pc[p] = "writeExclude"
        BY <3>11, <3>13 DEF WriteExclude
      <4> QED BY <3>4, <4>1 DEF ExcludeInv
    <3> QED BY <2>3, <3>7, <3>8, <3>9, <3>10, <3>12, <3>13 DEF Step
  <2> QED BY <1>4, <2>1, <2>2, <2>3, LoneStep DEF SoloInv
<1> QED BY <1>2, <1>3, <1>4 DEF ExcludeInv

\* A deinit, alone, that reports success, has left neither an env file nor an
\* entry of the repository, and none of the lines init added to info/exclude: each
\* of the steps that may fail and go on has taken down what it left (deinit).  The
\* pair is taken out once, so a user's own second line, behind a comment like
\* portool's, could form another.
THEOREM DeinitIsThorough ==
  (Spec /\ \A s \in Excludes : OneIgnore(s)) => DeinitLeavesNothing
<1>1. Init /\ (\A s \in Excludes : OneIgnore(s)) => SoloInv /\ ExcludeInv
  <2> SUFFICES ASSUME Init, \A s \in Excludes : OneIgnore(s) PROVE SoloInv /\ ExcludeInv
    OBVIOUS
  <2>1. OneIgnore(exclude)
    BY DEF Init
  <2> QED BY <2>1, SoloStarts DEF ExcludeInv
<1>2. HooksInv /\ HooksInv' /\ SoloInv /\ ExcludeInv /\ [Next]_vars => SoloInv' /\ ExcludeInv'
  BY SoloStays, ExcludeStays
<1>3. HooksInv /\ SoloInv /\ ExcludeInv /\ [Next]_vars =>
        [\A p \in Processes :
           Reports(p) /\ Alone(p) /\ Succeeds(p) /\ job[p].command = "deinit" =>
             /\ ~env /\ ~allocated
             /\ \A i \in 1..(Len(exclude) - 1) :
                  ~(exclude[i] = "comment" /\ exclude[i + 1] = "ignore")]_vars
  <2> SUFFICES ASSUME HooksInv, SoloInv, ExcludeInv, NEW p \in Processes,
                      Reports(p), Alone(p), Succeeds(p), job[p].command = "deinit"
               PROVE  /\ ~env /\ ~allocated
                      /\ \A i \in 1..(Len(exclude) - 1) :
                           ~(exclude[i] = "comment" /\ exclude[i + 1] = "ignore")
    OBVIOUS
  <2>1. Lone(p) /\ pc[p] = "report"
    BY DEF Lone, Reports, Alone
  <2>2. job[p].residue = {}
    BY DEF Succeeds, Installing
  <2>3. ~env /\ ~allocated
    BY <2>1, <2>2 DEF SoloInv, Found
  <2>4. NoPair(exclude)
    BY <2>1, <2>2 DEF ExcludeInv, Undoing
  <2> QED BY <2>3, <2>4 DEF NoPair
<1> QED BY <1>1, <1>2, <1>3, Invariance, PTL DEF Spec, DeinitLeavesNothing

-----------------------------------------------------------------------------
(* Blocks a shell gets to.                                                 *)

\* Where things stand in a file with a block.
LEMMA WrappedParts ==
  ASSUME NEW call \in Calls, NEW a \in Seq(Line), NEW c \in Seq(Line)
  PROVE  LET s == Wrapped(a, call, c)
             n == Len(a)
         IN /\ s \in Seq(Line) /\ Len(s) = n + 3 + Len(c)
            /\ \A i \in 1..n : s[i] = a[i]
            /\ s[n + 1] = "begin" /\ s[n + 2] = call /\ s[n + 3] = "end"
            /\ \A i \in (n + 4)..Len(s) : s[i] = c[i - (n + 3)]
<1> DEFINE m == Managed(call)
           am == a \o m
           s == am \o c
           n == Len(a)
<1>1. n \in Nat /\ Len(c) \in Nat
  OBVIOUS
<1>2. /\ m \in Seq(Line) /\ Len(m) = 3 /\ m[1] = "begin" /\ m[2] = call /\ m[3] = "end"
  BY CallBlock
<1> HIDE DEF m
<1>3. /\ am \in Seq(Line) /\ Len(am) = n + 3
      /\ \A i \in 1..(n + 3) : am[i] = IF i <= n THEN a[i] ELSE m[i - n]
  <2>1. /\ am \in Seq(Line) /\ Len(am) = Len(a) + Len(m)
        /\ \A i \in 1..(Len(a) + Len(m)) : am[i] = IF i <= Len(a) THEN a[i] ELSE m[i - Len(a)]
    BY <1>1, <1>2, Joined
  <2> HIDE DEF am
  <2> QED BY <1>2, <2>1
<1> HIDE DEF am
<1>4. /\ s \in Seq(Line) /\ Len(s) = n + 3 + Len(c)
      /\ \A i \in 1..(n + 3 + Len(c)) : s[i] = IF i <= n + 3 THEN am[i] ELSE c[i - (n + 3)]
  <2>1. /\ s \in Seq(Line) /\ Len(s) = Len(am) + Len(c)
        /\ \A i \in 1..(Len(am) + Len(c)) : s[i] = IF i <= Len(am) THEN am[i] ELSE c[i - Len(am)]
    <3>1. am \in Seq(Line) /\ c \in Seq(Line)
      BY <1>1, <1>3
    <3> QED BY <3>1, Joined
  <2> HIDE DEF s
  <2> QED BY <1>3, <2>1
<1>5. Wrapped(a, call, c) = s
  BY DEF Wrapped, am, m
<1> HIDE DEF s, n
<1>6. /\ \A i \in 1..n : s[i] = a[i]
      /\ s[n + 1] = "begin" /\ s[n + 2] = call /\ s[n + 3] = "end"
      /\ \A i \in (n + 4)..Len(s) : s[i] = c[i - (n + 3)]
  BY <1>1, <1>2, <1>3, <1>4
<1> QED BY <1>4, <1>5, <1>6 DEF n

\* A block between such parts is reached.
LEMMA WrappedAhead ==
  ASSUME NEW call \in Calls, NEW a \in Seq(Line), Clean(a), NEW c \in Seq(Line), Ahead(a \o c)
  PROVE  LET t == Wrapped(a, call, c)
         IN t \in Seq(Line) /\ Ahead(t) /\ Shell(t) /\ Reached(t)
<1> DEFINE t == Wrapped(a, call, c)
           u == a \o c
           n == Len(a)
<1>1. /\ t \in Seq(Line) /\ Len(t) = n + 3 + Len(c)
      /\ \A i \in 1..n : t[i] = a[i]
      /\ t[n + 1] = "begin" /\ t[n + 2] = call /\ t[n + 3] = "end"
      /\ \A i \in (n + 4)..Len(t) : t[i] = c[i - (n + 3)]
  BY WrappedParts
<1>2. /\ u \in Seq(Line) /\ Len(u) = n + Len(c)
      /\ \A i \in 1..(n + Len(c)) : u[i] = IF i <= n THEN a[i] ELSE c[i - n]
  BY Joined
<1>3. n \in Nat /\ Len(c) \in Nat /\ Ahead(u)
  OBVIOUS
<1>4. \A i \in 1..n : a[i] \notin {"exit", "other"}
  BY DEF Clean
<1> SUFFICES t \in Seq(Line) /\ Ahead(t) /\ Shell(t) /\ Reached(t)
  OBVIOUS
<1> HIDE DEF t, u, n
<1>5. call \notin {"begin", "end", "exit", "other"}
  BY DEF Calls
<1>6. \A i \in 1..(n + 3) : t[i] \notin {"exit", "other"}
  <2> SUFFICES ASSUME NEW i \in 1..(n + 3) PROVE t[i] \notin {"exit", "other"}
    OBVIOUS
  <2>1. i \in 1..n \/ i = n + 1 \/ i = n + 2 \/ i = n + 3
    BY <1>3
  <2> QED BY <1>1, <1>4, <1>5, <2>1
<1>7. Ahead(t)
  <2> SUFFICES ASSUME NEW i \in 1..Len(t), NEW j \in 1..Len(t), j < i,
                      t[j] \in {"exit", "other"}
               PROVE  t[i] \notin Legacy \cup {"begin"}
    BY DEF Ahead
  <2>1. j > n + 3
    BY <1>1, <1>3, <1>6
  <2> DEFINE k == i - 3
             l == j - 3
  <2>2. /\ i \in (n + 4)..Len(t) /\ j \in (n + 4)..Len(t)
        /\ k \in 1..Len(u) /\ l \in 1..Len(u) /\ l < k
        /\ ~(k <= n) /\ ~(l <= n) /\ k - n = i - (n + 3) /\ l - n = j - (n + 3)
    BY <1>1, <1>2, <1>3, <2>1
  <2> HIDE DEF k, l
  <2>3. t[i] = u[k] /\ t[j] = u[l]
    BY <1>1, <1>2, <2>2
  <2> QED BY <1>3, <2>2, <2>3 DEF Ahead
<1>8. Shell(t)
  <2>1. 1 \in 1..(n + 3) /\ 1 \in 1..Len(t)
    BY <1>1, <1>3
  <2> QED BY <1>1, <1>6, <2>1 DEF Shell
<1>9. Reached(t)
  <2>1. n + 2 \in DOMAIN t /\ \A j \in 1..(n + 2) : j \in 1..(n + 3)
    BY <1>1, <1>3
  <2> QED BY <1>1, <1>6, <2>1 DEF Reached
<1> QED BY <1>1, <1>7, <1>8, <1>9

\* What remains without the block, or without the appended lines, is no worse.
LEMMA AheadRemains ==
  ASSUME NEW s \in Seq(Line), ~Owned(s), Ahead(s)
  PROVE  /\ Ahead(Remains(s))
         /\ \A t : Unmarked(t) /\ t = WithoutLegacy(Remains(s)) => Ahead(t)
         /\ Valid(s) => Clean(Before(s)) /\ Before(s) \in Seq(Line) /\ After(s) \in Seq(Line)
<1> DEFINE Kept == /\ Ahead(Remains(s))
                   /\ Valid(s) => /\ Clean(Before(s))
                                  /\ Before(s) \in Seq(Line) /\ After(s) \in Seq(Line)
<1>1. ASSUME ~Valid(s) PROVE Kept
  BY <1>1 DEF Remains
<1>2. ASSUME Valid(s) PROVE Kept
  <2>1. PICK b, e \in 1..Len(s) :
           /\ b < e /\ The(At(s, "begin")) = b /\ The(At(s, "end")) = e
           /\ s[b] = "begin" /\ s[e] = "end"
    BY <1>2, ValidMarkers
  <2>2. Len(s) \in Nat
    OBVIOUS
  <2> DEFINE a == Before(s)
             c == After(s)
             u == a \o c
  <2>3. a \in Seq(Line) /\ Len(a) = b - 1 /\ \A i \in 1..(b - 1) : a[i] = s[i]
    <3> DEFINE r == SubSeq(s, 1, b - 1)
    <3>1. r \in Seq(Line) /\ Len(r) = b - 1 /\ \A i \in 1..(b - 1) : r[i] = s[i]
      <4>1. 1 \in 1..(Len(s) + 1) /\ b - 1 \in (1 - 1)..Len(s) /\ b - 1 + 1 - 1 = b - 1
        BY <2>2
      <4>2. \A i \in 1..(b - 1) : 1 + i - 1 = i
        BY <2>2
      <4> QED BY <4>1, <4>2, Part
    <3> QED BY <2>1, <3>1 DEF Before
  <2>4. /\ c \in Seq(Line) /\ Len(c) = Len(s) - e
        /\ \A i \in 1..(Len(s) - e) : c[i] = s[e + i]
    <3> DEFINE r == SubSeq(s, e + 1, Len(s))
    <3>1. r \in Seq(Line) /\ Len(r) = Len(s) - e /\ \A i \in 1..(Len(s) - e) : r[i] = s[e + i]
      <4>1. /\ e + 1 \in 1..(Len(s) + 1)
            /\ Len(s) \in (e + 1 - 1)..Len(s) /\ Len(s) + 1 - (e + 1) = Len(s) - e
        BY <2>2
      <4>2. \A i \in 1..(Len(s) - e) : e + 1 + i - 1 = e + i
        BY <2>2
      <4> QED BY <4>1, <4>2, Part
    <3> QED BY <2>1, <3>1 DEF After
  <2>5. Remains(s) = u
    BY <1>2, RemainsType
  <2> HIDE DEF a, c
  <2>6. /\ u \in Seq(Line) /\ Len(u) = Len(a) + Len(c)
        /\ \A i \in 1..(Len(a) + Len(c)) : u[i] = IF i <= Len(a) THEN a[i] ELSE c[i - Len(a)]
    BY <2>3, <2>4, Joined
  <2> HIDE DEF u
  <2> DEFINE at(i) == IF i <= b - 1 THEN i ELSE e + (i - (b - 1))
  <2>7. ASSUME NEW i \in 1..Len(u)
        PROVE  at(i) \in 1..Len(s) /\ u[i] = s[at(i)]
    <3>1. i \in 1..(Len(a) + Len(c)) /\ Len(a) = b - 1 /\ Len(c) = Len(s) - e
      BY <2>3, <2>4, <2>6
    <3>2. CASE i <= b - 1
      <4>1. i \in 1..(b - 1) /\ i \in 1..Len(s)
        BY <2>2, <3>2
      <4> QED BY <2>3, <2>6, <3>1, <3>2, <4>1
    <3>3. CASE i > b - 1
      <4> DEFINE k == i - (b - 1)
      <4>1. k \in 1..(Len(s) - e) /\ e + k \in 1..Len(s) /\ ~(i <= b - 1)
        BY <2>2, <3>1, <3>3
      <4>2. u[i] = c[k]
        BY <2>6, <3>1, <4>1
      <4>3. c[k] = s[e + k]
        <5> HIDE DEF k
        <5> QED BY <2>4, <4>1
      <4> QED BY <4>1, <4>2, <4>3
    <3> QED BY <2>2, <3>2, <3>3
  <2>8. \A i, j \in 1..Len(u) : j < i => at(j) < at(i)
    BY <2>1, <2>2
  <2>9. Ahead(u)
    <3> HIDE DEF at
    <3> QED BY <2>7, <2>8 DEF Ahead
  <2>10. Clean(a)
    <3>1. \A i \in 1..(b - 1) : i \in 1..Len(s) /\ i < b
      BY <2>2
    <3> QED BY <2>1, <2>3, <3>1 DEF Clean, Ahead
  <2>11. Clean(Before(s)) /\ Before(s) \in Seq(Line) /\ After(s) \in Seq(Line)
    BY <2>3, <2>4, <2>10 DEF a, c
  <2>12. Ahead(Remains(s))
    BY <2>5, <2>9
  <2> HIDE DEF at
  <2> QED BY <2>11, <2>12
<1>3. ASSUME NEW t, Unmarked(t), t = WithoutLegacy(Remains(s)) PROVE Ahead(t)
  <2> DEFINE r == Remains(s)
             R == Line \ Legacy
  <2>1. r \in Seq(Line)
    BY RemainsType
  <2> HIDE DEF r
  <2>2. WithoutLegacy(r) \in Seq(R)
    BY <2>1, KeptType DEF WithoutLegacy, IsLegacy
  <2>3. t \in Seq(R)
    BY <1>3, <2>2 DEF r
  <2>4. \A i \in 1..Len(t) : t[i] \notin Legacy /\ t[i] # "begin"
    BY <1>3, <2>3 DEF Unmarked
  <2> QED BY <2>4 DEF Ahead
<1> QED BY <1>1, <1>2, <1>3

\* A block that is the one to be put there is put there in vain.
LEMMA RegionIs ==
  ASSUME NEW s \in Seq(Line), Valid(s), NEW call \in Calls, Region(s) = Managed(call)
  PROVE  s = Replaced(s, Managed(call))
<1>1. PICK b, e \in 1..Len(s) :
         b < e /\ The(At(s, "begin")) = b /\ The(At(s, "end")) = e
  BY ValidMarkers
<1>2. Len(s) \in Nat
  OBVIOUS
<1> DEFINE a == SubSeq(s, 1, b - 1)
           m == SubSeq(s, b, e)
           c == SubSeq(s, e + 1, Len(s))
           am == a \o m
           t == am \o c
<1>3. a \in Seq(Line) /\ Len(a) = b - 1 /\ \A i \in 1..(b - 1) : a[i] = s[i]
  <2>1. 1 \in 1..(Len(s) + 1) /\ b - 1 \in (1 - 1)..Len(s) /\ b - 1 + 1 - 1 = b - 1
    BY <1>2
  <2>2. \A i \in 1..(b - 1) : 1 + i - 1 = i
    BY <1>2
  <2> QED BY <2>1, <2>2, Part
<1>4. /\ m \in Seq(Line) /\ Len(m) = e + 1 - b
      /\ \A i \in 1..(e + 1 - b) : m[i] = s[b + i - 1]
  <2>1. b \in 1..(Len(s) + 1) /\ e \in (b - 1)..Len(s)
    BY <1>1, <1>2
  <2> QED BY <2>1, Part
<1>5. /\ c \in Seq(Line) /\ Len(c) = Len(s) + 1 - (e + 1)
      /\ \A i \in 1..(Len(s) + 1 - (e + 1)) : c[i] = s[e + 1 + i - 1]
  <2>1. e + 1 \in 1..(Len(s) + 1) /\ Len(s) \in (e + 1 - 1)..Len(s)
    BY <1>2
  <2> QED BY <2>1, Part
<1>6. t = Replaced(s, Managed(call))
  BY <1>1 DEF Replaced, Before, Region, After
<1> HIDE DEF a, m, c
<1>7. /\ am \in Seq(Line) /\ Len(am) = Len(a) + Len(m)
      /\ \A i \in 1..(Len(a) + Len(m)) : am[i] = IF i <= Len(a) THEN a[i] ELSE m[i - Len(a)]
  BY <1>3, <1>4, Joined
<1> HIDE DEF am
<1>8. /\ t \in Seq(Line) /\ Len(t) = Len(am) + Len(c)
      /\ \A i \in 1..(Len(am) + Len(c)) : t[i] = IF i <= Len(am) THEN am[i] ELSE c[i - Len(am)]
  <2>1. am \in Seq(Line) /\ c \in Seq(Line)
    BY <1>5, <1>7
  <2> QED BY <2>1, Joined
<1> HIDE DEF t
<1>9. Len(am) = e /\ Len(t) = Len(s)
  BY <1>1, <1>2, <1>3, <1>4, <1>5, <1>7, <1>8
<1>10. ASSUME NEW i \in 1..Len(s) PROVE t[i] = s[i]
  <2>1. CASE i < b
    <3>1. i \in 1..(b - 1) /\ i <= e /\ i \in 1..(Len(a) + Len(m)) /\ i <= Len(a)
      BY <1>1, <1>2, <1>3, <1>4, <2>1
    <3> QED BY <1>3, <1>7, <1>8, <1>9, <3>1
  <2>2. CASE b <= i /\ i <= e
    <3> DEFINE k == i - (b - 1)
    <3>1. /\ k \in 1..(e + 1 - b) /\ b + k - 1 = i /\ k = i - Len(a)
          /\ i \in 1..(Len(a) + Len(m)) /\ ~(i <= Len(a))
      BY <1>1, <1>2, <1>3, <1>4, <2>2
    <3> HIDE DEF k
    <3>2. am[i] = m[k] /\ m[k] = s[i]
      BY <1>4, <1>7, <3>1
    <3> QED BY <1>8, <1>9, <2>2, <3>2
  <2>3. CASE i > e
    <3> DEFINE k == i - e
    <3>1. /\ k \in 1..(Len(s) + 1 - (e + 1)) /\ e + 1 + k - 1 = i /\ k = i - Len(am)
          /\ ~(i <= Len(am))
      BY <1>1, <1>2, <1>9, <2>3
    <3> HIDE DEF k
    <3>2. t[i] = c[k] /\ c[k] = s[i]
      BY <1>5, <1>8, <1>9, <3>1
    <3> QED BY <3>2
  <2> QED BY <1>1, <1>2, <2>1, <2>2, <2>3
<1>11. t = s
  BY <1>8, <1>9, <1>10, Same
<1> QED BY <1>6, <1>11

\* Lines whose block, if they have one, a shell gets to.
AheadLines == {s \in Seq(Line) : Owned(s) \/ Ahead(s)}

\* A shell gets to the call in portool's own script.
LEMMA ScriptRuns ==
  ASSUME NEW call \in Calls
  PROVE  Script(call) \in AheadLines /\ Runs(Text(TRUE, Script(call)))
<1> DEFINE s == Script(call)
<1>1. /\ s \in Seq(Line) /\ Owned(s) /\ Len(s) = 4 /\ DOMAIN s = 1..4
      /\ s[1] = "sh" /\ s[2] = "owned" /\ s[3] = call /\ s[4] = "exit" /\ s # <<>>
  BY CallBlock DEF Script, Line, Shebangs
<1>2. call # "exit"
  BY DEF Calls
<1> HIDE DEF s
<1>3. Shell(s)
  BY <1>1 DEF Shell
<1>4. Reached(s)
  <2>1. 3 \in DOMAIN s /\ s[3] \in Calls \cup Legacy /\ \A j \in 1..3 : j = 1 \/ j = 2 \/ j = 3
    BY <1>1
  <2>2. \A j \in 1..3 : s[j] # "exit"
    BY <1>1, <1>2, <2>1
  <2> QED BY <2>1, <2>2 DEF Reached
<1>5. Runs(Text(TRUE, s))
  BY <1>3, <1>4 DEF Runs, Text
<1> QED BY <1>1, <1>5 DEF AheadLines, s

\* A hook that is installed, or found current, is one that calls portool.
LEMMA InstalledWires ==
  ASSUME NEW f \in File, NEW call \in Calls, f.lines \in AheadLines
  PROVE  LET r == Installed(f, call)
         IN /\ r.file.lines \in AheadLines
            /\ r.outcome \in {"installed", "current"} => Runs(r.file)
<1> DEFINE r == Installed(f, call)
           s == f.lines
           Wrote(t) == Result(Text(TRUE, t), "installed")
           Current == Result(Text(TRUE, s), "current")
           Wires(x) == /\ x.file.lines \in AheadLines
                       /\ x.outcome \in {"installed", "current"} => Runs(x.file)
           Good(t) == t \in AheadLines /\ Runs(Text(TRUE, t))
<1> SUFFICES Wires(r)
  OBVIOUS
<1>1. f.state \in {"absent", "symlink", "unreadable", "text"} /\ s \in Seq(Line)
  BY FileIs
<1>2. \A g, o : Result(g, o).file = g /\ Result(g, o).outcome = o
  BY DEF Result
<1>3. \A t : Text(TRUE, t).lines = t
  BY DEF Text
<1>4. ASSUME NEW o \in {"skipped", "manual"}, r = Result(f, o) PROVE Wires(r)
  <2> HIDE DEF r
  <2>1. r.file = f /\ r.outcome = o
    BY <1>2, <1>4
  <2> QED BY <2>1
<1>5. ASSUME NEW t, Good(t), NEW o, r = Result(Text(TRUE, t), o) PROVE Wires(r)
  <2> HIDE DEF r
  <2> DEFINE g == Text(TRUE, t)
  <2>1. g.lines = t /\ Runs(g) /\ t \in AheadLines
    BY <1>3, <1>5
  <2> HIDE DEF g
  <2>2. r = Result(g, o)
    BY <1>5 DEF g
  <2>3. r.file = g
    BY <1>2, <2>2
  <2> QED BY <2>1, <2>3
<1>6. ASSUME NEW a \in Seq(Line), Clean(a), NEW c \in Seq(Line), Ahead(a \o c)
      PROVE  Good(Wrapped(a, call, c))
  <2> DEFINE t == Wrapped(a, call, c)
  <2>1. t \in Seq(Line) /\ Ahead(t) /\ Shell(t) /\ Reached(t)
    BY <1>6, WrappedAhead
  <2> HIDE DEF t
  <2>2. t \in AheadLines
    BY <2>1 DEF AheadLines
  <2>3. Runs(Text(TRUE, t))
    BY <2>1 DEF Runs, Text
  <2> QED BY <2>2, <2>3 DEF t
<1>7. CASE f.state = "symlink" \/ f.state = "unreadable" \/ f.state = "absent"
  <2>1. r = Result(f, "skipped") \/ r = Result(f, "manual") \/ r = Wrote(Script(call))
    BY <1>7 DEF Installed
  <2>2. Good(Script(call))
    BY ScriptRuns
  <2> HIDE DEF r, Wires, Good
  <2> QED BY <1>4, <1>5, <2>1, <2>2 DEF r
<1>8. CASE f.state = "text" /\ Owned(s)
  <2>1. r = Wrote(Script(call)) \/ (s = Script(call) /\ r = Current)
    BY <1>8 DEF Installed
  <2>2. Good(Script(call))
    BY ScriptRuns
  <2> HIDE DEF r, Wires, Good
  <2> QED BY <1>5, <2>1, <2>2 DEF r
<1>9. CASE f.state = "text" /\ ~Owned(s) /\ Malformed(s)
  <2>1. ~Valid(s) /\ ~NoMarkers(s)
    BY <1>9 DEF Malformed
  <2>2. r = Result(f, "manual")
    BY <1>9, <2>1 DEF Installed
  <2> HIDE DEF Wires
  <2> QED BY <1>4, <2>2
<1>10. CASE f.state = "text" /\ ~Owned(s) /\ Valid(s)
  <2>1. ~Malformed(s) /\ ~NoMarkers(s)
    BY <1>10 DEF Malformed, NoMarkers, Valid
  <2>2. Replaced(s, Managed(call)) = Wrapped(Before(s), call, After(s))
    BY DEF Replaced, Wrapped
  <2>3. Ahead(s)
    BY <1>10 DEF AheadLines
  <2>4. /\ Clean(Before(s)) /\ Before(s) \in Seq(Line) /\ After(s) \in Seq(Line)
        /\ Ahead(Remains(s))
    BY <1>1, <1>10, <2>3, AheadRemains
  <2>5. Before(s) \o After(s) = Remains(s)
    BY <1>1, <1>10, RemainsType
  <2>6. Good(Replaced(s, Managed(call)))
    BY <1>6, <2>2, <2>4, <2>5
  <2>7. r = Wrote(Replaced(s, Managed(call))) \/ (Region(s) = Managed(call) /\ r = Current)
    BY <1>10, <2>1 DEF Installed
  <2>8. ASSUME Region(s) = Managed(call) PROVE Good(s)
    <3>1. s = Replaced(s, Managed(call))
      BY <1>1, <1>10, <2>8, RegionIs
    <3> QED BY <2>6, <3>1
  <2> HIDE DEF r, Wires, Good
  <2> QED BY <1>5, <2>6, <2>7, <2>8 DEF r
<1>11. CASE f.state = "text" /\ ~Owned(s) /\ NoMarkers(s)
  <2>1. ~Malformed(s) /\ ~Valid(s) /\ Remains(s) = s
    BY <1>11 DEF Malformed, NoMarkers, Valid, Remains
  <2>2. Ahead(s)
    BY <1>11 DEF AheadLines
  <2>3. CASE HasLegacy(s)
    <3>1. r = Wrote(Migrated(s, Managed(call)))
      BY <1>11, <2>1, <2>3 DEF Installed
    <3>2. PICK a, c : /\ Unmarked(a) /\ NotOwned(a) /\ Unmarked(c)
                      /\ Migrated(s, Managed(call)) = Wrapped(a, call, c)
                      /\ a \o c = WithoutLegacy(s)
                      /\ Ahead(s) => Clean(a)
      BY <1>1, <1>11, <2>3, MigratedParts
    <3>3. Unmarked(a \o c)
      BY <3>2, UnmarkedJoined
    <3> DEFINE u == a \o c
    <3>4. u = WithoutLegacy(Remains(s)) /\ Unmarked(u)
      BY <2>1, <3>2, <3>3
    <3> HIDE DEF u
    <3>5. Ahead(u)
      BY <1>1, <1>11, <2>2, <3>4, AheadRemains
    <3>6. a \in Seq(Line) /\ c \in Seq(Line)
      BY <3>2 DEF Unmarked
    <3>7. Good(Migrated(s, Managed(call)))
      BY <1>6, <2>2, <3>2, <3>5, <3>6 DEF u
    <3> HIDE DEF r, Wires, Good
    <3> QED BY <1>5, <3>1, <3>7 DEF r
  <2>4. CASE ~HasLegacy(s) /\ Shell(s)
    <3>1. r = Wrote(Inserted(s, Managed(call)))
      BY <1>11, <2>1, <2>4 DEF Installed
    <3>2. PICK a, c : /\ Unmarked(a) /\ NotOwned(a) /\ Unmarked(c)
                      /\ Inserted(s, Managed(call)) = Wrapped(a, call, c)
                      /\ a \o c = s /\ Clean(a)
      BY <1>1, <1>11, <2>4, InsertedIs
    <3>3. a \in Seq(Line) /\ c \in Seq(Line)
      BY <3>2 DEF Unmarked
    <3>4. Good(Inserted(s, Managed(call)))
      BY <1>6, <2>2, <3>2, <3>3
    <3> HIDE DEF r, Wires, Good
    <3> QED BY <1>5, <3>1, <3>4 DEF r
  <2>5. CASE ~HasLegacy(s) /\ ~Shell(s)
    <3>1. r = Result(f, "manual")
      BY <1>11, <2>1, <2>5 DEF Installed
    <3> HIDE DEF Wires
    <3> QED BY <1>4, <3>1
  <2> QED BY <2>3, <2>4, <2>5
<1> QED BY <1>1, <1>7, <1>8, <1>9, <1>10, <1>11 DEF Malformed

\* Neither does removal put anything before a block.
LEMMA RemovedAhead ==
  ASSUME NEW f \in File, f.lines \in AheadLines
  PROVE  Removed(f).file.lines \in AheadLines
<1> DEFINE g == Removed(f).file
           s == f.lines
<1>1. s \in Seq(Line)
  BY FileIs
<1>2. \/ g = f
      \/ f.state = "text" /\ Owned(f.lines) /\ g = Absent
      \/ /\ f.state = "text" /\ ~Owned(f.lines)
         /\ g.state = "text" /\ g.lines = Remains(g.lines) /\ Unmarked(g.lines)
         /\ Leaves(f.lines, g.lines)
  BY RemovedLeaves
<1> HIDE DEF g
<1>3. CASE g = f
  BY <1>3 DEF g
<1>4. CASE g = Absent
  <2>1. g.lines = <<>>
    BY <1>4, AbsentIs
  <2>2. <<>> \in AheadLines
    BY DEF AheadLines, Ahead
  <2> QED BY <2>1, <2>2 DEF g
<1>5. CASE /\ ~Owned(s) /\ g.lines = Remains(g.lines) /\ Unmarked(g.lines)
           /\ Leaves(s, g.lines)
  <2>1. g.lines = Remains(s) \/ g.lines = WithoutLegacy(Remains(s))
    BY <1>5 DEF Leaves
  <2>2. Ahead(s)
    BY <1>5 DEF AheadLines
  <2>3. Ahead(g.lines)
    BY <1>1, <1>5, <2>1, <2>2, AheadRemains
  <2> QED BY <1>5, <2>3 DEF AheadLines, Unmarked, g
<1> QED BY <1>2, <1>3, <1>4, <1>5

-----------------------------------------------------------------------------
(* Hooks that call portool.                                                *)

\* No hook has a block, or a line portool once appended, where no shell gets to it.
AheadHooks == \A d \in Dirs, n \in Names : hook[d][n].lines \in AheadLines

\* People do not put one there, or an exit before it.
PeopleAhead == AheadHooks /\ [][EditHook => AheadHooks']_vars

\* A hook of the main worktree that looks like portool's, calls it.
MainRuns ==
  \A h \in HookPaths :
    LET f == hook[h.dir]["post-checkout"]
    IN Resolve(h) = "MainWorktree" /\ IsManaged(f) => Runs(f)

\* People leave it so.
PeopleRunMain == MainRuns /\ [][EditHook => MainRuns']_vars

\* A location with files is one where git looks or, with Husky, will look.
LEMMA PlaceIsLookedAt ==
  ASSUME NEW h \in HookPaths, HasFiles(h)
  PROVE  GitWillLook(h) /\ h.dir \in Dirs
<1>1. h \in HookPath
  BY HooksAssumption
<1>2. Classify(h) # "Missing"
  BY DEF HasFiles, Resolve
<1> QED BY <1>1, <1>2 DEF GitWillLook, GitLooks, Classify, HookPath

\* No command writes a hook of the main worktree.
LEMMA MainStays ==
  ASSUME HooksInv, MainRuns, [Next]_vars, EditHook => MainRuns'
  PROVE  MainRuns'
<1>1. CASE EditHook
  BY <1>1
<1>2. CASE ~EditHook
  <2>1. edits' = edits \/ UNCHANGED hook
    <3>1. \A p : Acts(p) => edits' = edits
      BY StepsQuietly DEF Acts, Checkout, Start, world
    <3>2. People => UNCHANGED hook
      BY <1>2 DEF People, SetHooksPath, MoveBinary, files
    <3> QED BY <3>1, <3>2, WhoActs DEF vars, files
  <2>2. \A d \in Dirs : RealRegion[d] \in {"main", "outside"} => hook'[d] = hook[d]
    BY <2>1, StepsStayHome DEF Away
  <2>3. ASSUME NEW h \in HookPaths, Resolve(h) = "MainWorktree"
        PROVE  hook'[h.dir] = hook[h.dir]
    <3>1. h \in HookPath
      BY HooksAssumption
    <3>2. h.dir \in Dirs /\ RealRegion[h.dir] = "main"
      BY <2>3, <3>1 DEF Resolve, Classify, HookPath
    <3> QED BY <2>2, <3>2
  <2> QED BY <2>3 DEF MainRuns
<1> QED BY <1>1, <1>2

\* What a command that installs, alone, has done by its next step: it has reported
\* nothing before post-checkout, and what it is about to write is what the hook
\* there is now calls for.
Wired(j, step) ==
  /\ j.outcome \in {"installed", "current"} => Armed("post-checkout")
  /\ step \in AtHook => \/ j.todo = InOrder /\ j.outcome = "notFound"
                        \/ j.todo = <<"post-merge">>
  /\ step = "writeHook" =>
       LET r == Installed(hook[path.dir][Head(j.todo)], binary)
       IN j.plan = r.file /\ j.last = r.outcome

WiredJobs == \A p \in Processes : Lone(p) /\ Installing(p) => Wired(job[p], pc[p])

\* The step of a command alone keeps that.
LEMMA WiredStep ==
  ASSUME HooksInv, SoloInv, AllIn(AheadLines), MainRuns,
         NEW p \in Processes, Lone(p), Step(p), Lone(p)', Installing(p)',
         Installing(p) => Wired(job[p], pc[p])
  PROVE  Wired(job[p], pc[p])'
<1>1. /\ pc \in [Processes -> Places] /\ job \in [Processes -> Job]
      /\ job[p] \in Job /\ pc[p] \in Places
  BY TypesOf
<1>2. job[p].path = path /\ UNCHANGED <<path, binary>>
  BY StepsQuietly DEF SoloInv, Found, world
<1>3. ~Ends(p) /\ ~Fails(p)
  BY <1>1 DEF Ends, Fails, Lone
<1>4. ASSUME NEW step, Goes(p, step) PROVE pc'[p] = step
  BY <1>1, <1>4 DEF Goes
<1>5. ASSUME NEW step, pc' = [pc EXCEPT ![p] = step] PROVE pc'[p] = step
  BY <1>1, <1>5
<1>6. ASSUME UNCHANGED hook, pc'[p] \notin AtHook, job'[p].outcome = job[p].outcome,
             job'[p].command = job[p].command
      PROVE  Wired(job[p], pc[p])'
  BY <1>2, <1>6 DEF Wired, Installing, Armed, AtHook
<1>7. path \in HookPaths /\ path \in HookPath /\ hook \in Hooks /\ binary \in Calls
  BY TypesOf, HooksAssumption
<1> DEFINE h == job[p].path
           n == Head(job[p].todo)
<1>8. AfterHooks(job[p].command) \notin AtHook
  BY DEF AfterHooks, AtHook
<1>9. ASSUME NEW last, Done(p, last), Installing(p), pc[p] \in AtHook,
             hook'[path.dir]["post-checkout"] = hook[path.dir]["post-checkout"]
               \/ n = "post-checkout",
             n = "post-checkout" /\ last \in {"installed", "current"} => Armed("post-checkout")'
      PROVE  Wired(job[p], pc[p])'
  <2>1. Wired(job[p], pc[p])
    BY <1>9
  <2>2. /\ job'[p].todo = Tail(job[p].todo)
        /\ job'[p].outcome = IF n = "post-checkout" THEN last ELSE job[p].outcome
        /\ pc'[p] = IF Len(job[p].todo) > 1 THEN "readHook" ELSE AfterHooks(job[p].command)
    BY <1>1, <1>4, <1>9 DEF Done, Job
  <2>3. job'[p].outcome \in {"installed", "current"} => Armed("post-checkout")'
    BY <1>2, <1>9, <2>1, <2>2 DEF Wired, Armed
  <2>4. job[p].todo = InOrder \/ job[p].todo = <<"post-merge">>
    BY <1>9, <2>1 DEF Wired
  <2>5. pc'[p] \in AtHook => job'[p].todo = <<"post-merge">>
    <3>1. Tail(InOrder) = <<"post-merge">> /\ ~(Len(<<"post-merge">>) > 1)
      BY DEF InOrder
    <3> QED BY <1>8, <2>2, <2>4, <3>1
  <2>6. pc'[p] # "writeHook"
    BY <1>8, <2>2 DEF AtHook
  <2> QED BY <2>3, <2>5, <2>6 DEF Wired
<1>10. CASE Locate(p)
  <2> DEFINE f == hook[h.dir]["post-checkout"]
             elsewhere == Resolve(h) = "MainWorktree" /\ HasFiles(h)
  <2>1. pc[p] = "locate" /\ UNCHANGED hook
    BY <1>3, <1>10 DEF Locate, files
  <2>2. CASE /\ elsewhere /\ (IsManaged(f) \/ f.state = "symlink")
             /\ Goes(p, AfterHooks(job[p].command))
             /\ job' = [job EXCEPT ![p].outcome = "current"]
    <3>1. pc'[p] \notin AtHook
      BY <1>4, <1>8, <2>2
    <3>2. MayRun(f)
      BY <1>2, <1>7, <2>2 DEF MainRuns, MayRun
    <3>3. GitWillLook(path)
      BY <1>2, <1>7, <2>2, PlaceIsLookedAt
    <3>4. Armed("post-checkout")'
      BY <1>2, <2>1, <3>2, <3>3 DEF Armed
    <3> QED BY <3>1, <3>4 DEF Wired, AtHook
  <2>3. CASE Goes(p, "readHook") /\ UNCHANGED job
    <3>1. Installing(p) /\ pc'[p] = "readHook"
      BY <1>4, <2>3 DEF Installing
    <3> QED BY <1>2, <2>1, <2>3, <3>1 DEF Wired, Armed, AtHook
  <2> QED BY <1>3, <1>10, <2>2, <2>3 DEF Locate
<1>11. CASE ReadHook(p)
  <2> DEFINE f == hook[h.dir][n]
             i == Installed(f, binary)
             r == IF Installing(p) THEN i ELSE Removed(f)
  <2>1. pc[p] = "readHook" /\ UNCHANGED hook
    BY <1>11 DEF ReadHook, files
  <2>2. \/ \E last \in {"notFound", "manual", "skipped"} : Done(p, last)
        \/ HasBoundary(h) /\ r.file = f /\ Done(p, r.outcome)
        \/ /\ Goes(p, "writeHook")
           /\ job' = [job EXCEPT ![p].plan = r.file, ![p].last = r.outcome]
    BY <1>3, <1>11 DEF ReadHook
  <2>3. \A last : Done(p, last) => job'[p].command = job[p].command
    BY <1>1 DEF Done, Job
  <2>4. CASE \E last \in {"notFound", "manual", "skipped"} : Done(p, last)
    <3>1. Installing(p)
      BY <2>3, <2>4 DEF Installing
    <3> QED BY <1>9, <2>1, <2>4, <3>1 DEF AtHook
  <2>5. CASE HasBoundary(h) /\ r.file = f /\ Done(p, r.outcome)
    <3>1. Installing(p)
      <4> HIDE DEF r
      <4> QED BY <2>3, <2>5 DEF Installing
    <3>2. i.file = f /\ Done(p, i.outcome)
      BY <2>5, <3>1
    <3>3. ASSUME n = "post-checkout", i.outcome \in {"installed", "current"}
          PROVE  Armed("post-checkout")'
      <4>1. HasFiles(h)
        BY <2>5 DEF HasBoundary, Boundary, HasFiles
      <4>2. GitWillLook(path) /\ path.dir \in Dirs
        BY <1>2, <1>7, <4>1, PlaceIsLookedAt
      <4>3. f \in File /\ f.lines \in AheadLines
        BY <1>2, <3>3, <4>2, HookLines DEF AllIn, Names
      <4>4. Runs(f)
        <5> HIDE DEF f
        <5> QED BY <1>7, <3>2, <3>3, <4>3, InstalledWires
      <4> QED BY <1>2, <2>1, <3>3, <4>2, <4>4 DEF Armed, MayRun
    <3> HIDE DEF i, r, f
    <3> QED BY <1>9, <2>1, <3>1, <3>2, <3>3 DEF AtHook
  <2>6. CASE /\ Goes(p, "writeHook")
             /\ job' = [job EXCEPT ![p].plan = r.file, ![p].last = r.outcome]
    <3>1. /\ job'[p].plan = r.file /\ job'[p].last = r.outcome
          /\ job'[p].todo = job[p].todo /\ job'[p].outcome = job[p].outcome
          /\ job'[p].command = job[p].command
      <4> HIDE DEF r
      <4> QED BY <1>1, <2>6 DEF Job
    <3>2. Installing(p) /\ pc'[p] = "writeHook"
      BY <1>4, <2>6, <3>1 DEF Installing
    <3>3. Wired(job[p], pc[p])
      BY <3>2
    <3>4. job'[p].plan = i.file /\ job'[p].last = i.outcome
      BY <3>1, <3>2
    <3>5. LET x == Installed(hook[path.dir][Head(job'[p].todo)], binary)
          IN job'[p].plan = x.file /\ job'[p].last = x.outcome
      BY <1>2, <3>1, <3>4
    <3> HIDE DEF i, r
    <3> QED BY <1>2, <2>1, <3>1, <3>2, <3>3, <3>5 DEF Wired, Armed, AtHook
  <2> HIDE DEF r, f, i
  <2> QED BY <2>2, <2>4, <2>5, <2>6
<1>12. CASE WriteHook(p)
  <2> DEFINE f == hook[h.dir][n]
             new == IF job[p].last = "current" THEN [f EXCEPT !.exec = TRUE] ELSE job[p].plan
             i == Installed(f, binary)
  <2>1. /\ pc[p] = "writeHook" /\ hook' = [hook EXCEPT ![h.dir][n] = new]
        /\ Done(p, job[p].last)
    BY <1>3, <1>12 DEF WriteHook
  <2>2. Installing(p)
    <3>1. job'[p].command = job[p].command
      BY <1>1, <2>1 DEF Done, Job
    <3> QED BY <3>1 DEF Installing
  <2>3. Wired(job[p], pc[p])
    BY <2>2
  <2>4. job[p].plan = i.file /\ job[p].last = i.outcome
    BY <1>2, <2>1, <2>3 DEF Wired
  <2>5. n \in Names /\ h.dir \in Dirs /\ Near(h)
    <3>1. job[p].todo = InOrder \/ job[p].todo = <<"post-merge">>
      BY <2>1, <2>3 DEF Wired, AtHook
    <3>2. n \in Names
      BY <3>1 DEF InOrder, Names
    <3>3. Near(h)
      BY <2>1 DEF HooksInv, Ready
    <3> QED BY <1>2, <1>7, <3>2, <3>3 DEF HookPath
  <2>6. f \in File /\ f.lines \in AheadLines
    BY <2>5, HookLines DEF AllIn
  <2> HIDE DEF h, n
  <2>7. hook'[h.dir][n] = new /\ \A m \in Names : m # n => hook'[h.dir][m] = hook[h.dir][m]
    <3> HIDE DEF new
    <3> QED BY <1>7, <2>1, <2>5 DEF Hooks
  <2>8. i.outcome \in {"installed", "current"} => Runs(new)
    <3> SUFFICES ASSUME i.outcome \in {"installed", "current"} PROVE Runs(new)
      OBVIOUS
    <3>1. Runs(i.file)
      <4> HIDE DEF f
      <4> QED BY <1>7, <2>6, InstalledWires
    <3>2. CASE i.outcome = "current"
      <4>1. i.file.lines = f.lines /\ f.state = "text"
        <5>1. /\ i = Result(Text(TRUE, f.lines), "current") /\ f.state = "text"
          <6> HIDE DEF f
          <6>1. \/ i = Result(f, "skipped")
                \/ i = Result(f, "manual")
                \/ f.state = "text" /\ i = Result(Text(TRUE, f.lines), "current")
                \/ \E t : i = Result(Text(TRUE, t), "installed")
            BY <1>7, <2>6, InstalledIs
          <6> HIDE DEF i
          <6>2. \A g, o : Result(g, o).outcome = o
            BY DEF Result
          <6> QED BY <3>2, <6>1, <6>2
        <5> HIDE DEF i, f
        <5> QED BY <5>1 DEF Result, Text
      <4>2. new = [f EXCEPT !.exec = TRUE]
        BY <2>4, <3>2
      <4>3. new.state = "text" /\ new.exec = TRUE /\ new.lines = f.lines
        <5> HIDE DEF f, new
        <5> QED BY <2>6, <4>1, <4>2 DEF File
      <4> HIDE DEF new, f, i
      <4> QED BY <3>1, <4>1, <4>3 DEF Runs
    <3>3. CASE i.outcome # "current"
      <4>1. new = i.file
        BY <2>4, <3>3
      <4> HIDE DEF new, i
      <4> QED BY <3>1, <4>1
    <3> QED BY <3>2, <3>3
  <2>9. ASSUME n = "post-checkout", job[p].last \in {"installed", "current"}
        PROVE  Armed("post-checkout")'
    <3>1. HasFiles(h)
      BY <2>5 DEF Near, HasBoundary, Boundary, HasFiles
    <3>2. GitWillLook(path)
      BY <1>2, <1>7, <3>1, PlaceIsLookedAt DEF h
    <3>3. Runs(new)
      <4> HIDE DEF new, i
      <4> QED BY <2>4, <2>8, <2>9
    <3>4. hook'[path'.dir]["post-checkout"] = new
      <4> HIDE DEF new
      <4> QED BY <1>2, <2>7, <2>9 DEF h
    <3> HIDE DEF new
    <3> QED BY <1>2, <3>2, <3>3, <3>4 DEF Armed, MayRun
  <2>10. hook'[path.dir]["post-checkout"] = hook[path.dir]["post-checkout"] \/ n = "post-checkout"
    <3> HIDE DEF new
    <3> QED BY <1>2, <2>7 DEF h, Names
  <2>11. pc[p] \in AtHook
    BY <2>1 DEF AtHook
  <2> HIDE DEF new, i, f
  <2> QED BY <1>9, <2>1, <2>2, <2>9, <2>10, <2>11 DEF n
<1>13. CASE Verify(p)
  <2>1. /\ UNCHANGED hook /\ job'[p].outcome = job[p].outcome
        /\ job'[p].command = job[p].command
    BY <1>1, <1>13 DEF Verify, files, Job
  <2>2. pc'[p] \in {"report", "lock", "readExclude"}
    BY <1>4, <1>13 DEF Verify
  <2> QED BY <1>6, <2>1, <2>2 DEF AtHook
<1>14. CASE Acquire(p) \/ RemoveEnv(p) \/ Drop(p)
  <2>1. /\ UNCHANGED hook /\ job'[p].outcome = job[p].outcome
        /\ job'[p].command = job[p].command
    BY <1>1, <1>14 DEF Acquire, RemoveEnv, Drop, files, Job
  <2>2. pc'[p] \in {"removeEnv", "drop", "readExclude"}
    BY <1>4, <1>5, <1>14 DEF Acquire, RemoveEnv, Drop
  <2> QED BY <1>6, <2>1, <2>2 DEF AtHook
<1>15. CASE ReadExclude(p) \/ WriteExclude(p) \/ Sync(p)
  <2>1. /\ UNCHANGED hook /\ job'[p].outcome = job[p].outcome
        /\ job'[p].command = job[p].command
    BY <1>1, <1>15 DEF ReadExclude, WriteExclude, ExcludeKept, Sync, files, Job
  <2>2. pc'[p] \in {"writeExclude", "sync", "report"}
    BY <1>4, <1>15 DEF ReadExclude, WriteExclude, Sync, AfterExclude
  <2> QED BY <1>6, <2>1, <2>2 DEF AtHook
<1>16. ~Report(p)
  BY <1>3 DEF Report
<1> QED BY <1>10, <1>11, <1>12, <1>13, <1>14, <1>15, <1>16 DEF Step

\* So does every step,
LEMMA WiredStays ==
  ASSUME HooksInv, SoloInv, AllIn(AheadLines), MainRuns, WiredJobs, [Next]_vars
  PROVE  WiredJobs'
<1> SUFFICES ASSUME NEW p \in Processes, Lone(p)', Installing(p)'
             PROVE  Wired(job[p], pc[p])'
  BY DEF WiredJobs
<1>1. CASE UNCHANGED vars
  <2>1. Wired(job[p], pc[p])
    BY <1>1 DEF WiredJobs, Lone, Installing, vars
  <2> QED BY <1>1, <2>1 DEF Wired, Armed, vars, files, world
<1>2. CASE Lone(p) /\ Step(p)
  BY <1>2, WiredStep DEF WiredJobs
<1>3. CASE \E c \in AllCommands : Start(p, c)
  <2>1. PICK c \in AllCommands : Start(p, c)
    BY <1>3
  <2> DEFINE j == [NoJob EXCEPT !.command = c, !.path = path, !.todo = InOrder]
  <2>2. pc'[p] = FirstStep(c) /\ job'[p] = j
    BY <2>1, TypesOf DEF Start
  <2>3. j.todo = InOrder /\ j.outcome = "notFound"
    BY DEF NoJob
  <2> HIDE DEF j
  <2>4. FirstStep(c) # "writeHook"
    BY DEF FirstStep, AllCommands
  <2> QED BY <2>2, <2>3, <2>4 DEF Wired
<1> QED BY <1>1, <1>2, <1>3, LoneStep DEF SoloInv

\* and the lines stay as they are.
LEMMA AheadStays ==
  ASSUME HooksInv, HooksInv', AllIn(AheadLines), [Next]_vars, EditHook => AheadHooks'
  PROVE  AllIn(AheadLines)'
<1>1. Closed(AheadLines)
  BY InstalledWires, RemovedAhead DEF Closed
<1> QED BY <1>1, LinesStay DEF AheadHooks

\* What Spec keeps with such people.
WiredInv == HooksInv /\ SoloInv /\ AllIn(AheadLines) /\ MainRuns /\ WiredJobs

\* An init that reports success, alone, leaves a post-checkout hook that gets to the
\* call of portool: as a script of portool's, a block in the user's, or one that took
\* the place of an appended line.  It is where git looks for hooks or, with Husky,
\* will look once .husky/_ has been generated: it may not exist yet, and init
\* succeeds without it (install_hook, finish_hook_install).
THEOREM InitsWire == Spec /\ PeopleAhead /\ PeopleRunMain => InitWires
<1>1. Init /\ HooksInv /\ AheadHooks /\ MainRuns => WiredInv
  <2> SUFFICES ASSUME Init, HooksInv, AheadHooks, MainRuns PROVE WiredInv
    OBVIOUS
  <2> QED BY SoloStarts DEF WiredInv, AllIn, AheadHooks, WiredJobs, Lone
<1>2. HooksInv' /\ WiredInv /\ [Next]_vars
        /\ [EditHook => AheadHooks']_vars /\ [EditHook => MainRuns']_vars => WiredInv'
  <2> SUFFICES ASSUME HooksInv', WiredInv, [Next]_vars,
                      [EditHook => AheadHooks']_vars, [EditHook => MainRuns']_vars
               PROVE  WiredInv'
    OBVIOUS
  <2>1. EditHook => AheadHooks' /\ MainRuns'
    <3>1. EditHook => edits' # edits
      BY EditCounts DEF WiredInv
    <3> QED BY <3>1 DEF vars, world
  <2>2. AllIn(AheadLines)'
    BY <2>1, AheadStays DEF WiredInv
  <2>3. SoloInv'
    BY SoloStays DEF WiredInv
  <2>4. MainRuns'
    BY <2>1, MainStays DEF WiredInv
  <2>5. WiredJobs'
    BY WiredStays DEF WiredInv
  <2> QED BY <2>2, <2>3, <2>4, <2>5 DEF WiredInv
<1>3. WiredInv /\ [Next]_vars =>
        [\A p \in Processes :
           Reports(p) /\ Alone(p) /\ Installing(p) /\ Succeeds(p) => Armed("post-checkout")]_vars
  <2> SUFFICES ASSUME WiredInv, NEW p \in Processes,
                      Reports(p), Alone(p), Installing(p), Succeeds(p)
               PROVE  Armed("post-checkout")
    OBVIOUS
  <2>1. Lone(p)
    BY DEF Lone, Reports, Alone
  <2>2. job[p].outcome \in {"installed", "current"}
    BY DEF Succeeds, Installing
  <2> QED BY <2>1, <2>2 DEF WiredInv, WiredJobs, Wired
<1> QED BY <1>1, <1>2, <1>3, Invariance, PTL DEF Spec, PeopleAhead, PeopleRunMain, InitWires

=============================================================================
