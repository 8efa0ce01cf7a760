-------------------------- MODULE PortReadingProofs --------------------------
(***************************************************************************)
(* What is written in an env file is what exec reads: the loop of          *)
(* parse_env_str agrees with a definition that has none, for texts of any  *)
(* length.                                                                 *)
(***************************************************************************)
EXTENDS PortExecProofs

-----------------------------------------------------------------------------
(* Stripping.                                                              *)

\* Both ways to strip a text agree, and leave no blank at either end.
LEMMA StrippedIs ==
  ASSUME NEW t \in Text
  PROVE  LET s == Stripped(t)
         IN /\ s \in Text /\ s = Trimmed(t)
            /\ s # <<>> => s[1] # " " /\ s[Len(s)] # " "
<1> DEFINE ink == {i \in 1..Len(t) : NotBlank(t[i])}
           s == Stripped(t)
<1>1. t \in Seq(Token) /\ Len(t) \in Nat /\ DOMAIN t = 1..Len(t)
  BY DEF Text
<1>2. ink = {i \in DOMAIN t : t[i] # " "}
  BY <1>1 DEF NotBlank
<1>3. CASE ink = {}
  <2>1. Trimmed(t) = <<>>
    BY <1>3, Zenon DEF Trimmed, SelectInSeq
  <2>2. s = <<>>
    BY <1>2, <1>3 DEF Stripped
  <2> HIDE DEF s
  <2> QED BY <2>1, <2>2 DEF Text, s
<1>4. CASE ink # {}
  <2>1. /\ Min(ink) \in ink /\ Max(ink) \in ink
        /\ Min(ink) \in 1..Len(t) /\ Max(ink) \in 1..Len(t) /\ Min(ink) <= Max(ink)
    BY <1>1, <1>4, FirstAndLast
  <2>2. Min(ink) # 0
    BY <2>1
  <2>3. Trimmed(t) = SubSeq(t, Min(ink), Max(ink))
    BY <1>4, <2>2, Zenon DEF Trimmed, SelectInSeq, SelectLastInSeq
  <2>4. s = SubSeq(t, Min(ink), Max(ink))
    BY <1>2, <1>4 DEF Stripped
  <2>5. t[Min(ink)] # " " /\ t[Max(ink)] # " "
    BY <2>1 DEF NotBlank
  <2> HIDE DEF ink, s
  <2>6. s \in Seq(Token) /\ Len(s) = Max(ink) + 1 - Min(ink)
    BY <1>1, <2>1, <2>4
  <2>7. s[1] = t[Min(ink)] /\ s[Len(s)] = t[Max(ink)]
    BY <1>1, <2>1, <2>4
  <2>8. /\ s \in Text /\ s = Trimmed(t)
        /\ s # <<>> => s[1] # " " /\ s[Len(s)] # " "
    BY <2>3, <2>4, <2>5, <2>6, <2>7 DEF Text
  <2> QED BY <2>8 DEF s
<1> QED BY <1>3, <1>4

-----------------------------------------------------------------------------
(* Escapes.                                                                *)

\* n times b stands before token i of t, and no more.
Run(t, i, n, b) ==
  n \in 0..(i - 2) /\ t[i - n - 1] # b /\ \A j \in (i - n)..(i - 1) : t[j] = b

\* Bare, for any token in the place of the backslash.
BareOf(t, i, b) == \E n \in 0..(i - 2) : n % 2 = 0 /\ Run(t, i, n, b)

\* Behind a first token that is none, there are so many, and no other number.
LEMMA RunIs ==
  ASSUME NEW t, NEW b, t[1] # b, NEW i \in Nat, i >= 2
  PROVE  /\ \E n \in 0..(i - 2) : Run(t, i, n, b)
         /\ \A m, n \in 0..(i - 2) : Run(t, i, m, b) /\ Run(t, i, n, b) => m = n
<1>1. \E n \in 0..(i - 2) : Run(t, i, n, b)
  <2> DEFINE T == {n \in 0..(i - 2) : t[i - n - 1] # b}
  <2>1. i - 2 \in T
    <3>1. i - (i - 2) - 1 = 1 /\ i - 2 \in 0..(i - 2)
      OBVIOUS
    <3> QED BY <3>1
  <2>2. PICK n \in T : \A m \in T : n <= m
    <3>1. T \in SUBSET Nat /\ T # {}
      <4>1. \A n \in T : n \in Nat
        OBVIOUS
      <4> HIDE DEF T
      <4> QED BY <2>1, <4>1
    <3> HIDE DEF T
    <3> QED BY <3>1, Least
  <2>3. ASSUME NEW j \in (i - n)..(i - 1) PROVE t[j] = b
    <3> DEFINE m == i - 1 - j
    <3>1. m \in 0..(i - 2) /\ m < n /\ i - m - 1 = j
      OBVIOUS
    <3>2. m \notin T
      BY <2>2, <3>1
    <3> HIDE DEF m
    <3> QED BY <3>1, <3>2
  <2> QED BY <2>2, <2>3 DEF Run
<1>2. ASSUME NEW m \in 0..(i - 2), NEW n \in 0..(i - 2), Run(t, i, m, b), Run(t, i, n, b), m < n
      PROVE  FALSE
  <2>1. i - m - 1 \in (i - n)..(i - 1)
    BY <1>2
  <2> QED BY <1>2, <2>1 DEF Run
<1>3. ASSUME NEW m \in 0..(i - 2), NEW n \in 0..(i - 2), Run(t, i, m, b), Run(t, i, n, b)
      PROVE  m = n
  <2>1. ~(m < n) /\ ~(n < m)
    BY <1>2, <1>3
  <2> QED BY <2>1
<1> QED BY <1>1, <1>3

\* A token is bare behind any other token than b, and behind a b that is not.
LEMMA BareStep ==
  ASSUME NEW t, NEW b, t[1] # b
  PROVE  /\ BareOf(t, 2, b)
         /\ \A i \in Nat : i >= 2 => (BareOf(t, i + 1, b) <=> (t[i] # b \/ ~BareOf(t, i, b)))
<1>1. BareOf(t, 2, b)
  <2>1. Run(t, 2, 0, b)
    BY DEF Run
  <2> QED BY <2>1 DEF BareOf
<1>2. ASSUME NEW i \in Nat, i >= 2
      PROVE  BareOf(t, i + 1, b) <=> (t[i] # b \/ ~BareOf(t, i, b))
  <2>1. PICK n \in 0..(i - 2) : Run(t, i, n, b)
    BY <1>2, RunIs
  <2>2. BareOf(t, i, b) <=> n % 2 = 0
    BY <1>2, <2>1, RunIs DEF BareOf
  <2>3. CASE t[i] # b
    <3>1. Run(t, i + 1, 0, b)
      BY <1>2, <2>3 DEF Run
    <3> QED BY <1>2, <2>3, <3>1 DEF BareOf
  <2>4. CASE t[i] = b
    <3>1. Run(t, i + 1, n + 1, b)
      <4>1. n + 1 \in 0..(i + 1 - 2) /\ i + 1 - (n + 1) - 1 = i - n - 1 /\ i + 1 - (n + 1) = i - n
        BY <1>2
      <4>2. \A j \in (i - n)..(i + 1 - 1) : j = i \/ j \in (i - n)..(i - 1)
        BY <1>2
      <4> QED BY <2>1, <2>4, <4>1, <4>2 DEF Run
    <3>2. i + 1 \in Nat /\ i + 1 >= 2 /\ n + 1 \in 0..(i + 1 - 2)
      BY <1>2
    <3>3. BareOf(t, i + 1, b) <=> (n + 1) % 2 = 0
      BY <3>1, <3>2, RunIs DEF BareOf
    <3>4. n % 2 = 0 <=> (n + 1) % 2 # 0
      OBVIOUS
    <3> QED BY <2>2, <2>4, <3>3, <3>4
  <2> QED BY <2>3, <2>4
<1> QED BY <1>1, <1>2

-----------------------------------------------------------------------------
(* Tokens picked from a text.                                              *)

\* v has the tokens of t at the places in J, in their order.
Lists(t, J, v) ==
  /\ Len(v) = Cardinality(J)
  /\ \A i \in J : v[Cardinality({j \in J : j <= i})] = t[i]

\* None.
LEMMA ListsNone ==
  ASSUME NEW t
  PROVE  Lists(t, {}, <<>>)
  BY FS_EmptySet DEF Lists

\* One more.
LEMMA ListsMore ==
  ASSUME NEW t, NEW n \in Nat, NEW J \in SUBSET (1..n), NEW k \in Nat, k > n,
         NEW S, NEW v \in Seq(S), Lists(t, J, v), t[k] \in S
  PROVE  Lists(t, J \cup {k}, Append(v, t[k]))
<1>1. IsFiniteSet(J) /\ \A j \in J : j < k /\ j <= k
  <2>1. IsFiniteSet(1..n)
    BY FS_Interval
  <2>2. IsFiniteSet(J)
    BY <2>1, FS_Subset
  <2>3. \A j \in J : j \in 1..n
    OBVIOUS
  <2> QED BY <2>2, <2>3
<1>2. Cardinality(J) \in Nat
  BY <1>1, FS_CardinalityType
<1>3. k \notin J /\ Cardinality(J \cup {k}) = Cardinality(J) + 1
  <2>1. k \notin J
    BY <1>1
  <2> QED BY <1>1, <2>1, FS_AddElement
<1>4. ASSUME NEW i \in J
      PROVE  Append(v, t[k])[Cardinality({j \in J \cup {k} : j <= i})] = t[i]
  <2> DEFINE U == {j \in J : j <= i}
  <2>1. {j \in J \cup {k} : j <= i} = U
    <3>1. i < k /\ i \in Nat
      BY <1>1
    <3> QED BY <3>1
  <2>2. Cardinality(U) \in 1..Cardinality(J)
    <3>1. IsFiniteSet(U) /\ Cardinality(U) <= Cardinality(J)
      BY <1>1, FS_Subset
    <3>2. Cardinality(U) \in Nat /\ Cardinality(U) # 0
      <4>1. i \in U
        OBVIOUS
      <4> HIDE DEF U
      <4> QED BY <3>1, <4>1, FS_EmptySet, FS_CardinalityType
    <3> QED BY <1>2, <3>1, <3>2
  <2>3. v[Cardinality(U)] = t[i]
    BY DEF Lists
  <2> DEFINE c == Cardinality(U)
  <2>4. Len(v) = Cardinality(J)
    BY DEF Lists
  <2>5. c \in 1..Len(v) => Append(v, t[k])[c] = v[c]
    OBVIOUS
  <2>6. Append(v, t[k])[c] = t[i]
    BY <2>2, <2>3, <2>4, <2>5
  <2> HIDE DEF U
  <2> QED BY <2>1, <2>6
<1>5. Append(v, t[k])[Cardinality({j \in J \cup {k} : j <= k})] = t[k]
  <2>1. {j \in J \cup {k} : j <= k} = J \cup {k}
    <3>1. \A j \in J \cup {k} : j <= k
      BY <1>1
    <3> QED BY <3>1
  <2>2. Len(v) = Cardinality(J)
    BY DEF Lists
  <2>3. Append(v, t[k])[Len(v) + 1] = t[k]
    OBVIOUS
  <2> QED BY <1>2, <1>3, <2>1, <2>2, <2>3
<1>6. Len(Append(v, t[k])) = Cardinality(J \cup {k})
  BY <1>3 DEF Lists
<1> QED BY <1>4, <1>5, <1>6 DEF Lists

-----------------------------------------------------------------------------
(* Quotes.                                                                 *)

\* InDoubleQuotes, Escape and Closers, for any tokens in the place of the quote,
\* the backslash and the blank.
InQuotes(acc, c, q, b, w) ==
  CASE acc.at = "body" ->
         IF c = q THEN [acc EXCEPT !.at = "end"]
         ELSE IF c = b THEN [acc EXCEPT !.at = "escape"]
         ELSE [acc EXCEPT !.raw = Append(@, c)]
    [] acc.at = "escape" ->
         [acc EXCEPT !.at = "body", !.raw = @ \o IF c \in {b, q} THEN <<c>> ELSE <<b, c>>]
    [] acc.at = "end" /\ c # w -> [acc EXCEPT !.at = "trailing"]
    [] OTHER -> acc

EscapeOf(t, i, q, b) == t[i] = b /\ BareOf(t, i, b) /\ t[i + 1] \in {b, q}
CloserOf(t, i, q, b) == t[i] = q /\ BareOf(t, i, b)
KeptTo(t, k, q, b) == {i \in 2..k : ~EscapeOf(t, i, q, b)}

\* What the scan knows behind token k.
ReadsTo(t, k, a, q, b, w) ==
  CASE a.at = "body" -> /\ \A i \in 2..k : ~CloserOf(t, i, q, b)
                        /\ BareOf(t, k + 1, b)
                        /\ Lists(t, KeptTo(t, k, q, b), a.raw)
    [] a.at = "escape" -> /\ \A i \in 2..k : ~CloserOf(t, i, q, b)
                          /\ k >= 2 /\ t[k] = b /\ BareOf(t, k, b)
                          /\ Lists(t, KeptTo(t, k - 1, q, b), a.raw)
    [] a.at = "end" -> \E c \in 2..k : /\ CloserOf(t, c, q, b)
                                       /\ \A i \in 2..(c - 1) : ~CloserOf(t, i, q, b)
                                       /\ \A i \in (c + 1)..k : t[i] = w
                                       /\ Lists(t, KeptTo(t, c - 1, q, b), a.raw)
    [] a.at = "trailing" -> \E c \in 2..(k - 1) : CloserOf(t, c, q, b)

\* Of the next token either an escape is made or it is kept.
LEMMA KeptStep ==
  ASSUME NEW t, NEW q, NEW b, NEW k \in Nat, k >= 1
  PROVE  /\ EscapeOf(t, k + 1, q, b) => KeptTo(t, k + 1, q, b) = KeptTo(t, k, q, b)
         /\ ~EscapeOf(t, k + 1, q, b) =>
              KeptTo(t, k + 1, q, b) = KeptTo(t, k, q, b) \cup {k + 1}
<1>1. \A i : i \in 2..(k + 1) <=> i \in 2..k \/ i = k + 1
  OBVIOUS
<1> QED BY <1>1 DEF KeptTo

\* Another token that is kept.
LEMMA KeptMore ==
  ASSUME NEW S, NEW t, NEW q, NEW b, NEW k \in Nat, k >= 1, NEW v \in Seq(S), t[k + 1] \in S,
         Lists(t, KeptTo(t, k, q, b), v), ~EscapeOf(t, k + 1, q, b)
  PROVE  Lists(t, KeptTo(t, k + 1, q, b), Append(v, t[k + 1]))
<1> DEFINE J == KeptTo(t, k, q, b)
<1>1. J \in SUBSET (1..k)
  BY DEF KeptTo
<1>2. KeptTo(t, k + 1, q, b) = J \cup {k + 1}
  BY KeptStep
<1> DEFINE m == k + 1
<1>3. m \in Nat /\ m > k /\ t[m] \in S /\ Lists(t, J, v)
  OBVIOUS
<1> HIDE DEF J, m
<1>4. Lists(t, J \cup {m}, Append(v, t[m]))
  BY <1>1, <1>3, ListsMore
<1> QED BY <1>2, <1>4 DEF m

\* One token further.
LEMMA ReadsStep ==
  ASSUME NEW S, NEW t, NEW q, NEW b, NEW w, t[1] = q, q # b,
         NEW k \in Nat, k >= 1, t[k + 1] \in S, t[k] \in S,
         NEW a, a.raw \in Seq(S), a.at \in {"body", "escape", "end", "trailing"},
         a = [at |-> a.at, raw |-> a.raw],
         ReadsTo(t, k, a, q, b, w)
  PROVE  ReadsTo(t, k + 1, InQuotes(a, t[k + 1], q, b, w), q, b, w)
<1> DEFINE x == t[k + 1]
           r == InQuotes(a, x, q, b, w)
<1>1. /\ BareOf(t, 2, b)
      /\ \A i \in Nat : i >= 2 => (BareOf(t, i + 1, b) <=> (t[i] # b \/ ~BareOf(t, i, b)))
  BY BareStep
<1>2. CASE a.at = "body"
  <2>1. /\ \A i \in 2..k : ~CloserOf(t, i, q, b)
        /\ BareOf(t, k + 1, b)
        /\ Lists(t, KeptTo(t, k, q, b), a.raw)
    BY <1>2 DEF ReadsTo
  <2>2. CASE x = q
    <3>1. r.at = "end" /\ r.raw = a.raw
      BY <1>2, <2>2 DEF InQuotes
    <3>2. k + 1 \in 2..(k + 1) /\ CloserOf(t, k + 1, q, b) /\ (k + 1) - 1 = k
      BY <2>1, <2>2 DEF CloserOf
    <3>3. \A i \in ((k + 1) + 1)..(k + 1) : t[i] = w
      OBVIOUS
    <3> HIDE DEF r
    <3>4. ReadsTo(t, k + 1, r, q, b, w)
      BY <2>1, <3>1, <3>2, <3>3 DEF ReadsTo
    <3> QED BY <3>4 DEF r
  <2>3. CASE x = b
    <3>1. r.at = "escape" /\ r.raw = a.raw
      BY <1>2, <2>3 DEF InQuotes
    <3>2. ~CloserOf(t, k + 1, q, b) /\ (k + 1) - 1 = k /\ k + 1 >= 2
      BY <2>3 DEF CloserOf
    <3>3. \A i \in 2..(k + 1) : ~CloserOf(t, i, q, b)
      BY <2>1, <3>2
    <3> HIDE DEF r
    <3>4. ReadsTo(t, k + 1, r, q, b, w)
      BY <2>1, <2>3, <3>1, <3>2, <3>3 DEF ReadsTo
    <3> QED BY <3>4 DEF r
  <2>4. CASE x # q /\ x # b
    <3>1. r.at = "body" /\ r.raw = Append(a.raw, x)
      BY <1>2, <2>4 DEF InQuotes
    <3>2. ~CloserOf(t, k + 1, q, b) /\ ~EscapeOf(t, k + 1, q, b)
      BY <2>4 DEF CloserOf, EscapeOf
    <3>3. \A i \in 2..(k + 1) : ~CloserOf(t, i, q, b)
      BY <2>1, <3>2
    <3>4. BareOf(t, (k + 1) + 1, b)
      BY <1>1, <2>4
    <3>5. Lists(t, KeptTo(t, k + 1, q, b), r.raw)
      BY <2>1, <3>1, <3>2, KeptMore
    <3> HIDE DEF r
    <3>6. ReadsTo(t, k + 1, r, q, b, w)
      BY <3>1, <3>3, <3>4, <3>5 DEF ReadsTo
    <3> QED BY <3>6 DEF r
  <2> QED BY <2>2, <2>3, <2>4
<1>3. CASE a.at = "escape"
  <2>1. /\ \A i \in 2..k : ~CloserOf(t, i, q, b)
        /\ k >= 2 /\ t[k] = b /\ BareOf(t, k, b)
        /\ Lists(t, KeptTo(t, k - 1, q, b), a.raw)
    BY <1>3 DEF ReadsTo
  <2>2. ~BareOf(t, k + 1, b)
    BY <1>1, <2>1
  <2>3. BareOf(t, (k + 1) + 1, b)
    BY <1>1, <2>2
  <2>4. \A i \in 2..(k + 1) : ~CloserOf(t, i, q, b)
    BY <2>1, <2>2 DEF CloserOf
  <2>5. ~EscapeOf(t, k + 1, q, b)
    BY <2>2 DEF EscapeOf
  <2> DEFINE v == IF x \in {b, q} THEN a.raw ELSE Append(a.raw, b)
  <2>6. v \in Seq(S) /\ Lists(t, KeptTo(t, k, q, b), v)
    <3>1. EscapeOf(t, k, q, b) <=> x \in {b, q}
      BY <2>1 DEF EscapeOf
    <3> DEFINE m == k - 1
    <3>2. m \in Nat /\ m >= 1 /\ m + 1 = k
      BY <2>1
    <3>3. Lists(t, KeptTo(t, m, q, b), a.raw) /\ t[m + 1] \in S /\ t[m + 1] = b
      BY <2>1, <3>2
    <3> HIDE DEF m
    <3>4. CASE x \in {b, q}
      <4>1. KeptTo(t, m + 1, q, b) = KeptTo(t, m, q, b)
        BY <3>1, <3>2, <3>4, KeptStep
      <4> QED BY <3>2, <3>3, <3>4, <4>1
    <3>5. CASE x \notin {b, q}
      <4>1. ~EscapeOf(t, m + 1, q, b)
        BY <3>1, <3>2, <3>5
      <4>2. Lists(t, KeptTo(t, m + 1, q, b), Append(a.raw, t[m + 1]))
        BY <3>2, <3>3, <4>1, KeptMore
      <4> QED BY <3>2, <3>3, <3>5, <4>2
    <3> QED BY <3>4, <3>5
  <2>7. Lists(t, KeptTo(t, k + 1, q, b), Append(v, x))
    <3> HIDE DEF v
    <3> QED BY <2>5, <2>6, KeptMore
  <2>8. r.at = "body" /\ r.raw = Append(v, x)
    <3>1. r.at = "body" /\ r.raw = a.raw \o IF x \in {b, q} THEN <<x>> ELSE <<b, x>>
      BY <1>3 DEF InQuotes
    <3>2. a.raw \o <<x>> = Append(a.raw, x)
      OBVIOUS
    <3>3. a.raw \o <<b, x>> = Append(Append(a.raw, b), x)
      BY <2>1
    <3> HIDE DEF r, x
    <3> QED BY <3>1, <3>2, <3>3
  <2> HIDE DEF r, v
  <2>9. ReadsTo(t, k + 1, r, q, b, w)
    BY <2>3, <2>4, <2>7, <2>8 DEF ReadsTo
  <2> QED BY <2>9 DEF r
<1>4. CASE a.at = "end"
  <2>1. PICK c \in 2..k : /\ CloserOf(t, c, q, b)
                          /\ \A i \in 2..(c - 1) : ~CloserOf(t, i, q, b)
                          /\ \A i \in (c + 1)..k : t[i] = w
                          /\ Lists(t, KeptTo(t, c - 1, q, b), a.raw)
    BY <1>4 DEF ReadsTo
  <2>2. CASE x = w
    <3>1. r = a
      BY <1>4, <2>2 DEF InQuotes
    <3>2. c \in 2..(k + 1) /\ \A i \in (c + 1)..(k + 1) : t[i] = w
      BY <2>1, <2>2
    <3>3. ReadsTo(t, k + 1, a, q, b, w)
      BY <1>4, <2>1, <3>2 DEF ReadsTo
    <3> QED BY <3>1, <3>3
  <2>3. CASE x # w
    <3>1. r.at = "trailing"
      BY <1>4, <2>3 DEF InQuotes
    <3>2. c \in 2..((k + 1) - 1)
      OBVIOUS
    <3> HIDE DEF r
    <3>3. ReadsTo(t, k + 1, r, q, b, w)
      BY <2>1, <3>1, <3>2 DEF ReadsTo
    <3> QED BY <3>3 DEF r
  <2> QED BY <2>2, <2>3
<1>5. CASE a.at = "trailing"
  <2>1. PICK c \in 2..(k - 1) : CloserOf(t, c, q, b)
    BY <1>5 DEF ReadsTo
  <2>2. r = a /\ c \in 2..((k + 1) - 1)
    BY <1>5 DEF InQuotes
  <2>3. ReadsTo(t, k + 1, a, q, b, w)
    BY <1>5, <2>1, <2>2 DEF ReadsTo
  <2> QED BY <2>2, <2>3
<1> QED BY <1>2, <1>3, <1>4, <1>5

\* For the tokens they are about, they are what the code and the property say.
LEMMA QuotesAre ==
  /\ "\"" # "\\" /\ "\"" # "'"
  /\ \A a, c : InDoubleQuotes(a, c) = InQuotes(a, c, "\"", "\\", " ")
  /\ \A t, i : Bare(t, i) <=> BareOf(t, i, "\\")
  /\ \A t, i : t[1] = "\"" => (Escape(t, i) <=> EscapeOf(t, i, "\"", "\\"))
<1>1. "\"" # "\\" /\ "\"" # "'"
  OBVIOUS
<1>2. \A a, c : InDoubleQuotes(a, c) = InQuotes(a, c, "\"", "\\", " ")
  BY Zenon DEF InDoubleQuotes, InQuotes
<1>3. ASSUME NEW t, NEW i PROVE Bare(t, i) <=> BareOf(t, i, "\\")
  BY Zenon DEF Bare, BareOf, Run
<1>4. ASSUME NEW t, NEW i, t[1] = "\"" PROVE Escape(t, i) <=> EscapeOf(t, i, "\"", "\\")
  BY <1>3, <1>4, Zenon DEF Escape, EscapeOf
<1> QED BY <1>1, <1>2, <1>3, <1>4, Zenon

\* Behind the last token of a text the scan is behind its closing quote just if
\* no token but the last could be that.
LEMMA ReadsOff ==
  ASSUME NEW s \in Text, s # <<>>, NEW q, NEW b, NEW w, s[Len(s)] # w,
         NEW acc \in Collected, ReadsTo(s, Len(s), acc, q, b, w)
  PROVE  /\ acc.at = "end" <=> {i \in 2..Len(s) : CloserOf(s, i, q, b)} = {Len(s)}
         /\ acc.at = "end" => Lists(s, KeptTo(s, Len(s) - 1, q, b), acc.raw)
<1> DEFINE closers == {i \in 2..Len(s) : CloserOf(s, i, q, b)}
<1>1. Len(s) \in Nat \ {0}
  BY DEF Text
<1>8. /\ acc.at = "end" <=> closers = {Len(s)}
      /\ acc.at = "end" => Lists(s, KeptTo(s, Len(s) - 1, q, b), acc.raw)
  <2>1. acc.at \in {"body", "escape", "end", "trailing"}
    BY DEF Collected
  <2>2. CASE acc.at \in {"body", "escape"}
    <3>1. \A i \in 2..Len(s) : ~CloserOf(s, i, q, b)
      BY <2>2 DEF ReadsTo
    <3>2. closers = {}
      BY <3>1
    <3> QED BY <2>2, <3>2
  <2>3. CASE acc.at = "end"
    <3>1. PICK e \in 2..Len(s) : /\ CloserOf(s, e, q, b)
                                 /\ \A i \in 2..(e - 1) : ~CloserOf(s, i, q, b)
                                 /\ \A i \in (e + 1)..Len(s) : s[i] = w
                                 /\ Lists(s, KeptTo(s, e - 1, q, b), acc.raw)
      BY <2>3 DEF ReadsTo
    <3>2. e = Len(s)
      <4>1. Len(s) \in Nat
        BY <1>1
      <4>2. ASSUME e < Len(s) PROVE FALSE
        <5>1. Len(s) \in (e + 1)..Len(s)
          BY <4>1, <4>2
        <5>2. \A i \in (e + 1)..Len(s) : s[i] = w
          BY <1>1, <3>1
        <5>3. s[Len(s)] = w
          BY <5>1, <5>2, Zenon
        <5> QED BY <5>3
      <4>3. e \in Int /\ e <= Len(s)
        BY <4>1
      <4> QED BY <4>1, <4>2, <4>3
    <3>3. \A i \in 2..Len(s) : CloserOf(s, i, q, b) <=> i = Len(s)
      <4>1. \A i \in 2..Len(s) : i # Len(s) => i \in 2..(e - 1)
        BY <3>2
      <4> QED BY <3>1, <3>2, <4>1
    <3>4. Len(s) \in 2..Len(s)
      BY <3>2
    <3>5. closers = {Len(s)}
      BY <3>3, <3>4
    <3>6. Lists(s, KeptTo(s, Len(s) - 1, q, b), acc.raw)
      <4>1. Lists(s, KeptTo(s, e - 1, q, b), acc.raw)
        BY <1>1, <3>1
      <4> QED BY <3>2, <4>1, Zenon
    <3> HIDE DEF closers
    <3> QED BY <2>3, <3>5, <3>6
  <2>4. CASE acc.at = "trailing"
    <3>1. PICK c \in 2..(Len(s) - 1) : CloserOf(s, c, q, b)
      BY <2>4 DEF ReadsTo
    <3>2. c \in 2..Len(s) /\ c # Len(s)
      <4>1. Len(s) \in Nat
        BY <1>1
      <4> QED BY <4>1, SMT
    <3>3. c \in closers
      BY <3>1, <3>2
    <3>4. closers # {Len(s)}
      BY <3>2, <3>3
    <3> HIDE DEF closers
    <3> QED BY <2>4, <3>4
  <2> QED BY <2>1, <2>2, <2>3, <2>4
<1> QED BY <1>8 DEF closers

\* A text in quotes: the scan ends behind the quote if nothing follows it, and
\* has then collected what is between the quotes.
LEMMA QuotesRead ==
  ASSUME NEW s \in Text, s # <<>>, NEW q, NEW b, NEW w, q # b, s[1] = q, s[Len(s)] # w,
         \A a, c : InDoubleQuotes(a, c) = InQuotes(a, c, q, b, w)
  PROVE  LET acc == FoldLeft(InDoubleQuotes, [at |-> "body", raw |-> <<>>], Tail(s))
         IN /\ acc.at = "end" <=> {i \in 2..Len(s) : CloserOf(s, i, q, b)} = {Len(s)}
            /\ acc.at = "end" => Lists(s, KeptTo(s, Len(s) - 1, q, b), acc.raw)
<1> DEFINE base == [at |-> "body", raw |-> <<>>]
           rest == Tail(s)
           acc == ValueFrom(base, rest)
           n == Len(rest)
           closers == {i \in 2..Len(s) : CloserOf(s, i, q, b)}
<1>1. /\ Len(s) \in Nat \ {0} /\ DOMAIN s = 1..Len(s) /\ \A i \in 1..Len(s) : s[i] \in Token
      /\ rest \in Text /\ n = Len(s) - 1 /\ n \in Nat /\ DOMAIN rest = 1..n
      /\ \A i \in 1..n : rest[i] = s[i + 1]
  BY DEF Text
<1>2. base \in Collected /\ base.at = "body" /\ base.raw = <<>>
  <2>1. <<>> \in Text
    BY DEF Text
  <2> QED BY <2>1 DEF Collected
<1> HIDE DEF base, rest
<1>3. PICK h : /\ h[0] = base
               /\ \A k \in 1..n : h[k] = InDoubleQuotes(h[k - 1], rest[k])
               /\ acc = h[n]
  <2>1. rest \in Text
    BY <1>1
  <2>2. \E h : /\ h[0] = base
               /\ \A k \in 1..Len(rest) : h[k] = InDoubleQuotes(h[k - 1], rest[k])
               /\ ValueFrom(base, rest) = h[Len(rest)]
    BY <2>1, FoldAlong
  <2> QED BY <2>2
<1> HIDE DEF n, acc
<1> DEFINE T == {k \in Nat : k <= n => h[k] \in Collected /\ ReadsTo(s, k + 1, h[k], q, b, w)}
<1>4. 0 \in T
  <2>1. KeptTo(s, 1, q, b) = {}
    BY DEF KeptTo
  <2>2. Lists(s, {}, <<>>) /\ BareOf(s, 2, b)
    BY ListsNone, BareStep
  <2>3. 1 + 1 = 2 /\ \A i \in 2..1 : FALSE
    OBVIOUS
  <2>4. ReadsTo(s, 1, base, q, b, w)
    BY <1>2, <2>1, <2>2, <2>3 DEF ReadsTo
  <2> QED BY <1>2, <1>3, <2>4
<1>5. ASSUME NEW k \in Nat, k \in T PROVE k + 1 \in T
  <2> SUFFICES ASSUME k + 1 <= n
               PROVE  h[k + 1] \in Collected /\ ReadsTo(s, (k + 1) + 1, h[k + 1], q, b, w)
    OBVIOUS
  <2> DEFINE a == h[k]
             m == k + 1
  <2>1. a \in Collected /\ ReadsTo(s, k + 1, a, q, b, w)
    BY <1>1, <1>5
  <2>2. m \in 1..n /\ m - 1 = k /\ m \in Nat /\ m >= 1
    BY <1>1
  <2>3. h[m] = InDoubleQuotes(a, rest[m]) /\ rest[m] = s[m + 1]
    BY <1>1, <1>3, <2>2
  <2>4. s[m + 1] \in Token /\ s[m] \in Token
    BY <1>1, <2>2
  <2> HIDE DEF a
  <2>5. h[m] \in Collected
    BY <2>1, <2>3, <2>4, InDoubleQuotesIs
  <2>6. h[m] = InQuotes(a, s[m + 1], q, b, w)
    BY <2>3
  <2>7. /\ a.raw \in Seq(Token) /\ a.at \in {"body", "escape", "end", "trailing"}
        /\ a = [at |-> a.at, raw |-> a.raw] /\ ReadsTo(s, m, a, q, b, w)
    BY <2>1 DEF Collected, Text
  <2> HIDE DEF m
  <2>8. ReadsTo(s, m + 1, InQuotes(a, s[m + 1], q, b, w), q, b, w)
    BY <2>2, <2>4, <2>7, ReadsStep
  <2> QED BY <2>5, <2>6, <2>8 DEF m
<1> HIDE DEF T
<1>6. n \in T
  BY <1>1, <1>4, <1>5, Induct
<1>7. acc \in Collected /\ ReadsTo(s, Len(s), acc, q, b, w)
  <2>1. n <= n /\ n + 1 = Len(s)
    BY <1>1
  <2> QED BY <1>3, <1>6, <2>1 DEF T
<1>8. /\ acc.at = "end" <=> closers = {Len(s)}
      /\ acc.at = "end" => Lists(s, KeptTo(s, Len(s) - 1, q, b), acc.raw)
  BY <1>7, ReadsOff
<1> QED BY <1>8, Zenon DEF acc, base, rest, closers, ValueFrom

\* A text in double quotes.
LEMMA DoubleIs ==
  ASSUME NEW s \in Text, s # <<>>, s[1] = "\"", s[Len(s)] # " "
  PROVE  LET acc == FoldLeft(InDoubleQuotes, [at |-> "body", raw |-> <<>>], Tail(s))
         IN /\ acc.at = "end" <=> Closers(s) = {Len(s)}
            /\ acc.at = "end" => Says(s, [raw |-> acc.raw, quoting |-> "double"])
<1> DEFINE acc == FoldLeft(InDoubleQuotes, [at |-> "body", raw |-> <<>>], Tail(s))
           J == {i \in 2..(Len(s) - 1) : ~Escape(s, i)}
           v == [raw |-> acc.raw, quoting |-> "double"]
<1>1. /\ acc.at = "end" <=> {i \in 2..Len(s) : CloserOf(s, i, "\"", "\\")} = {Len(s)}
      /\ acc.at = "end" => Lists(s, KeptTo(s, Len(s) - 1, "\"", "\\"), acc.raw)
  BY QuotesAre, QuotesRead, Zenon
<1> HIDE DEF acc
<1>2. Closers(s) = {i \in 2..Len(s) : CloserOf(s, i, "\"", "\\")}
  <2>1. s[1] # "'"
    BY QuotesAre, Zenon
  <2>2. \A i : (s[i] = s[1] /\ (s[1] = "'" \/ Bare(s, i))) <=> CloserOf(s, i, "\"", "\\")
    BY <2>1, QuotesAre, Zenon DEF CloserOf
  <2> QED BY <2>2, Zenon DEF Closers
<1>3. J = KeptTo(s, Len(s) - 1, "\"", "\\")
  BY QuotesAre, Zenon DEF KeptTo
<1>4. v.raw = acc.raw /\ v.quoting = "double"
  BY Zenon
<1>5. s[1] \in {"'", "\""} /\ s[1] # "'"
  BY QuotesAre, Zenon
<1> HIDE DEF v
<1>6. acc.at = "end" => /\ Len(v.raw) = Cardinality(J)
                        /\ \A i \in J : v.raw[Cardinality({j \in J : j <= i})] = s[i]
  BY <1>1, <1>3, <1>4, Zenon DEF Lists
<1>7. Says(s, v) <=> /\ v.quoting = "double"
                     /\ Len(v.raw) = Cardinality(J)
                     /\ \A i \in J : v.raw[Cardinality({j \in J : j <= i})] = s[i]
  BY <1>5, Zenon DEF Says, Quoted
<1>8. acc.at = "end" => Says(s, v)
  BY <1>4, <1>6, <1>7, Zenon
<1> QED BY <1>1, <1>2, <1>8, Zenon DEF acc, v

\* What is between the first and the last token.
LEMMA ListsMiddle ==
  ASSUME NEW s \in Text, Len(s) >= 2
  PROVE  Lists(s, 2..(Len(s) - 1), Front(Tail(s)))
<1> DEFINE n == Len(s) - 1
           v == Front(Tail(s))
<1>1. s \in Seq(Token) /\ Len(s) \in Nat /\ n \in Nat /\ n >= 1
  BY DEF Text
<1>2. Tail(s) \in Seq(Token) /\ Len(Tail(s)) = n /\ \A i \in 1..n : Tail(s)[i] = s[i + 1]
  BY <1>1
<1>3. Len(v) = n - 1 /\ \A i \in 1..(n - 1) : v[i] = Tail(s)[i]
  <2> DEFINE r == Tail(s)
  <2>1. v = SubSeq(r, 1, n - 1)
    BY <1>2 DEF Front
  <2> HIDE DEF n, r, v
  <2> QED BY <1>1, <1>2, <2>1 DEF r
<1>4. Cardinality(2..n) = n - 1
  <2> HIDE DEF n
  <2>1. 2 \in Int /\ n \in Int
    BY <1>1
  <2>2. Cardinality(2..n) = IF 2 > n THEN 0 ELSE n - 2 + 1
    BY <2>1, FS_Interval
  <2> QED BY <1>1, <2>2
<1>5. ASSUME NEW i \in 2..n
      PROVE  v[Cardinality({j \in 2..n : j <= i})] = s[i]
  <2> HIDE DEF n, v
  <2>1. {j \in 2..n : j <= i} = 2..i
    BY <1>1
  <2>2. Cardinality(2..i) = i - 1
    <3>1. 2 \in Int /\ i \in Int /\ i >= 2
      BY <1>1
    <3>2. Cardinality(2..i) = IF 2 > i THEN 0 ELSE i - 2 + 1
      BY <3>1, FS_Interval
    <3> QED BY <3>1, <3>2
  <2> DEFINE k == i - 1
  <2>3. k \in 1..(n - 1) /\ k \in 1..n /\ k + 1 = i
    BY <1>1
  <2>4. v[k] = s[k + 1]
    BY <1>2, <1>3, <2>3
  <2> QED BY <2>1, <2>2, <2>3, <2>4
<1> HIDE DEF n, v
<1>6. Lists(s, 2..n, v)
  BY <1>3, <1>4, <1>5 DEF Lists
<1> QED BY <1>6 DEF n, v

\* Where q stands in t from place a on, and the first place of all.
Places(t, a, q) == {i \in a..Len(t) : t[i] = q}
FirstPlace(t, q) == IF Places(t, 1, q) = {} THEN 0 ELSE Min(Places(t, 1, q))

\* The first q behind the first token is the last token.
LEMMA FirstIsLast ==
  ASSUME NEW s \in Text, s # <<>>, NEW q
  PROVE  LET close == FirstPlace(Tail(s), q)
         IN /\ close # 0 /\ close = Len(Tail(s)) <=> Places(s, 2, q) = {Len(s)}
            /\ close # 0 /\ close = Len(Tail(s)) => Len(s) >= 2
<1> DEFINE rest == Tail(s)
           n == Len(rest)
           I == {i \in 1..n : rest[i] = q}
           J == {i \in 2..Len(s) : s[i] = q}
           close == IF I = {} THEN 0 ELSE Min(I)
<1>1. /\ Len(s) \in Nat \ {0} /\ n = Len(s) - 1 /\ n \in Nat
      /\ \A i \in 1..n : rest[i] = s[i + 1]
  BY DEF Text
<1> HIDE DEF n, rest
<1>2. \A i \in 1..n : i \in I <=> i + 1 \in J
  BY <1>1
<1>3. I \in SUBSET (1..n) /\ \A j \in J : j \in 2..Len(s)
  OBVIOUS
<1>4. I # {} => Min(I) \in I /\ \A i \in I : Min(I) <= i
  <2> SUFFICES ASSUME I # {} PROVE Min(I) \in I /\ \A i \in I : Min(I) <= i
    OBVIOUS
  <2>1. I \in SUBSET Nat
    <3>1. \A i \in 1..n : i \in Nat
      BY <1>1
    <3> QED BY <1>3, <3>1
  <2> HIDE DEF I
  <2>2. \E x \in I : \A y \in I : x <= y
    BY <2>1, Least
  <2> QED BY <2>2 DEF Min
<1> HIDE DEF I, J
<1>5. close # 0 /\ close = n <=> I = {n} /\ n # 0
  <2>1. ASSUME I = {n}, n # 0 PROVE close # 0 /\ close = n
    <3>1. Min(I) \in I
      BY <1>4, <2>1
    <3> QED BY <2>1, <3>1
  <2>2. ASSUME close # 0, close = n PROVE I = {n} /\ n # 0
    <3>1. I # {} /\ Min(I) = n
      BY <2>2
    <3>2. n \in I /\ \A i \in I : n <= i
      BY <1>4, <3>1
    <3>3. \A i \in I : i = n
      <4>1. \A i \in I : i \in 1..n
        BY <1>3
      <4> QED BY <1>1, <3>2, <4>1
    <3> QED BY <2>2, <3>2, <3>3
  <2> QED BY <2>1, <2>2
<1>6. I = {n} /\ n # 0 <=> J = {Len(s)}
  <2>1. ASSUME I = {n}, n # 0 PROVE J = {Len(s)}
    <3>1. \A j \in J : j = Len(s)
      <4> SUFFICES ASSUME NEW j \in J PROVE j = Len(s)
        OBVIOUS
      <4>1. j \in 2..Len(s)
        BY <1>3
      <4>2. j - 1 \in 1..n /\ (j - 1) + 1 = j
        BY <1>1, <4>1
      <4>3. j - 1 = n
        BY <1>2, <2>1, <4>2
      <4> QED BY <1>1, <4>1, <4>3
    <3>2. Len(s) \in J
      <4>1. n \in 1..n /\ n + 1 = Len(s)
        BY <1>1, <2>1
      <4> QED BY <1>2, <2>1, <4>1
    <3> QED BY <3>1, <3>2
  <2>2. ASSUME J = {Len(s)} PROVE I = {n} /\ n # 0
    <3>1. Len(s) \in 2..Len(s)
      BY <1>3, <2>2
    <3>2. n # 0 /\ n \in 1..n /\ n + 1 = Len(s)
      BY <1>1, <3>1
    <3>3. n \in I
      BY <1>2, <2>2, <3>2
    <3>4. \A i \in I : i = n
      <4> SUFFICES ASSUME NEW i \in I PROVE i = n
        OBVIOUS
      <4>1. i \in 1..n /\ i + 1 \in J
        BY <1>2, <1>3
      <4>2. i + 1 = Len(s)
        BY <2>2, <4>1
      <4> QED BY <1>1, <4>1, <4>2
    <3> QED BY <3>2, <3>3, <3>4
  <2> QED BY <2>1, <2>2
<1>7. n # 0 => Len(s) >= 2
  BY <1>1
<1> QED BY <1>5, <1>6, <1>7 DEF I, J, n, rest, Places, FirstPlace

\* A text in single quotes.
LEMMA SingleIs ==
  ASSUME NEW s \in Text, s # <<>>, s[1] = "'"
  PROVE  LET rest == Tail(s)
             close == SelectInSeq(rest, LAMBDA c : c = "'")
         IN /\ close # 0 /\ close = Len(rest) <=> Closers(s) = {Len(s)}
            /\ close # 0 /\ close = Len(rest) =>
                 Says(s, [raw |-> Front(rest), quoting |-> "single"])
<1> DEFINE rest == Tail(s)
           close == SelectInSeq(rest, LAMBDA c : c = "'")
           v == [raw |-> Front(rest), quoting |-> "single"]
<1>1. close = FirstPlace(rest, "'")
  BY Zenon DEF SelectInSeq, FirstPlace, Places
<1>2. /\ close # 0 /\ close = Len(rest) <=> Places(s, 2, "'") = {Len(s)}
      /\ close # 0 /\ close = Len(rest) => Len(s) >= 2
  <2> DEFINE q == "'"
  <2> HIDE DEF q
  <2>1. LET first == FirstPlace(Tail(s), q)
        IN /\ first # 0 /\ first = Len(Tail(s)) <=> Places(s, 2, q) = {Len(s)}
           /\ first # 0 /\ first = Len(Tail(s)) => Len(s) >= 2
    BY FirstIsLast
  <2> QED BY <1>1, <2>1, Zenon DEF q
<1>3. Closers(s) = Places(s, 2, "'")
  BY Zenon DEF Closers, Places
<1>4. Len(s) >= 2 => Says(s, v)
  <2> DEFINE J == {i \in 2..(Len(s) - 1) : ~Escape(s, i)}
  <2>1. s[1] \in {"'", "\""} /\ s[1] # "\""
    BY QuotesAre, Zenon
  <2>2. J = 2..(Len(s) - 1)
    BY <2>1, Zenon DEF Escape
  <2>3. Len(s) >= 2 => Lists(s, J, Front(rest))
    BY <2>2, ListsMiddle, Zenon
  <2>4. v.raw = Front(rest) /\ v.quoting = "single"
    BY Zenon
  <2> HIDE DEF v
  <2>5. Says(s, v) <=> /\ v.quoting = "single"
                       /\ Len(v.raw) = Cardinality(J)
                       /\ \A i \in J : v.raw[Cardinality({j \in J : j <= i})] = s[i]
    BY <2>1, Zenon DEF Says, Quoted
  <2> QED BY <2>3, <2>4, <2>5, Zenon DEF Lists
<1> HIDE DEF close, v
<1> QED BY <1>2, <1>3, <1>4, Zenon DEF close, v

\* A value is read as what it says, and not read if it says nothing.
LEMMA ReadValueExact ==
  ASSUME NEW t \in Text
  PROVE  /\ ReadValue(t) = {} => ~Readable(Stripped(t))
         /\ \A v \in ReadValue(t) : Readable(Stripped(t)) /\ Says(Stripped(t), v)
<1> DEFINE s == Stripped(t)
<1>1. /\ s \in Text /\ s = Trimmed(t)
      /\ s # <<>> => s[1] # " " /\ s[Len(s)] # " "
  BY StrippedIs, Zenon
<1> HIDE DEF s
<1>2. CASE s # <<>> /\ s[1] = "'"
  <2> DEFINE rest == Tail(s)
             close == SelectInSeq(rest, LAMBDA c : c = "'")
             v == [raw |-> Front(rest), quoting |-> "single"]
  <2>1. ReadValue(t) = IF close # 0 /\ close = Len(rest) THEN {v} ELSE {}
    BY <1>1, <1>2, Zenon DEF ReadValue
  <2>2. /\ close # 0 /\ close = Len(rest) <=> Closers(s) = {Len(s)}
        /\ close # 0 /\ close = Len(rest) => Says(s, v)
    BY <1>1, <1>2, SingleIs, Zenon
  <2>3. Readable(s) <=> Closers(s) = {Len(s)}
    BY <1>2, Zenon DEF Readable, Quoted
  <2> HIDE DEF close, rest, v
  <2>4. /\ ReadValue(t) = {} => ~Readable(s)
        /\ \A u \in ReadValue(t) : Readable(s) /\ Says(s, u)
    BY <2>1, <2>2, <2>3
  <2> QED BY <2>4 DEF s
<1>3. CASE s # <<>> /\ s[1] = "\""
  <2> DEFINE rest == Tail(s)
             acc == FoldLeft(InDoubleQuotes, [at |-> "body", raw |-> <<>>], rest)
             v == [raw |-> acc.raw, quoting |-> "double"]
  <2>1. s[1] # "'"
    BY <1>3, QuotesAre, Zenon
  <2>2. ReadValue(t) = IF acc.at = "end" THEN {v} ELSE {}
    BY <1>1, <1>3, <2>1, Zenon DEF ReadValue
  <2>3. /\ acc.at = "end" <=> Closers(s) = {Len(s)}
        /\ acc.at = "end" => Says(s, v)
    BY <1>1, <1>3, DoubleIs, Zenon
  <2>4. Readable(s) <=> Closers(s) = {Len(s)}
    BY <1>3, Zenon DEF Readable, Quoted
  <2> DEFINE ends == acc.at = "end"
  <2> HIDE DEF ends, acc, rest, v
  <2>5. ReadValue(t) = (IF ends THEN {v} ELSE {}) /\ (ends <=> Readable(s)) /\ (ends => Says(s, v))
    BY <2>2, <2>3, <2>4, Zenon DEF ends
  <2>6. /\ ReadValue(t) = {} => ~Readable(s)
        /\ \A u \in ReadValue(t) : Readable(s) /\ Says(s, u)
    BY <2>5
  <2> QED BY <2>6 DEF s
<1>4. CASE ~(s # <<>> /\ s[1] = "'") /\ ~(s # <<>> /\ s[1] = "\"")
  <2> DEFINE v == [raw |-> s, quoting |-> "none"]
  <2>1. ReadValue(t) = {v}
    BY <1>1, <1>4, Zenon DEF ReadValue
  <2>2. ~Quoted(s)
    BY <1>4, Zenon DEF Quoted
  <2>3. Readable(s) /\ Says(s, v)
    BY <2>2, Zenon DEF Readable, Says
  <2> HIDE DEF v
  <2>4. /\ ReadValue(t) = {} => ~Readable(s)
        /\ \A u \in ReadValue(t) : Readable(s) /\ Says(s, u)
    BY <2>1, <2>3
  <2> QED BY <2>4 DEF s
<1> QED BY <1>2, <1>3, <1>4

\* The lines are read right up to the one that is read now.
LEMMA ReadLineRight == TypeOK /\ LinesReadRight /\ ReadLine => LinesReadRight'
<1> SUFFICES ASSUME TypeOK, ReadLine PROVE LinesReadRight'
  OBVIOUS
<1> DEFINE l == input.lines[line]
           values == IF l.kind = "set" THEN ReadValue(l.text) ELSE {}
<1>1. /\ line \in DOMAIN input.lines /\ line \in Nat \ {0} /\ phase = "read"
      /\ input' = input
  BY MapsTyped DEF ReadLine, Fail
<1>2. l \in Line
  <2>1. input.lines \in Seq(Line)
    BY InputIs, MapsTyped
  <2> QED BY <1>1, <2>1
<1>3. l.kind = "set" =>
        /\ ReadValue(l.text) = {} => ~Readable(Stripped(l.text))
        /\ \A v \in ReadValue(l.text) :
             Readable(Stripped(l.text)) /\ Says(Stripped(l.text), v)
  <2> SUFFICES ASSUME l.kind = "set"
               PROVE  /\ ReadValue(l.text) = {} => ~Readable(Stripped(l.text))
                      /\ \A v \in ReadValue(l.text) :
                           Readable(Stripped(l.text)) /\ Says(Stripped(l.text), v)
    OBVIOUS
  <2>1. l.text \in Text
    BY <1>2 DEF Line
  <2> HIDE DEF l
  <2> QED BY <2>1, ReadValueExact
<1>4. CASE l.kind # "skip" /\ values = {}
  <2>1. phase' = "unreadable" /\ line' = line
    BY <1>4 DEF ReadLine, Fail
  <2>2. l.kind = "set" => ~Readable(Stripped(l.text))
    BY <1>3, <1>4
  <2>3. "unreadable" # "read" /\ l' = l
    BY <1>1, <2>1
  <2> HIDE DEF l
  <2> QED BY <1>1, <2>1, <2>2, <2>3 DEF LinesReadRight, l
<1>5. CASE ~(l.kind # "skip" /\ values = {})
  <2>1. /\ \/ l.kind = "skip"
           \/ \E v \in values : file' = With(file, l.name, v)
        /\ line' = line + 1 /\ phase' = "read"
    BY <1>1, <1>5 DEF ReadLine
  <2>2. l.kind = "set" => Readable(Stripped(l.text)) /\ Says(Stripped(l.text), file'[l.name])
    <3> SUFFICES ASSUME l.kind = "set"
                 PROVE  Readable(Stripped(l.text)) /\ Says(Stripped(l.text), file'[l.name])
      OBVIOUS
    <3>1. PICK v \in ReadValue(l.text) : file' = With(file, l.name, v)
      BY <2>1
    <3>2. file'[l.name] = v
      BY <3>1 DEF With, Over
    <3> HIDE DEF l
    <3> QED BY <1>3, <3>1, <3>2
  <2>3. "read" # "unreadable" /\ line' - 1 = line
    BY <1>1, <2>1
  <2> HIDE DEF l
  <2> QED BY <1>1, <2>1, <2>2, <2>3 DEF LinesReadRight, l
<1> QED BY <1>4, <1>5

\* Whatever is written behind the `=` of a line, it is read as what it says if it
\* says something, and refused otherwise: which quote closes it, what is escaped
\* before that and what may come behind it, for texts of any length
\* (envread.rs parse_env_str).
THEOREM ReadsWhatIsWritten == Spec => []LinesReadRight
<1>1. Init => LinesReadRight
  BY DEF Init, LinesReadRight
<1>2. TypeOK /\ LinesReadRight /\ [Next]_vars => LinesReadRight'
  <2> SUFFICES ASSUME TypeOK, LinesReadRight, [Next]_vars PROVE LinesReadRight'
    OBVIOUS
  <2>1. CASE ReadLine
    BY <2>1, ReadLineRight
  <2>2. CASE UNCHANGED vars
    BY <2>2 DEF vars, LinesReadRight
  <2>3. CASE Compose
    <3>1. phase' = "resolve"
      BY <2>3 DEF Compose
    <3> QED BY <3>1 DEF LinesReadRight
  <2>4. CASE \/ Literal \/ Circular \/ Enter \/ Copy \/ Refer \/ Undefined \/ Substitute
             \/ EnterDefault \/ Return \/ ReturnDefault \/ Exec \/ NotExecuted
    <3>1. phase' \in {"resolve", "circular", "malformed", "undefined", "started", "notExecuted"}
      BY <2>4 DEF Literal, Circular, Enter, Copy, Refer, Undefined, Substitute, EnterDefault,
                  Return, ReturnDefault, Exec, NotExecuted, Fail, Resolving, Scanning, AtEnd,
                  AllResolved
    <3> QED BY <3>1 DEF LinesReadRight
  <2> QED BY <2>1, <2>2, <2>3, <2>4 DEF Next
<1> QED BY <1>1, <1>2, ExecTypeCorrect, PTL DEF Spec
=============================================================================
