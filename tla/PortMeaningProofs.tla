-------------------------- MODULE PortMeaningProofs --------------------------
(***************************************************************************)
(* What the values mean is what the program gets: the code's recursion,    *)
(* its stack and its order agree with a definition that has none of them,  *)
(* for texts of any length, any number of names and any references.        *)
(***************************************************************************)
EXTENDS PortExecProofs, SequenceTheorems

-----------------------------------------------------------------------------
(* Parts of texts.                                                         *)

\* Texts with the same tokens are the same.
LEMMA SameText ==
  ASSUME NEW s \in Text, NEW t \in Text, Len(s) = Len(t), \A k \in 1..Len(s) : s[k] = t[k]
  PROVE  s = t
<1>1. s \in Seq(Token) /\ t \in Seq(Token)
  BY DEF Text
<1> QED BY <1>1

\* t from token i on.
From(t, i) == SubSeq(t, i, Len(t))

\* What that is.
LEMMA FromIs ==
  ASSUME NEW t \in Text, NEW i \in 1..(Len(t) + 1)
  PROVE  /\ Len(t) \in Nat
         /\ From(t, i) \in Text /\ Len(From(t, i)) = Len(t) + 1 - i
         /\ \A k \in 1..(Len(t) + 1 - i) : From(t, i)[k] = t[i + k - 1]
<1>1. t \in Seq(Token) /\ Len(t) \in Nat
  BY DEF Text
<1>2. Len(t) \in (i - 1)..Len(t)
  BY <1>1
<1> QED BY <1>1, <1>2, Part DEF From, Text

\* A part of a part.
LEMMA FromFrom ==
  ASSUME NEW t \in Text, NEW i \in 1..(Len(t) + 1), NEW k \in 1..(Len(t) + 2 - i)
  PROVE  From(From(t, i), k) = From(t, i + k - 1)
<1> DEFINE s == From(t, i)
           j == i + k - 1
<1>1. /\ Len(t) \in Nat /\ s \in Text /\ Len(s) = Len(t) + 1 - i
      /\ \A m \in 1..(Len(t) + 1 - i) : s[m] = t[i + m - 1]
  BY FromIs
<1>2. k \in 1..(Len(s) + 1) /\ j \in 1..(Len(t) + 1)
  BY <1>1
<1> HIDE DEF s
<1>3. /\ From(s, k) \in Text /\ Len(From(s, k)) = Len(s) + 1 - k
      /\ \A m \in 1..(Len(s) + 1 - k) : From(s, k)[m] = s[k + m - 1]
  BY <1>1, <1>2, FromIs
<1>4. /\ From(t, j) \in Text /\ Len(From(t, j)) = Len(t) + 1 - j
      /\ \A m \in 1..(Len(t) + 1 - j) : From(t, j)[m] = t[j + m - 1]
  <2> HIDE DEF j
  <2> QED BY <1>2, FromIs
<1>5. Len(From(s, k)) = Len(From(t, j))
  BY <1>1, <1>3, <1>4
<1>6. ASSUME NEW m \in 1..Len(From(s, k)) PROVE From(s, k)[m] = From(t, j)[m]
  <2>1. m \in 1..(Len(s) + 1 - k) /\ m \in 1..(Len(t) + 1 - j)
    BY <1>3, <1>4, <1>5, <1>6
  <2>2. k + m - 1 \in 1..(Len(t) + 1 - i) /\ i + (k + m - 1) - 1 = j + m - 1
    BY <1>1, <2>1
  <2>3. From(s, k)[m] = s[k + m - 1] /\ s[k + m - 1] = t[i + (k + m - 1) - 1]
    BY <1>1, <1>3, <2>1, <2>2
  <2>4. From(t, j)[m] = t[j + m - 1]
    BY <1>4, <2>1
  <2> QED BY <2>2, <2>3, <2>4
<1> HIDE DEF j
<1>7. From(s, k) = From(t, j)
  BY <1>3, <1>4, <1>5, <1>6, SameText
<1> QED BY <1>7 DEF s, j

\* The whole, nothing, and a part without its first token.
LEMMA FromEnds ==
  ASSUME NEW t \in Text
  PROVE  /\ From(t, 1) = t
         /\ From(t, Len(t) + 1) = <<>>
         /\ \A i \in 1..Len(t) : /\ From(t, i) # <<>> /\ From(t, i)[1] = t[i]
                                 /\ Tail(From(t, i)) = From(t, i + 1)
<1>1. Len(t) \in Nat /\ t \in Seq(Token)
  BY DEF Text
<1>2. From(t, 1) = t
  <2>1. 1 \in 1..(Len(t) + 1)
    BY <1>1
  <2>2. /\ From(t, 1) \in Text /\ Len(From(t, 1)) = Len(t) + 1 - 1
        /\ \A k \in 1..(Len(t) + 1 - 1) : From(t, 1)[k] = t[1 + k - 1]
    BY <2>1, FromIs
  <2>3. Len(From(t, 1)) = Len(t) /\ \A k \in 1..Len(From(t, 1)) : From(t, 1)[k] = t[k]
    BY <1>1, <2>2
  <2> QED BY <2>2, <2>3, SameText
<1>3. From(t, Len(t) + 1) = <<>>
  <2>1. Len(t) + 1 \in 1..(Len(t) + 1)
    BY <1>1
  <2>2. From(t, Len(t) + 1) \in Text /\ Len(From(t, Len(t) + 1)) = Len(t) + 1 - (Len(t) + 1)
    BY <2>1, FromIs
  <2> DEFINE s == From(t, Len(t) + 1)
  <2>3. s \in Seq(Token) /\ Len(s) = 0
    BY <1>1, <2>2 DEF Text
  <2> HIDE DEF s
  <2>4. s = <<>>
    BY <2>3
  <2> QED BY <2>4 DEF s
<1>4. ASSUME NEW i \in 1..Len(t)
      PROVE  /\ From(t, i) # <<>> /\ From(t, i)[1] = t[i]
             /\ Tail(From(t, i)) = From(t, i + 1)
  <2> DEFINE s == From(t, i)
  <2>1. i \in 1..(Len(t) + 1) /\ i + 1 \in 1..(Len(t) + 1)
    BY <1>1
  <2>2. /\ s \in Text /\ Len(s) = Len(t) + 1 - i
        /\ \A k \in 1..(Len(t) + 1 - i) : s[k] = t[i + k - 1]
    BY <2>1, FromIs
  <2>3. 1 \in 1..(Len(t) + 1 - i) /\ i + 1 - 1 = i
    BY <1>1
  <2>4. s[1] = t[i]
    BY <2>2, <2>3
  <2>5. 2 \in 1..(Len(t) + 2 - i) /\ i + 2 - 1 = i + 1
    BY <1>1
  <2>6. From(s, 2) = From(t, i + 1)
    BY <2>1, <2>5, FromFrom
  <2> HIDE DEF s
  <2>7. s # <<>> /\ Tail(s) = From(s, 2)
    <3>1. s \in Seq(Token) /\ Len(s) # 0
      BY <1>1, <2>2 DEF Text
    <3>2. s # <<>>
      BY <3>1
    <3> QED BY <3>1, <3>2 DEF From
  <2> QED BY <2>4, <2>6, <2>7 DEF s
<1> QED BY <1>2, <1>3, <1>4

-----------------------------------------------------------------------------
(* The brace that closes a default.                                        *)

\* How many of the first k tokens of x are o.
Upto(x, k, o) == Cardinality({i \in 1..k : x[i] = o})

\* One token further.
LEMMA UptoStep ==
  ASSUME NEW x, NEW o
  PROVE  /\ Upto(x, 0, o) = 0
         /\ \A k \in Nat : /\ Upto(x, k, o) \in Nat
                           /\ Upto(x, k + 1, o) =
                                IF x[k + 1] = o THEN Upto(x, k, o) + 1 ELSE Upto(x, k, o)
<1>1. Upto(x, 0, o) = 0
  <2>1. {i \in 1..0 : x[i] = o} = {}
    OBVIOUS
  <2> QED BY <2>1, FS_EmptySet DEF Upto
<1>2. ASSUME NEW k \in Nat
      PROVE  /\ Upto(x, k, o) \in Nat
             /\ Upto(x, k + 1, o) = IF x[k + 1] = o THEN Upto(x, k, o) + 1 ELSE Upto(x, k, o)
  <2> DEFINE I == {i \in 1..k : x[i] = o}
             J == {i \in 1..(k + 1) : x[i] = o}
             n == k + 1
  <2>1. IsFiniteSet(I)
    <3>1. IsFiniteSet(1..k)
      BY FS_Interval
    <3> QED BY <3>1, FS_Subset
  <2>2. \A i : i \in 1..n <=> i \in 1..k \/ i = n
    OBVIOUS
  <2>3. n \notin I
    OBVIOUS
  <2>4. J = IF x[n] = o THEN I \cup {n} ELSE I
    BY <2>2
  <2> HIDE DEF I, J, n
  <2>5. Cardinality(I) \in Nat
    BY <2>1, FS_CardinalityType
  <2>6. Cardinality(I \cup {n}) = Cardinality(I) + 1
    BY <2>1, <2>3, FS_AddElement
  <2>7. Cardinality(J) = IF x[n] = o THEN Cardinality(I) + 1 ELSE Cardinality(I)
    BY <2>4, <2>6
  <2> QED BY <2>5, <2>7, Zenon DEF Upto, I, J, n
<1> QED BY <1>1, <1>2

\* A b at place c, before which every b has an o and every o a b.
ClosesAt(x, c, o, b) ==
  /\ x[c] = b
  /\ Upto(x, c - 1, o) = Upto(x, c - 1, b)
  /\ \A i \in 1..(c - 1) : Upto(x, i, o) >= Upto(x, i, b)

\* There is one at most.
LEMMA ClosesOnce ==
  ASSUME NEW x, NEW o, NEW b, o # b, NEW c \in Nat \ {0}, NEW d \in Nat \ {0},
         ClosesAt(x, c, o, b), ClosesAt(x, d, o, b)
  PROVE  c = d
<1>1. ASSUME NEW m \in Nat \ {0}, NEW n \in Nat \ {0}, m < n,
             ClosesAt(x, m, o, b), ClosesAt(x, n, o, b)
      PROVE  FALSE
  <2> DEFINE k == m - 1
  <2>1. k \in Nat /\ k + 1 = m /\ m \in 1..(n - 1)
    BY <1>1
  <2>2. x[k + 1] = b /\ Upto(x, k, o) = Upto(x, k, b)
    BY <1>1, <2>1 DEF ClosesAt
  <2>3. Upto(x, m, o) >= Upto(x, m, b)
    BY <1>1, <2>1 DEF ClosesAt
  <2> HIDE DEF k
  <2>4. Upto(x, k + 1, o) = Upto(x, k, o) /\ Upto(x, k + 1, b) = Upto(x, k, b) + 1
    BY <2>1, <2>2, UptoStep
  <2>5. Upto(x, k, o) \in Nat /\ Upto(x, k, b) \in Nat
    BY <2>1, UptoStep
  <2> QED BY <2>1, <2>2, <2>3, <2>4, <2>5
<1>2. ~(c < d) /\ ~(d < c)
  BY <1>1
<1> QED BY <1>2

\* What the scan knows behind k tokens.
CountsTo(x, k, a, o, b) ==
  /\ a.close = 0 => /\ a.len = k
                    /\ Upto(x, k, o) = Upto(x, k, b) + a.depth
                    /\ \A i \in 1..k : Upto(x, i, o) >= Upto(x, i, b)
                    /\ \A c \in 1..k : ~ClosesAt(x, c, o, b)
  /\ a.close # 0 => a.close \in 1..k /\ ClosesAt(x, a.close, o, b)

\* One token further.
LEMMA CountsStep ==
  ASSUME NEW x, NEW o, NEW b, o # b, NEW k \in Nat,
         NEW a, a.depth \in Nat, a.len \in Nat, a.close \in Nat,
         a = [depth |-> a.depth, len |-> a.len, close |-> a.close],
         CountsTo(x, k, a, o, b)
  PROVE  CountsTo(x, k + 1, DeeperWith(a, x[k + 1], o, b), o, b)
<1> DEFINE n == k + 1
           r == DeeperWith(a, x[n], o, b)
<1>1. n \in Nat /\ n - 1 = k /\ \A i \in 1..n : i \in 1..k \/ i = n
  OBVIOUS
<1>2. /\ Upto(x, k, o) \in Nat /\ Upto(x, k, b) \in Nat
      /\ Upto(x, n, o) = IF x[n] = o THEN Upto(x, k, o) + 1 ELSE Upto(x, k, o)
      /\ Upto(x, n, b) = IF x[n] = b THEN Upto(x, k, b) + 1 ELSE Upto(x, k, b)
  BY UptoStep
<1>3. CASE a.close # 0
  <2>1. r = a /\ a.close \in 1..n
    BY <1>3 DEF DeeperWith, CountsTo
  <2>2. CountsTo(x, n, a, o, b)
    BY <1>3, <2>1 DEF CountsTo
  <2> HIDE DEF n, r
  <2> QED BY <2>1, <2>2 DEF n, r
<1>4. CASE a.close = 0
  <2>1. /\ a.len = k
        /\ Upto(x, k, o) = Upto(x, k, b) + a.depth
        /\ \A i \in 1..k : Upto(x, i, o) >= Upto(x, i, b)
        /\ \A c \in 1..k : ~ClosesAt(x, c, o, b)
    BY <1>4 DEF CountsTo
  <2>2. CASE x[n] = b /\ a.depth = 0
    <3>1. r.close = n
      BY <1>4, <2>1, <2>2 DEF DeeperWith
    <3>2. n # 0 /\ n \in 1..n
      OBVIOUS
    <3> HIDE DEF n, r
    <3>3. ClosesAt(x, n, o, b)
      BY <1>1, <1>2, <2>1, <2>2 DEF ClosesAt
    <3>4. CountsTo(x, n, r, o, b)
      BY <3>1, <3>2, <3>3 DEF CountsTo
    <3> QED BY <3>4 DEF n, r
  <2>3. CASE ~(x[n] = b /\ a.depth = 0)
    <3> DEFINE d == IF x[n] = o THEN a.depth + 1 ELSE IF x[n] = b THEN a.depth - 1 ELSE a.depth
    <3>1. r = [[a EXCEPT !.len = a.len + 1] EXCEPT !.depth = d]
      BY <1>4, <2>3 DEF DeeperWith
    <3>2. n = a.len + 1
      BY <2>1
    <3> HIDE DEF n, r, d
    <3>3. r.len = n /\ r.depth = d /\ r.close = 0
      BY <1>4, <3>1, <3>2
    <3>4. Upto(x, n, o) = Upto(x, n, b) + d /\ d >= 0
      BY <1>2, <2>1, <2>3 DEF d
    <3>5. d \in Int
      BY <2>1 DEF d
    <3>6. \A i \in 1..n : Upto(x, i, o) >= Upto(x, i, b)
      <4>1. Upto(x, n, b) \in Nat
        BY <1>2
      <4>2. Upto(x, n, o) >= Upto(x, n, b)
        BY <3>4, <3>5, <4>1
      <4> QED BY <1>1, <2>1, <4>2
    <3>7. ~ClosesAt(x, n, o, b)
      <4> SUFFICES ASSUME ClosesAt(x, n, o, b) PROVE FALSE
        OBVIOUS
      <4>1. x[n] = b /\ Upto(x, k, o) = Upto(x, k, b)
        BY <1>1 DEF ClosesAt
      <4> QED BY <1>2, <2>1, <2>3, <4>1
    <3>8. \A c \in 1..n : ~ClosesAt(x, c, o, b)
      BY <1>1, <2>1, <3>7
    <3>9. CountsTo(x, n, r, o, b)
      BY <3>3, <3>4, <3>6, <3>8 DEF CountsTo
    <3> QED BY <3>9 DEF n, r
  <2> QED BY <2>2, <2>3
<1> QED BY <1>3, <1>4

\* The scan finds the brace, if there is one.
LEMMA CountsRight ==
  ASSUME NEW t \in Text, NEW o, NEW b, o # b,
         \A a, c : Deeper(a, c) = DeeperWith(a, c, o, b)
  PROVE  /\ Closing(t) = 0 => \A c \in 1..Len(t) : ~ClosesAt(t, c, o, b)
         /\ Closing(t) # 0 => Closing(t) \in 1..Len(t) /\ ClosesAt(t, Closing(t), o, b)
<1> DEFINE base == [depth |-> 0, len |-> 0, close |-> 0]
           acc == DefaultFrom(base, t)
           n == Len(t)
<1>1. n \in Nat
  BY DEF Text
<1>2. Closing(t) = acc.close
  BY Zenon DEF Closing, DefaultFrom
<1>3. base \in Counted(0) /\ base.depth = 0 /\ base.len = 0 /\ base.close = 0
  BY DEF Counted
<1> HIDE DEF base
<1>4. PICK h : /\ h[0] = base
               /\ \A k \in 1..Len(t) : h[k] = Deeper(h[k - 1], t[k])
               /\ acc = h[Len(t)]
  <2>1. \E h : /\ h[0] = base
               /\ \A k \in 1..Len(t) : h[k] = Deeper(h[k - 1], t[k])
               /\ DefaultFrom(base, t) = h[Len(t)]
    BY FoldAlong
  <2> QED BY <2>1
<1> HIDE DEF n, acc
<1> DEFINE T == {k \in Nat : k <= n => h[k] \in Counted(k) /\ CountsTo(t, k, h[k], o, b)}
<1>5. 0 \in T
  <2>1. Upto(t, 0, o) = 0 /\ Upto(t, 0, b) = 0
    BY UptoStep
  <2>2. \A i \in 1..0 : FALSE
    OBVIOUS
  <2>3. CountsTo(t, 0, base, o, b)
    BY <1>3, <2>1, <2>2 DEF CountsTo
  <2> QED BY <1>3, <1>4, <2>3
<1>6. ASSUME NEW k \in Nat, k \in T PROVE k + 1 \in T
  <2> SUFFICES ASSUME k + 1 <= n
               PROVE  h[k + 1] \in Counted(k + 1) /\ CountsTo(t, k + 1, h[k + 1], o, b)
    OBVIOUS
  <2> DEFINE a == h[k]
  <2>1. a \in Counted(k) /\ CountsTo(t, k, a, o, b)
    BY <1>1, <1>6
  <2>2. k + 1 \in 1..n /\ (k + 1) - 1 = k
    BY <1>1
  <2>3. h[k + 1] = Deeper(a, t[k + 1])
    BY <1>4, <2>2 DEF n
  <2> HIDE DEF a
  <2>4. h[k + 1] \in Counted(k + 1)
    BY <2>1, <2>3, DeeperIs
  <2>5. h[k + 1] = DeeperWith(a, t[k + 1], o, b)
    BY <2>3
  <2>6. /\ a.depth \in Nat /\ a.len \in Nat /\ a.close \in Nat
        /\ a = [depth |-> a.depth, len |-> a.len, close |-> a.close]
    BY <2>1 DEF Counted
  <2>7. CountsTo(t, k + 1, DeeperWith(a, t[k + 1], o, b), o, b)
    BY <2>1, <2>6, CountsStep
  <2> QED BY <2>4, <2>5, <2>7
<1> HIDE DEF T
<1>7. n \in T
  BY <1>1, <1>5, <1>6, Induct
<1>8. CountsTo(t, n, acc, o, b)
  <2>1. n <= n
    BY <1>1
  <2> QED BY <1>4, <1>7, <2>1 DEF T, n
<1> QED BY <1>2, <1>8 DEF CountsTo, n

\* Count and Balanced of the first tokens are what the scan counts.
LEMMA BalancedIs ==
  ASSUME NEW t \in Text, NEW c \in 1..Len(t)
  PROVE  t[c] = "}" /\ Balanced(SubSeq(t, 1, c - 1)) <=> ClosesAt(t, c, "${", "}")
<1> DEFINE d == SubSeq(t, 1, c - 1)
<1>1. t \in Seq(Token) /\ Len(t) \in Nat
  BY DEF Text
<1>2. /\ d \in Seq(Token) /\ Len(d) = c - 1 /\ DOMAIN d = 1..(c - 1)
      /\ \A k \in 1..(c - 1) : d[k] = t[k]
  BY <1>1
<1>3. ASSUME NEW o PROVE Count(d, o) = Upto(t, c - 1, o)
  <2>1. {i \in DOMAIN d : d[i] = o} = {i \in 1..(c - 1) : t[i] = o}
    BY <1>2
  <2> QED BY <2>1 DEF Count, Upto
<1>4. ASSUME NEW i \in DOMAIN d, NEW o PROVE Count(SubSeq(d, 1, i), o) = Upto(t, i, o)
  <2> DEFINE e == SubSeq(d, 1, i)
  <2> HIDE DEF d
  <2>1. i \in 1..(c - 1)
    BY <1>2
  <2>2. DOMAIN e = 1..i /\ \A k \in 1..i : e[k] = d[k]
    BY <1>1, <1>2, <2>1
  <2>3. \A k \in 1..i : e[k] = t[k]
    BY <1>2, <2>1, <2>2
  <2> HIDE DEF e
  <2>4. {k \in DOMAIN e : e[k] = o} = {k \in 1..i : t[k] = o}
    BY <2>2, <2>3
  <2>5. Count(e, o) = Upto(t, i, o)
    BY <2>4 DEF Count, Upto
  <2> QED BY <2>5 DEF e
<1> HIDE DEF d
<1>5. ASSUME NEW o, NEW b
      PROVE  /\ Count(d, o) = Count(d, b) <=> Upto(t, c - 1, o) = Upto(t, c - 1, b)
             /\ (\A i \in DOMAIN d : Count(SubSeq(d, 1, i), o) >= Count(SubSeq(d, 1, i), b))
                  <=> \A i \in 1..(c - 1) : Upto(t, i, o) >= Upto(t, i, b)
  BY <1>2, <1>3, <1>4
<1> QED BY <1>5, Zenon DEF Balanced, ClosesAt, d

\* The brace that closes a default is the first one that belongs to no reference
\* in it.
LEMMA ClosingExact ==
  ASSUME NEW t \in Text
  PROVE  /\ Closing(t) \in 0..Len(t)
         /\ \A c \in 1..Len(t) : t[c] = "}" /\ Balanced(SubSeq(t, 1, c - 1)) <=> c = Closing(t)
<1>1. Len(t) \in Nat /\ Closing(t) \in 0..Len(t)
  BY ClosingIs DEF Text
<1>2. \A a, c : Deeper(a, c) = DeeperWith(a, c, "${", "}")
  BY Zenon DEF Deeper, DeeperWith
<1> DEFINE o == "${"
           b == "}"
<1>3. o # b
  OBVIOUS
<1>4. \A a, c : Deeper(a, c) = DeeperWith(a, c, o, b)
  BY <1>2, Zenon
<1> HIDE DEF o, b
<1>5. /\ Closing(t) = 0 => \A c \in 1..Len(t) : ~ClosesAt(t, c, o, b)
      /\ Closing(t) # 0 => Closing(t) \in 1..Len(t) /\ ClosesAt(t, Closing(t), o, b)
  BY <1>3, <1>4, CountsRight
<1>6. ASSUME NEW c \in 1..Len(t) PROVE ClosesAt(t, c, o, b) <=> c = Closing(t)
  <2>1. c \in Nat \ {0}
    OBVIOUS
  <2>2. CASE Closing(t) = 0
    BY <1>5, <2>1, <2>2
  <2>3. CASE Closing(t) # 0
    <3>1. Closing(t) \in Nat \ {0} /\ ClosesAt(t, Closing(t), o, b)
      BY <1>5, <2>3
    <3>2. ClosesAt(t, c, o, b) => c = Closing(t)
      BY <1>3, <2>1, <3>1, ClosesOnce
    <3> QED BY <3>1, <3>2
  <2> QED BY <2>2, <2>3
<1>7. ASSUME NEW c \in 1..Len(t)
      PROVE  t[c] = "}" /\ Balanced(SubSeq(t, 1, c - 1)) <=> c = Closing(t)
  BY <1>6, BalancedIs, Zenon DEF o, b
<1> QED BY <1>1, <1>7, Zenon

-----------------------------------------------------------------------------
(* References.                                                             *)

\* Readings and References, for any tokens in the place of "${", "}" and ":-".
ReadingsOf(t, o, b, s) ==
  {[name |-> n, default |-> {}, rest |-> SubSeq(t, 4, Len(t))] :
     n \in {m \in Names : Len(t) >= 3 /\ SubSeq(t, 1, 3) = <<o, m, b>>}}
  \cup {[name |-> p[1], default |-> {SubSeq(t, 4, p[2] - 1)},
         rest |-> SubSeq(t, p[2] + 1, Len(t))] :
          p \in {q \in Names \X (4..Len(t)) :
                   /\ SubSeq(t, 1, 3) = <<o, q[1], s>>
                   /\ t[q[2]] = b
                   /\ Balanced(SubSeq(t, 4, q[2] - 1))}}

ReferencesOf(t, i, b, s) ==
  IF i + 2 > Len(t) \/ t[i + 1] \notin Names THEN {}
  ELSE IF t[i + 2] = b
  THEN {[name |-> t[i + 1], default |-> {}, next |-> i + 3]}
  ELSE LET inside == SubSeq(t, i + 3, Len(t))
           close == Closing(inside)
       IN IF t[i + 2] # s \/ close = 0
          THEN {}
          ELSE {[name |-> t[i + 1], default |-> {SubSeq(inside, 1, close - 1)},
                 next |-> i + 3 + close]}

\* A reference as a reading of the text it begins.
AsReading(t, r) == [name |-> r.name, default |-> r.default, rest |-> From(t, r.next)]

\* d is the only element.
Single(ds, d) == ds = {d}

\* What follows a reference and what it holds is shorter than what it begins.
Inside(t, i, r) ==
  /\ r.name \in Names
  /\ r.next \in (i + 1)..(Len(t) + 1)
  /\ r.default = {} \/ \E d \in Text : Single(r.default, d) /\ Len(d) < Len(t) + 1 - i

\* The first three tokens.
Starts(u, x, y, z) == SubSeq(u, 1, 3) = <<x, y, z>>

\* What they are.
LEMMA ThreeAre ==
  ASSUME NEW u \in Text, Len(u) >= 3, NEW x, NEW y, NEW z
  PROVE  Starts(u, x, y, z) <=> u[1] = x /\ u[2] = y /\ u[3] = z
<1> DEFINE v == SubSeq(u, 1, 3)
<1>1. u \in Seq(Token) /\ Len(u) \in Nat
  BY DEF Text
<1>2. v \in Seq(Token) /\ Len(v) = 3 /\ v[1] = u[1] /\ v[2] = u[2] /\ v[3] = u[3]
  BY <1>1
<1> HIDE DEF v
<1>3. v = <<v[1], v[2], v[3]>>
  BY <1>2
<1>4. v = <<u[1], u[2], u[3]>>
  BY <1>2, <1>3
<1>5. v = <<x, y, z>> <=> u[1] = x /\ u[2] = y /\ u[3] = z
  BY <1>4
<1> QED BY <1>5 DEF v, Starts

\* The first brace that nothing before it needs is the one the code finds.
ClosedBy(b) ==
  \A x \in Text : \A c \in 1..Len(x) :
    x[c] = b /\ Balanced(SubSeq(x, 1, c - 1)) <=> c = Closing(x)

\* The code reads what can be read.
ReadAlike(t, i, o, b, s) ==
  \/ /\ ReferencesOf(t, i, b, s) = {} /\ ReadingsOf(From(t, i), o, b, s) = {}
  \/ \E r : /\ ReferencesOf(t, i, b, s) = {r} /\ Inside(t, i, r)
            /\ ReadingsOf(From(t, i), o, b, s) = {AsReading(t, r)}

\* What a text can be read as is what the code reads, at every place of a text.
LEMMA ReadingsMatch ==
  ASSUME NEW t \in Text, NEW i \in 1..Len(t), NEW o, NEW b, NEW s, b # s, t[i] = o,
         ClosedBy(b)
  PROVE  ReadAlike(t, i, o, b, s)
<1> DEFINE u == From(t, i)
           one == {m \in Names : Len(u) >= 3 /\ SubSeq(u, 1, 3) = <<o, m, b>>}
           two == {q \in Names \X (4..Len(u)) :
                     /\ SubSeq(u, 1, 3) = <<o, q[1], s>>
                     /\ u[q[2]] = b
                     /\ Balanced(SubSeq(u, 4, q[2] - 1))}
           inside == SubSeq(t, i + 3, Len(t))
           close == Closing(inside)
<1>1. /\ t \in Seq(Token) /\ Len(t) \in Nat
      /\ u \in Text /\ Len(u) = Len(t) + 1 - i /\ Len(u) \in Nat
      /\ \A k \in 1..(Len(t) + 1 - i) : u[k] = t[i + k - 1]
  <2>1. Len(t) \in Nat /\ t \in Seq(Token)
    BY DEF Text
  <2>2. i \in 1..(Len(t) + 1)
    BY <2>1
  <2> QED BY <2>1, <2>2, FromIs
<1>2. ReadingsOf(u, o, b, s) =
        {[name |-> n, default |-> {}, rest |-> SubSeq(u, 4, Len(u))] : n \in one}
        \cup {[name |-> p[1], default |-> {SubSeq(u, 4, p[2] - 1)},
               rest |-> SubSeq(u, p[2] + 1, Len(u))] : p \in two}
  BY Zenon DEF ReadingsOf
<1>3. ASSUME Len(u) >= 3, NEW y, NEW z
      PROVE  SubSeq(u, 1, 3) = <<o, y, z>> <=> t[i + 1] = y /\ t[i + 2] = z
  <2> HIDE DEF u, one, two, inside, close
  <2>4. u \in Text /\ Len(u) >= 3
    BY <1>1, <1>3
  <2>1. Starts(u, o, y, z) <=> u[1] = o /\ u[2] = y /\ u[3] = z
    BY <2>4, ThreeAre
  <2>2. /\ 1 \in 1..(Len(t) + 1 - i) /\ 2 \in 1..(Len(t) + 1 - i) /\ 3 \in 1..(Len(t) + 1 - i)
        /\ i + 1 - 1 = i /\ i + 2 - 1 = i + 1 /\ i + 3 - 1 = i + 2
    BY <1>1, <1>3
  <2>3. u[1] = t[i] /\ u[2] = t[i + 1] /\ u[3] = t[i + 2]
    BY <1>1, <2>2
  <2> QED BY <2>1, <2>3 DEF Starts
<1> HIDE DEF u
<1>4. two # {} => Len(u) >= 4
  BY <1>1
<1>5. CASE i + 2 > Len(t) \/ t[i + 1] \notin Names
  <2>1. ReferencesOf(t, i, b, s) = {}
    BY <1>5 DEF ReferencesOf
  <2>2. one = {}
    <3> SUFFICES ASSUME NEW m \in one PROVE FALSE
      OBVIOUS
    <3>1. Len(u) >= 3 /\ m \in Names /\ t[i + 1] = m
      BY <1>3
    <3> QED BY <1>1, <1>5, <3>1
  <2>3. two = {}
    <3> SUFFICES ASSUME NEW q \in two PROVE FALSE
      OBVIOUS
    <3>1. Len(u) >= 3 /\ q[1] \in Names /\ SubSeq(u, 1, 3) = <<o, q[1], s>>
      BY <1>1, <1>4
    <3>2. t[i + 1] = q[1]
      BY <1>3, <3>1
    <3> QED BY <1>1, <1>5, <3>1, <3>2
  <2> HIDE DEF one, two
  <2>4. ReadingsOf(u, o, b, s) = {}
    BY <1>2, <2>2, <2>3
  <2> QED BY <2>1, <2>4 DEF u, ReadAlike
<1>6. CASE i + 2 <= Len(t) /\ t[i + 1] \in Names /\ t[i + 2] = b
  <2> DEFINE r == [name |-> t[i + 1], default |-> {}, next |-> i + 3]
  <2>1. ReferencesOf(t, i, b, s) = {r}
    BY <1>1, <1>6 DEF ReferencesOf
  <2>2. Len(u) >= 3
    BY <1>1, <1>6
  <2>3. one = {t[i + 1]}
    <3>1. \A m \in Names : m \in one <=> m = t[i + 1]
      BY <1>3, <1>6, <2>2
    <3>2. one \subseteq Names
      OBVIOUS
    <3> HIDE DEF one
    <3> QED BY <1>6, <3>1, <3>2
  <2>4. two = {}
    <3> SUFFICES ASSUME NEW q \in two PROVE FALSE
      OBVIOUS
    <3>1. SubSeq(u, 1, 3) = <<o, q[1], s>>
      OBVIOUS
    <3>2. t[i + 2] = s
      BY <1>3, <2>2, <3>1
    <3> QED BY <1>6, <3>2
  <2>5. SubSeq(u, 4, Len(u)) = From(t, i + 3)
    <3>1. i \in 1..(Len(t) + 1) /\ 4 \in 1..(Len(t) + 2 - i) /\ i + 4 - 1 = i + 3
      BY <1>1, <1>6
    <3>2. From(u, 4) = From(t, i + 4 - 1)
      BY <3>1, FromFrom DEF u
    <3> QED BY <3>1, <3>2 DEF From
  <2> HIDE DEF one, two
  <2>6. ReadingsOf(u, o, b, s) =
          {[name |-> t[i + 1], default |-> {}, rest |-> SubSeq(u, 4, Len(u))]}
    BY <1>2, <2>3, <2>4
  <2>7. AsReading(t, r) = [name |-> t[i + 1], default |-> {}, rest |-> From(t, i + 3)]
    BY DEF AsReading
  <2>8. Inside(t, i, r)
    BY <1>1, <1>6 DEF Inside
  <2> QED BY <2>1, <2>5, <2>6, <2>7, <2>8 DEF u, ReadAlike
<1>7. CASE i + 2 <= Len(t) /\ t[i + 1] \in Names /\ t[i + 2] # b
  <2>1. Len(u) >= 3
    BY <1>1, <1>7
  <2>2. one = {}
    <3> SUFFICES ASSUME NEW m \in one PROVE FALSE
      OBVIOUS
    <3>1. SubSeq(u, 1, 3) = <<o, m, b>>
      OBVIOUS
    <3>2. t[i + 2] = b
      BY <1>3, <2>1, <3>1
    <3> QED BY <1>7, <3>2
  <2>3. /\ inside \in Text /\ Len(inside) = Len(t) - i - 2
        /\ \A k \in 1..Len(inside) : inside[k] = t[i + 3 + k - 1]
    <3> DEFINE j == i + 3
    <3>1. j \in 1..(Len(t) + 1)
      BY <1>1, <1>7
    <3> HIDE DEF j
    <3>2. /\ From(t, j) \in Text /\ Len(From(t, j)) = Len(t) + 1 - j
          /\ \A k \in 1..(Len(t) + 1 - j) : From(t, j)[k] = t[j + k - 1]
      BY <3>1, FromIs
    <3>3. Len(t) + 1 - j = Len(t) - i - 2
      BY <1>1 DEF j
    <3> QED BY <3>2, <3>3 DEF From, j
  <2>4. close \in 0..Len(inside)
    BY <2>3, ClosingIs
  <2> HIDE DEF inside, close
  <2>5. ASSUME NEW p \in 4..Len(u)
        PROVE  /\ p - 3 \in 1..Len(inside) /\ u[p] = inside[p - 3]
               /\ SubSeq(u, 4, p - 1) = SubSeq(inside, 1, p - 3 - 1)
    <3> DEFINE c == p - 3
    <3>1. c \in 1..Len(inside) /\ p \in 1..(Len(t) + 1 - i) /\ i + 3 + c - 1 = i + p - 1
      BY <1>1, <2>3
    <3>2. u[p] = inside[c]
      BY <1>1, <2>3, <3>1
    <3>3. SubSeq(u, 4, p - 1) = SubSeq(inside, 1, c - 1)
      <4> DEFINE x == SubSeq(u, 4, p - 1)
                 y == SubSeq(inside, 1, c - 1)
      <4>1. u \in Seq(Token) /\ inside \in Seq(Token)
        BY <1>1, <2>3 DEF Text
      <4>2. 4 \in 1..(Len(u) + 1) /\ p - 1 \in (4 - 1)..Len(u) /\ p - 1 + 1 - 4 = c - 1
        BY <1>1
      <4>3. 1 \in 1..(Len(inside) + 1) /\ c - 1 \in (1 - 1)..Len(inside) /\ c - 1 + 1 - 1 = c - 1
        BY <1>1, <2>3, <3>1
      <4> HIDE DEF c
      <4>4. x \in Seq(Token) /\ Len(x) = c - 1 /\ y \in Seq(Token) /\ Len(y) = c - 1
        BY <4>1, <4>2, <4>3, Part
      <4>5. ASSUME NEW k \in 1..(c - 1) PROVE x[k] = y[k]
        <5>1. /\ k + 3 \in 1..(Len(t) + 1 - i) /\ k \in 1..Len(inside)
              /\ i + (k + 3) - 1 = i + 3 + k - 1
          BY <1>1, <2>3, <3>1 DEF c
        <5>2. u[k + 3] = inside[k]
          BY <1>1, <2>3, <5>1
        <5>3. x[k] = u[k + 3]
          BY <1>1, <4>1, <4>2, <4>5
        <5>4. y[k] = inside[k]
          BY <1>1, <2>3, <4>1, <4>3, <4>5
        <5> QED BY <5>2, <5>3, <5>4
      <4> HIDE DEF x, y
      <4>6. x = y
        BY <4>4, <4>5, SameText DEF Text
      <4> QED BY <4>6 DEF x, y
    <3> QED BY <3>1, <3>2, <3>3
  <2>6. ASSUME NEW q \in Names \X (4..Len(u))
        PROVE  q \in two <=> t[i + 1] = q[1] /\ t[i + 2] = s /\ q[2] = close + 3
    <3> DEFINE p == q[2]
               c == p - 3
    <3>1. p \in 4..Len(u)
      OBVIOUS
    <3>2. /\ c \in 1..Len(inside) /\ u[p] = inside[c]
          /\ SubSeq(u, 4, p - 1) = SubSeq(inside, 1, c - 1)
      BY <2>5, <3>1
    <3>3. SubSeq(u, 1, 3) = <<o, q[1], s>> <=> t[i + 1] = q[1] /\ t[i + 2] = s
      BY <1>3, <2>1
    <3> HIDE DEF c
    <3>4. inside[c] = b /\ Balanced(SubSeq(inside, 1, c - 1)) <=> c = close
      BY <2>3, <3>2 DEF close, ClosedBy
    <3>5. u[p] = b /\ Balanced(SubSeq(u, 4, p - 1)) <=> c = close
      BY <3>2, <3>4
    <3>6. c = close <=> p = close + 3
      BY <2>4, <3>1 DEF c
    <3> HIDE DEF p
    <3>7. q \in two <=>
            (t[i + 1] = q[1] /\ t[i + 2] = s /\ u[p] = b /\ Balanced(SubSeq(u, 4, p - 1)))
      BY <3>3 DEF p
    <3> QED BY <3>5, <3>6, <3>7 DEF p
  <2>7. CASE t[i + 2] # s \/ close = 0
    <3>1. ReferencesOf(t, i, b, s) = {}
      BY <1>1, <1>7, <2>7 DEF ReferencesOf, close, inside
    <3>2. two = {}
      <4> SUFFICES ASSUME NEW q \in two PROVE FALSE
        OBVIOUS
      <4>1. q \in Names \X (4..Len(u))
        OBVIOUS
      <4> HIDE DEF two
      <4>2. t[i + 2] = s /\ q[2] = close + 3 /\ q[2] \in 4..Len(u)
        BY <2>6, <4>1
      <4> QED BY <2>7, <4>2
    <3> HIDE DEF one, two
    <3>3. ReadingsOf(u, o, b, s) = {}
      BY <1>2, <2>2, <3>2
    <3> QED BY <3>1, <3>3 DEF u, ReadAlike
  <2>8. CASE t[i + 2] = s /\ close # 0
    <3> DEFINE r == [name |-> t[i + 1], default |-> {SubSeq(inside, 1, close - 1)},
                     next |-> i + 3 + close]
               p == close + 3
    <3>1. ReferencesOf(t, i, b, s) = {r}
      <4>1. ~(i + 2 > Len(t) \/ t[i + 1] \notin Names) /\ t[i + 2] # b
        BY <1>1, <1>7
      <4> QED BY <2>8, <4>1, Zenon DEF ReferencesOf, close, inside
    <3>2. p \in 4..Len(u) /\ p - 3 = close
      BY <1>1, <2>3, <2>4, <2>8
    <3>3. two = {<<t[i + 1], p>>}
      <4>1. two \subseteq Names \X (4..Len(u))
        OBVIOUS
      <4> HIDE DEF two
      <4>2. <<t[i + 1], p>> \in two
        BY <1>7, <2>6, <2>8, <3>2
      <4>3. \A q \in two : q = <<t[i + 1], p>>
        <5> SUFFICES ASSUME NEW q \in two PROVE q = <<t[i + 1], p>>
          OBVIOUS
        <5>1. q \in Names \X (4..Len(u))
          BY <4>1
        <5>2. q[1] = t[i + 1] /\ q[2] = p
          BY <2>6, <5>1
        <5> HIDE DEF p
        <5> QED BY <5>1, <5>2
      <4> QED BY <4>2, <4>3
    <3>4. SubSeq(u, 4, p - 1) = SubSeq(inside, 1, close - 1)
      BY <2>5, <3>2
    <3>5. SubSeq(u, p + 1, Len(u)) = From(t, i + 3 + close)
      <4>1. /\ i \in 1..(Len(t) + 1) /\ p + 1 \in 1..(Len(t) + 2 - i)
            /\ i + (p + 1) - 1 = i + 3 + close
        BY <1>1, <2>4, <3>2
      <4>2. From(u, p + 1) = From(t, i + (p + 1) - 1)
        <5> HIDE DEF p
        <5> QED BY <4>1, FromFrom DEF u
      <4> QED BY <4>1, <4>2 DEF From
    <3> HIDE DEF one, two
    <3>6. ReadingsOf(u, o, b, s) =
            {[name |-> t[i + 1], default |-> {SubSeq(u, 4, p - 1)},
              rest |-> SubSeq(u, p + 1, Len(u))]}
      <4> HIDE DEF p
      <4> QED BY <1>2, <2>2, <3>3
    <3>7. AsReading(t, r) = [name |-> t[i + 1], default |-> {SubSeq(inside, 1, close - 1)},
                             rest |-> From(t, i + 3 + close)]
      BY DEF AsReading
    <3>8. Inside(t, i, r)
      <4> DEFINE d == SubSeq(inside, 1, close - 1)
      <4>1. d \in Text /\ Len(d) = close - 1
        <5>1. inside \in Seq(Token) /\ Len(inside) \in Nat
          BY <2>3 DEF Text
        <5>2. 1 \in 1..(Len(inside) + 1) /\ close - 1 \in (1 - 1)..Len(inside)
          BY <2>4, <2>8, <5>1
        <5>3. d \in Seq(Token) /\ Len(d) = close - 1 + 1 - 1
          BY <5>1, <5>2, Part
        <5> QED BY <2>4, <5>3 DEF Text
      <4>2. Len(d) < Len(t) + 1 - i /\ i + 3 + close \in (i + 1)..(Len(t) + 1)
        BY <1>1, <2>3, <2>4, <2>8, <4>1
      <4> HIDE DEF d
      <4>3. r.default = {d} /\ r.name = t[i + 1] /\ r.next = i + 3 + close
        BY DEF d
      <4> HIDE DEF r
      <4> QED BY <1>7, <4>1, <4>2, <4>3 DEF Inside, Single
    <3>9. ReadingsOf(u, o, b, s) = {AsReading(t, r)}
      BY <3>4, <3>5, <3>6, <3>7
    <3> HIDE DEF r
    <3> QED BY <3>1, <3>8, <3>9 DEF u, ReadAlike
  <2> QED BY <2>7, <2>8
<1>8. i + 2 > Len(t) \/ i + 2 <= Len(t)
  BY <1>1
<1> QED BY <1>5, <1>6, <1>7, <1>8

\* The same, for the tokens they are.
LEMMA ReadingsExact ==
  ASSUME NEW t \in Text, NEW i \in 1..Len(t), t[i] = "${"
  PROVE  \/ References(t, i) = {} /\ Readings(From(t, i)) = {}
         \/ \E r : /\ References(t, i) = {r} /\ Inside(t, i, r)
                   /\ Readings(From(t, i)) = {AsReading(t, r)}
<1> DEFINE o == "${"
           b == "}"
           s == ":-"
<1>1. b # s
  OBVIOUS
<1>2. ClosedBy(b)
  BY ClosingExact, Zenon DEF ClosedBy
<1>3. \A x, k : References(x, k) = ReferencesOf(x, k, b, s)
  BY Zenon DEF References, ReferencesOf
<1>4. \A x : Readings(x) = ReadingsOf(x, o, b, s)
  BY Zenon DEF Readings, ReadingsOf
<1>5. t[i] = o
  BY Zenon
<1> HIDE DEF o, b, s
<1>6. ReadAlike(t, i, o, b, s)
  BY <1>1, <1>2, <1>5, ReadingsMatch, Zenon
<1> QED BY <1>3, <1>4, <1>6, Zenon DEF ReadAlike

-----------------------------------------------------------------------------
(* What a text means: the equations of the recursion.                      *)

\* Answer, in the map m, to a reference to n with the defaults ds.
AnswerOn(m, n, ds, known, f) ==
  IF n \notin DOMAIN m /\ ds = {} THEN [is |-> "undefined"]
  ELSE IF n \in DOMAIN m /\ n \notin DOMAIN known
  THEN [is |-> "needs", name |-> n]
  ELSE IF n \in DOMAIN known /\ (known[n] # <<>> \/ ds = {})
  THEN Has(known[n])
  ELSE f[CHOOSE d \in ds : TRUE]

AnswerIn(m, r, known, f) == AnswerOn(m, r.name, r.default, known, f)

\* What u means, if f is what shorter texts mean.
StepIn(m, known, f, u) ==
  IF u = <<>> THEN Has(<<>>)
  ELSE IF u[1] # "${" THEN Then(Has(<<u[1]>>), f[Tail(u)])
  ELSE IF Readings(u) = {} THEN [is |-> "malformed"]
  ELSE LET r == CHOOSE x \in Readings(u) : TRUE
       IN Then(AnswerIn(m, r, known, f), f[r.rest])

\* What every text means.
MeaningsIn(m, known) == CHOOSE f : f = [u \in Text |-> StepIn(m, known, f, u)]

\* Meaning, in the map m.
Meant(m, known, t) == MeaningsIn(m, known)[t]

\* That it is.
LEMMA MeaningIs ==
  ASSUME NEW t, NEW known
  PROVE  Meaning(t, known) = Meant(map, known, t)
BY Zenon DEF Meaning, Meant, MeaningsIn, StepIn, AnswerIn, AnswerOn, Answer

\* Induction over texts by their length, with a set in the place of a predicate.
LEMMA ByLength ==
  ASSUME NEW S,
         \A t \in Text : (\A u \in Text : Len(u) < Len(t) => u \in S) => t \in S
  PROVE  Text \subseteq S
<1> DEFINE T == {n \in Nat : \A t \in Text : Len(t) < n => t \in S}
<1>1. \A t \in Text : Len(t) \in Nat
  BY DEF Text
<1>2. 0 \in T
  BY <1>1
<1>3. ASSUME NEW n \in Nat, n \in T PROVE n + 1 \in T
  <2> SUFFICES ASSUME NEW t \in Text, Len(t) < n + 1 PROVE t \in S
    OBVIOUS
  <2>1. \A u \in Text : Len(u) < Len(t) => u \in S
    BY <1>1, <1>3
  <2> QED BY <2>1
<1> HIDE DEF T
<1>4. Nat \subseteq T
  BY <1>2, <1>3, Induct
<1>5. ASSUME NEW t \in Text PROVE t \in S
  <2>1. Len(t) + 1 \in T /\ Len(t) < Len(t) + 1
    BY <1>1, <1>4
  <2> QED BY <2>1 DEF T
<1> QED BY <1>5

\* The first token of a text, and what follows it.
LEMMA FirstIs ==
  ASSUME NEW t \in Text, t # <<>>
  PROVE  /\ 1 \in 1..Len(t) /\ From(t, 1) = t
         /\ Tail(t) = From(t, 2) /\ Tail(t) \in Text /\ Len(Tail(t)) < Len(t)
<1>1. t \in Seq(Token) /\ Len(t) \in Nat /\ Len(t) # 0
  BY DEF Text
<1>2. 1 \in 1..Len(t) /\ 1 + 1 = 2
  BY <1>1
<1>3. From(t, 1) = t /\ Tail(From(t, 1)) = From(t, 1 + 1)
  BY <1>2, FromEnds
<1>4. Tail(t) \in Seq(Token) /\ Len(Tail(t)) = Len(t) - 1
  BY <1>1
<1> QED BY <1>1, <1>2, <1>3, <1>4 DEF Text

\* The answer to a reference depends on its default and nothing else.
LEMMA AnswerLocal ==
  ASSUME NEW m, NEW known, NEW f, NEW g, NEW r, NEW n,
         r.default = {} \/ \E d \in Text : Single(r.default, d) /\ Len(d) < n,
         \A u \in Text : Len(u) < n => f[u] = g[u]
  PROVE  AnswerIn(m, r, known, f) = AnswerIn(m, r, known, g)
<1>1. CASE r.default = {}
  BY <1>1 DEF AnswerIn, AnswerOn
<1>2. ASSUME NEW d \in Text, Single(r.default, d), Len(d) < n
      PROVE  AnswerIn(m, r, known, f) = AnswerIn(m, r, known, g)
  <2>1. (CHOOSE x \in r.default : TRUE) = d
    BY <1>2 DEF Single
  <2>2. f[CHOOSE x \in r.default : TRUE] = g[CHOOSE x \in r.default : TRUE]
    BY <1>2, <2>1
  <2> QED BY <2>2 DEF AnswerIn, AnswerOn
<1> QED BY <1>1, <1>2

\* A text whose first token opens a reference, as that reference.
LEMMA OpeningIs ==
  ASSUME NEW u \in Text, u # <<>>, u[1] = "${", Readings(u) # {}
  PROVE  \E r : /\ References(u, 1) = {r} /\ Inside(u, 1, r)
                /\ (CHOOSE x \in Readings(u) : TRUE) = AsReading(u, r)
<1>1. 1 \in 1..Len(u) /\ From(u, 1) = u
  BY FirstIs
<1>2. \/ References(u, 1) = {} /\ Readings(From(u, 1)) = {}
      \/ \E r : /\ References(u, 1) = {r} /\ Inside(u, 1, r)
                /\ Readings(From(u, 1)) = {AsReading(u, r)}
  BY <1>1, ReadingsExact, Zenon
<1>3. PICK r : /\ References(u, 1) = {r} /\ Inside(u, 1, r)
               /\ Readings(u) = {AsReading(u, r)}
  BY <1>1, <1>2, Zenon
<1> DEFINE a == AsReading(u, r)
<1> HIDE DEF a
<1>4. (CHOOSE x \in {a} : TRUE) = a
  OBVIOUS
<1> QED BY <1>3, <1>4, Zenon DEF a

\* What follows a reference is shorter than what it begins.
LEMMA RestIs ==
  ASSUME NEW u \in Text, NEW i \in 1..Len(u), NEW r, Inside(u, i, r)
  PROVE  /\ AsReading(u, r).rest = From(u, r.next)
         /\ AsReading(u, r).name = r.name /\ AsReading(u, r).default = r.default
         /\ From(u, r.next) \in Text
         /\ Len(From(u, r.next)) < Len(u) + 1 - i
         /\ r.name \in Names
<1>1. Len(u) \in Nat
  BY DEF Text
<1>2. r.next \in 1..(Len(u) + 1) /\ Len(u) + 1 - r.next < Len(u) + 1 - i /\ r.name \in Names
  BY <1>1 DEF Inside
<1>3. From(u, r.next) \in Text /\ Len(From(u, r.next)) = Len(u) + 1 - r.next
  BY <1>2, FromIs
<1> QED BY <1>2, <1>3 DEF AsReading

\* What a text means depends on what shorter texts mean, and nothing else.
LEMMA StepLocal ==
  ASSUME NEW m, NEW known, NEW f, NEW g, NEW u \in Text,
         \A v \in Text : Len(v) < Len(u) => f[v] = g[v]
  PROVE  StepIn(m, known, f, u) = StepIn(m, known, g, u)
<1>1. CASE u = <<>>
  BY <1>1, Zenon DEF StepIn
<1>2. CASE u # <<>> /\ u[1] # "${"
  <2>1. Tail(u) \in Text /\ Len(Tail(u)) < Len(u)
    BY <1>2, FirstIs, Zenon
  <2>2. f[Tail(u)] = g[Tail(u)]
    BY <2>1, Zenon
  <2> QED BY <1>2, <2>2, Zenon DEF StepIn
<1>3. CASE u # <<>> /\ u[1] = "${" /\ Readings(u) = {}
  BY <1>3, Zenon DEF StepIn
<1>4. CASE u # <<>> /\ u[1] = "${" /\ Readings(u) # {}
  <2> DEFINE a == CHOOSE x \in Readings(u) : TRUE
  <2>1. PICK r : Inside(u, 1, r) /\ a = AsReading(u, r)
    BY <1>4, OpeningIs, Zenon
  <2>2. 1 \in 1..Len(u)
    BY <1>4, FirstIs, Zenon
  <2> HIDE DEF a
  <2>3. /\ a.rest \in Text /\ Len(a.rest) < Len(u) + 1 - 1 /\ a.default = r.default
    BY <2>1, <2>2, RestIs, Zenon
  <2>4. Len(u) \in Nat /\ Len(u) + 1 - 1 = Len(u)
    BY DEF Text
  <2>5. f[a.rest] = g[a.rest]
    BY <2>3, <2>4, Zenon
  <2>6. a.default = {} \/ \E d \in Text : Single(a.default, d) /\ Len(d) < Len(u)
    BY <2>1, <2>3, <2>4, Zenon DEF Inside
  <2>7. AnswerIn(m, a, known, f) = AnswerIn(m, a, known, g)
    <3> DEFINE n == Len(u)
    <3>1. \A v \in Text : Len(v) < n => f[v] = g[v]
      OBVIOUS
    <3>2. a.default = {} \/ \E d \in Text : Single(a.default, d) /\ Len(d) < n
      BY <2>6
    <3> HIDE DEF n
    <3> QED BY <3>1, <3>2, AnswerLocal
  <2> QED BY <1>4, <2>5, <2>7, Zenon DEF StepIn, a
<1> QED BY <1>1, <1>2, <1>3, <1>4, Zenon

\* What f says of texts shorter than n is what they mean.
Good(m, known, f, n) == \A u \in Text : Len(u) < n => f[u] = StepIn(m, known, f, u)

\* There is such an f for every length.
LEMMA GoodExists ==
  ASSUME NEW m, NEW known, NEW n \in Nat
  PROVE  \E f : Good(m, known, f, n)
<1> DEFINE T == {k \in Nat : \E f : Good(m, known, f, k)}
<1>1. \A t \in Text : Len(t) \in Nat
  BY DEF Text
<1>2. 0 \in T
  <2>1. Good(m, known, <<>>, 0)
    BY <1>1 DEF Good
  <2> QED BY <2>1
<1>3. ASSUME NEW k \in Nat, k \in T PROVE k + 1 \in T
  <2>1. PICK f : Good(m, known, f, k)
    BY <1>3
  <2> DEFINE g == [u \in Text |-> IF Len(u) < k THEN f[u] ELSE StepIn(m, known, f, u)]
  <2>2. ASSUME NEW u \in Text, Len(u) < k + 1 PROVE g[u] = StepIn(m, known, g, u)
    <3>1. \A v \in Text : Len(v) < Len(u) => g[v] = f[v]
      <4> SUFFICES ASSUME NEW v \in Text, Len(v) < Len(u) PROVE g[v] = f[v]
        OBVIOUS
      <4>1. Len(v) < k
        BY <1>1, <2>2
      <4> QED BY <4>1
    <3>2. g[u] = StepIn(m, known, f, u)
      <4>1. CASE Len(u) < k
        BY <2>1, <4>1 DEF Good
      <4>2. CASE ~(Len(u) < k)
        BY <4>2
      <4> QED BY <4>1, <4>2
    <3> HIDE DEF g
    <3>3. StepIn(m, known, g, u) = StepIn(m, known, f, u)
      BY <3>1, StepLocal
    <3> QED BY <3>2, <3>3
  <2> HIDE DEF g
  <2>3. Good(m, known, g, k + 1)
    BY <2>2 DEF Good
  <2> QED BY <2>3
<1> HIDE DEF T
<1>4. n \in T
  BY <1>2, <1>3, Induct
<1> QED BY <1>4 DEF T

\* Two of them agree where both say something.
LEMMA GoodAgree ==
  ASSUME NEW m, NEW known, NEW f, NEW g, NEW k \in Nat, NEW n \in Nat, k <= n,
         Good(m, known, f, k), Good(m, known, g, n)
  PROVE  \A u \in Text : Len(u) < k => f[u] = g[u]
<1> DEFINE S == {u \in Text : Len(u) < k => f[u] = g[u]}
<1>1. \A t \in Text : Len(t) \in Nat
  BY DEF Text
<1>2. ASSUME NEW t \in Text, \A u \in Text : Len(u) < Len(t) => u \in S
      PROVE  t \in S
  <2> SUFFICES ASSUME Len(t) < k PROVE f[t] = g[t]
    OBVIOUS
  <2>1. \A u \in Text : Len(u) < Len(t) => f[u] = g[u]
    <3> SUFFICES ASSUME NEW u \in Text, Len(u) < Len(t) PROVE f[u] = g[u]
      OBVIOUS
    <3>1. Len(u) < k /\ u \in S
      BY <1>1, <1>2
    <3> QED BY <3>1
  <2>2. StepIn(m, known, f, t) = StepIn(m, known, g, t)
    BY <2>1, StepLocal
  <2>3. Len(t) < n
    BY <1>1
  <2>4. f[t] = StepIn(m, known, f, t) /\ g[t] = StepIn(m, known, g, t)
    BY <2>3 DEF Good
  <2> QED BY <2>2, <2>4
<1> HIDE DEF S
<1>3. Text \subseteq S
  BY <1>2, ByLength
<1> QED BY <1>3 DEF S

\* The recursion defines a function.
LEMMA MeaningsExist ==
  ASSUME NEW m, NEW known
  PROVE  LET f == MeaningsIn(m, known) IN f = [u \in Text |-> StepIn(m, known, f, u)]
<1> DEFINE h == [n \in Nat |-> CHOOSE f : Good(m, known, f, n)]
           F == [u \in Text |-> h[Len(u) + 1][u]]
<1>1. \A t \in Text : Len(t) \in Nat
  BY DEF Text
<1>2. \A n \in Nat : Good(m, known, h[n], n)
  <2> SUFFICES ASSUME NEW n \in Nat PROVE Good(m, known, h[n], n)
    OBVIOUS
  <2>1. \E f : Good(m, known, f, n)
    BY GoodExists
  <2>2. h[n] = CHOOSE f : Good(m, known, f, n)
    OBVIOUS
  <2> QED BY <2>1, <2>2, Zenon
<1> HIDE DEF h
<1>3. ASSUME NEW u \in Text PROVE F[u] = StepIn(m, known, F, u)
  <2> DEFINE n == Len(u) + 1
             g == h[n]
  <2>1. n \in Nat /\ Len(u) < n
    BY <1>1
  <2>2. Good(m, known, g, n)
    BY <1>2, <2>1
  <2>3. g[u] = StepIn(m, known, g, u)
    BY <2>1, <2>2 DEF Good
  <2>4. \A v \in Text : Len(v) < Len(u) => F[v] = g[v]
    <3> SUFFICES ASSUME NEW v \in Text, Len(v) < Len(u) PROVE F[v] = g[v]
      OBVIOUS
    <3> DEFINE k == Len(v) + 1
    <3>1. k \in Nat /\ k <= n /\ Len(v) < k
      BY <1>1
    <3>2. F[v] = h[k][v]
      OBVIOUS
    <3> HIDE DEF k, n, F
    <3>3. Good(m, known, h[k], k)
      BY <1>2, <3>1
    <3>4. h[k][v] = g[v]
      <4> HIDE DEF g
      <4> QED BY <2>1, <2>2, <3>1, <3>3, GoodAgree
    <3> QED BY <3>2, <3>4
  <2>5. F[u] = g[u]
    OBVIOUS
  <2> HIDE DEF F, g, n
  <2>6. StepIn(m, known, F, u) = StepIn(m, known, g, u)
    BY <2>4, StepLocal
  <2> QED BY <2>3, <2>5, <2>6
<1>4. F = [u \in Text |-> StepIn(m, known, F, u)]
  <2>1. F = [u \in Text |-> F[u]]
    OBVIOUS
  <2> HIDE DEF F
  <2> QED BY <1>3, <2>1
<1> HIDE DEF F
<1>5. \E f : f = [u \in Text |-> StepIn(m, known, f, u)]
  BY <1>4, Zenon
<1> QED BY <1>5, Zenon DEF MeaningsIn

\* The answer to a reference, when it is known what its default means.
Answered(m, known, r) == AnswerIn(m, r, known, MeaningsIn(m, known))

\* What any text means.
LEMMA MeantStep ==
  ASSUME NEW m, NEW known, NEW u \in Text
  PROVE  Meant(m, known, u) = StepIn(m, known, MeaningsIn(m, known), u)
<1> DEFINE M == MeaningsIn(m, known)
<1>1. M = [v \in Text |-> StepIn(m, known, M, v)]
  BY MeaningsExist, Zenon
<1> HIDE DEF M
<1>2. M[u] = StepIn(m, known, M, u)
  BY <1>1
<1> QED BY <1>2, Zenon DEF Meant, M

\* The end of a text.
LEMMA EndMeans ==
  ASSUME NEW m, NEW known, NEW t \in Text
  PROVE  Meant(m, known, From(t, Len(t) + 1)) = Has(<<>>)
<1>1. From(t, Len(t) + 1) = <<>>
  BY FromEnds
<1>2. <<>> \in Text
  BY DEF Text
<1>3. Meant(m, known, <<>>) = StepIn(m, known, MeaningsIn(m, known), <<>>)
  BY <1>2, MeantStep
<1>4. StepIn(m, known, MeaningsIn(m, known), <<>>) = Has(<<>>)
  BY Zenon DEF StepIn
<1> QED BY <1>1, <1>3, <1>4

\* What is left of a text.
LEMMA LeftIs ==
  ASSUME NEW t \in Text, NEW i \in 1..Len(t)
  PROVE  /\ From(t, i) \in Text /\ From(t, i) # <<>> /\ From(t, i)[1] = t[i]
         /\ Tail(From(t, i)) = From(t, i + 1)
<1>1. i \in 1..(Len(t) + 1)
  BY DEF Text
<1> QED BY <1>1, FromEnds, FromIs

\* A token without a meaning.
LEMMA PlainMeans ==
  ASSUME NEW m, NEW known, NEW t \in Text, NEW i \in 1..Len(t), t[i] # "${"
  PROVE  Meant(m, known, From(t, i)) = Then(Has(<<t[i]>>), Meant(m, known, From(t, i + 1)))
<1> DEFINE u == From(t, i)
<1>1. u \in Text /\ u # <<>> /\ u[1] = t[i] /\ Tail(u) = From(t, i + 1)
  BY LeftIs
<1> HIDE DEF u
<1>2. Meant(m, known, u) = StepIn(m, known, MeaningsIn(m, known), u)
  BY <1>1, MeantStep
<1>3. Meant(m, known, u) = Then(Has(<<t[i]>>), Meant(m, known, From(t, i + 1)))
  BY <1>1, <1>2, Zenon DEF StepIn, Meant
<1> QED BY <1>3, Zenon DEF u

\* A "${" that opens no reference.
LEMMA MalformedMeans ==
  ASSUME NEW m, NEW known, NEW t \in Text, NEW i \in 1..Len(t), t[i] = "${",
         References(t, i) = {}
  PROVE  Meant(m, known, From(t, i)) = [is |-> "malformed"]
<1> DEFINE u == From(t, i)
<1>1. u \in Text /\ u # <<>> /\ u[1] = t[i]
  BY LeftIs
<1>2. \A r : {r} # {}
  OBVIOUS
<1>3. \/ References(t, i) = {} /\ Readings(u) = {}
      \/ \E r : References(t, i) = {r}
  BY ReadingsExact, Zenon
<1>4. Readings(u) = {}
  BY <1>2, <1>3, Zenon
<1> HIDE DEF u
<1>5. Meant(m, known, u) = StepIn(m, known, MeaningsIn(m, known), u)
  BY <1>1, MeantStep
<1>6. Meant(m, known, u) = [is |-> "malformed"]
  BY <1>1, <1>4, <1>5, Zenon DEF StepIn
<1> QED BY <1>6, Zenon DEF u

\* A reference.
LEMMA ReferenceMeans ==
  ASSUME NEW m, NEW known, NEW t \in Text, NEW i \in 1..Len(t), t[i] = "${",
         NEW r, Single(References(t, i), r)
  PROVE  Meant(m, known, From(t, i)) =
           Then(Answered(m, known, r), Meant(m, known, From(t, r.next)))
<1> DEFINE u == From(t, i)
           M == MeaningsIn(m, known)
           a == AsReading(t, r)
<1>1. u \in Text /\ u # <<>> /\ u[1] = t[i]
  BY LeftIs
<1>2. \A x, y : {x} = {y} => x = y
  BY Zenon
<1>3. {r} # {} /\ {a} # {}
  BY Zenon
<1>4. \/ References(t, i) = {}
      \/ \E x : /\ References(t, i) = {x} /\ Inside(t, i, x)
                /\ Readings(u) = {AsReading(t, x)}
  BY ReadingsExact, Zenon
<1>5. Readings(u) = {a}
  BY <1>2, <1>3, <1>4, Zenon DEF Single
<1>6. a.rest = From(t, r.next) /\ a.name = r.name /\ a.default = r.default
  BY Zenon DEF AsReading
<1> HIDE DEF u, M, a
<1>7. (CHOOSE x \in {a} : TRUE) = a
  OBVIOUS
<1>8. (CHOOSE x \in Readings(u) : TRUE) = a /\ Readings(u) # {}
  BY <1>3, <1>5, <1>7, Zenon
<1>9. Meant(m, known, u) = StepIn(m, known, M, u)
  BY <1>1, MeantStep, Zenon DEF M
<1>10. StepIn(m, known, M, u) = Then(AnswerIn(m, a, known, M), M[a.rest])
  BY <1>1, <1>8, Zenon DEF StepIn
<1>11. AnswerIn(m, a, known, M) = Answered(m, known, r)
  BY <1>6, Zenon DEF AnswerIn, Answered, M
<1>12. M[a.rest] = Meant(m, known, From(t, r.next))
  BY <1>6, Zenon DEF Meant, M
<1> QED BY <1>9, <1>10, <1>11, <1>12, Zenon DEF u

\* A "${" opens a reference or none.
LEMMA OpensOne ==
  ASSUME NEW t \in Text, NEW i \in 1..Len(t), t[i] = "${"
  PROVE  References(t, i) = {} \/ \E r : Single(References(t, i), r) /\ Inside(t, i, r)
BY ReadingsExact, Zenon DEF Single

-----------------------------------------------------------------------------
(* What a text can come to.                                                *)

\* A text, an error, or a value that is not known.
Results ==
  {Has(x) : x \in Text} \cup {[is |-> "malformed"], [is |-> "undefined"]}
  \cup {[is |-> "needs", name |-> n] : n \in Names}

\* Each of them is one thing only.
LEMMA ResultIs ==
  ASSUME NEW a \in Results
  PROVE  /\ a.is \in {"text", "malformed", "undefined", "needs"}
         /\ a.is = "text" => a.text \in Text /\ a = Has(a.text)
         /\ a.is = "malformed" => a = [is |-> "malformed"]
         /\ a.is = "undefined" => a = [is |-> "undefined"]
         /\ a.is = "needs" => a.name \in Names /\ a = [is |-> "needs", name |-> a.name]
BY DEF Results, Has

\* One text behind the other.
LEMMA Joined ==
  ASSUME NEW x \in Text, NEW y \in Text, NEW z \in Text
  PROVE  /\ x \o y \in Text /\ (x \o y) \o z = x \o (y \o z)
         /\ <<>> \in Text /\ <<>> \o x = x /\ x \o <<>> = x
  BY DEF Text

\* One thing after the other.
LEMMA ThenIs ==
  ASSUME NEW a \in Results, NEW b \in Results, NEW c \in Results
  PROVE  /\ Then(a, b) \in Results
         /\ Then(Then(a, b), c) = Then(a, Then(b, c))
         /\ Has(<<>>) \in Results /\ Then(Has(<<>>), a) = a /\ Then(a, Has(<<>>)) = a
         /\ a.is # "text" => Then(a, b) = a
         /\ a.is = "text" /\ b.is # "text" => Then(a, b) = b
         /\ Then(a, b).is = "text" => a.is = "text" /\ b.is = "text"
<1>1. \A x \in Text : Has(x).is = "text" /\ Has(x).text = x /\ Has(x) \in Results
  BY DEF Has, Results
<1>2. \A d \in Results : d.is = "text" => d.text \in Text /\ d = Has(d.text)
  BY ResultIs
<1>3. \A x, y \in Text : Then(Has(x), Has(y)) = Has(x \o y) /\ x \o y \in Text
  BY <1>1, Joined DEF Then
<1>4. <<>> \in Text
  BY DEF Text
<1>5. ASSUME NEW d \in Results, NEW e \in Results
      PROVE  /\ d.is # "text" => Then(d, e) = d
             /\ d.is = "text" /\ e.is # "text" => Then(d, e) = e
             /\ d.is = "text" /\ e.is = "text" =>
                  Then(d, e) = Has(d.text \o e.text) /\ d.text \o e.text \in Text
  BY <1>2, Joined DEF Then
<1>6. \A d, e \in Results : Then(d, e) \in Results
  BY <1>1, <1>5
<1>7. Then(Then(a, b), c) = Then(a, Then(b, c))
  <2>1. CASE a.is # "text"
    BY <1>5, <1>6, <2>1
  <2>2. CASE a.is = "text" /\ b.is # "text"
    BY <1>5, <1>6, <2>2
  <2>3. CASE a.is = "text" /\ b.is = "text" /\ c.is # "text"
    <3> DEFINE x == a.text \o b.text
    <3>1. Then(a, b) = Has(x) /\ x \in Text
      BY <1>5, <2>3
    <3> HIDE DEF x
    <3>2. Has(x).is = "text" /\ Has(x) \in Results
      BY <1>1, <3>1
    <3>3. Then(Has(x), c) = c /\ Then(b, c) = c /\ Then(a, c) = c
      BY <1>5, <2>3, <3>2
    <3> QED BY <3>1, <3>3
  <2>4. CASE a.is = "text" /\ b.is = "text" /\ c.is = "text"
    <3>1. /\ a.text \in Text /\ b.text \in Text /\ c.text \in Text
          /\ a = Has(a.text) /\ b = Has(b.text) /\ c = Has(c.text)
      BY <1>2, <2>4
    <3> DEFINE x == a.text
               y == b.text
               z == c.text
               xy == x \o y
               yz == y \o z
    <3> HIDE DEF x, y, z
    <3>2. a = Has(x) /\ b = Has(y) /\ c = Has(z) /\ x \in Text /\ y \in Text /\ z \in Text
      BY <3>1 DEF x, y, z
    <3>3. xy \in Text /\ yz \in Text /\ xy \o z = x \o yz
      <4>1. /\ x \o y \in Text /\ y \o z \in Text
            /\ (x \o y) \o z = x \o (y \o z)
        <5> HIDE DEF xy, yz
        <5>1. x \in Text /\ y \in Text /\ z \in Text
          BY <3>2
        <5> QED BY <5>1 DEF Text
      <4> QED BY <4>1
    <3>4. Then(a, b) = Has(xy) /\ Then(b, c) = Has(yz)
      BY <1>3, <3>2
    <3> HIDE DEF xy, yz
    <3>5. Then(Has(xy), c) = Has(xy \o z) /\ Then(a, Has(yz)) = Has(x \o yz)
      BY <1>3, <3>2, <3>3
    <3> QED BY <3>3, <3>4, <3>5
  <2> QED BY <2>1, <2>2, <2>3, <2>4
<1>8. Then(Has(<<>>), a) = a /\ Then(a, Has(<<>>)) = a
  <2> DEFINE e == Has(<<>>)
  <2>1. e.is = "text" /\ e.text = <<>> /\ e \in Results
    BY <1>1, <1>4
  <2>2. CASE a.is # "text"
    <3> HIDE DEF e
    <3>1. Then(e, a) = a /\ Then(a, e) = a
      BY <1>5, <2>1, <2>2
    <3> QED BY <3>1 DEF e
  <2>3. CASE a.is = "text"
    <3> DEFINE x == a.text
    <3>1. x \in Text /\ a = Has(x)
      BY <1>2, <2>3
    <3> HIDE DEF x
    <3>2. <<>> \o x = x /\ x \o <<>> = x
      BY <3>1, Joined
    <3>3. Then(Has(<<>>), Has(x)) = Has(<<>> \o x) /\ Then(Has(x), Has(<<>>)) = Has(x \o <<>>)
      BY <1>3, <1>4, <3>1
    <3> QED BY <3>1, <3>2, <3>3
  <2> QED BY <2>2, <2>3
<1>9. Has(<<>>) \in Results
  BY <1>1, <1>4
<1>10. Then(a, b).is = "text" => a.is = "text" /\ b.is = "text"
  BY <1>5
<1> QED BY <1>5, <1>6, <1>7, <1>8, <1>9, <1>10

\* `known` has values of names of m.
Knows(m, known) ==
  /\ DOMAIN known \subseteq DOMAIN m
  /\ \A n \in DOMAIN known : known[n] \in Text

\* Every answer.
LEMMA AnsweredIs ==
  ASSUME NEW m, NEW known, Knows(m, known), NEW r
  PROVE  /\ r.name \notin DOMAIN m /\ r.default = {} =>
              Answered(m, known, r) = [is |-> "undefined"]
         /\ r.name \in DOMAIN m /\ r.name \notin DOMAIN known =>
              Answered(m, known, r) = [is |-> "needs", name |-> r.name]
         /\ r.name \in DOMAIN known /\ (known[r.name] # <<>> \/ r.default = {}) =>
              Answered(m, known, r) = Has(known[r.name])
         /\ \A d : /\ Single(r.default, d)
                   /\ \/ r.name \notin DOMAIN m
                      \/ r.name \in DOMAIN known /\ known[r.name] = <<>>
                   => Answered(m, known, r) = Meant(m, known, d)
<1> DEFINE n == r.name
           ds == r.default
           f == MeaningsIn(m, known)
           a == AnswerOn(m, n, ds, known, f)
<1>1. Answered(m, known, r) = a
  BY Zenon DEF Answered, AnswerIn
<1>2. n \in DOMAIN known => n \in DOMAIN m
  BY DEF Knows
<1> HIDE DEF n, ds, f
<1>3. n \notin DOMAIN m /\ ds = {} => a = [is |-> "undefined"]
  BY Zenon DEF AnswerOn
<1>4. n \in DOMAIN m /\ n \notin DOMAIN known => a = [is |-> "needs", name |-> n]
  BY DEF AnswerOn
<1>5. n \in DOMAIN known /\ (known[n] # <<>> \/ ds = {}) => a = Has(known[n])
  BY <1>2, Zenon DEF AnswerOn
<1>6. ASSUME NEW d, Single(ds, d), n \notin DOMAIN m \/ (n \in DOMAIN known /\ known[n] = <<>>)
      PROVE  a = Meant(m, known, d)
  <2>1. (CHOOSE x \in {d} : TRUE) = d
    OBVIOUS
  <2>2. f[CHOOSE x \in ds : TRUE] = f[d]
    BY <1>6, <2>1, Zenon DEF Single
  <2>3. ds # {}
    BY <1>6 DEF Single
  <2>4. a = f[CHOOSE x \in ds : TRUE]
    BY <1>2, <1>6, <2>3 DEF AnswerOn
  <2> QED BY <2>2, <2>4, Zenon DEF Meant, f
<1> HIDE DEF a
<1> QED BY <1>1, <1>3, <1>4, <1>5, <1>6 DEF n, ds

\* The answer is one of the results, if what the default means is one.
LEMMA AnsweredTyped ==
  ASSUME NEW m, NEW known, Knows(m, known), NEW r, r.name \in Names,
         r.default = {} \/ \E d \in Text : Single(r.default, d) /\ Meant(m, known, d) \in Results
  PROVE  Answered(m, known, r) \in Results
<1> DEFINE a == Answered(m, known, r)
           n == r.name
           ds == r.default
<1>1. /\ n \notin DOMAIN m /\ ds = {} => a = [is |-> "undefined"]
      /\ n \in DOMAIN m /\ n \notin DOMAIN known => a = [is |-> "needs", name |-> n]
      /\ n \in DOMAIN known /\ (known[n] # <<>> \/ ds = {}) => a = Has(known[n])
      /\ \A d : /\ Single(ds, d)
                /\ n \notin DOMAIN m \/ (n \in DOMAIN known /\ known[n] = <<>>)
                => a = Meant(m, known, d)
  BY AnsweredIs
<1>2. n \in Names /\ (ds = {} \/ \E d \in Text : Single(ds, d) /\ Meant(m, known, d) \in Results)
  OBVIOUS
<1> HIDE DEF a, n, ds
<1>3. [is |-> "undefined"] \in Results /\ [is |-> "needs", name |-> n] \in Results
  BY <1>2 DEF Results
<1>4. \A x \in Text : Has(x) \in Results
  BY DEF Results
<1>5. n \in DOMAIN known => known[n] \in Text
  BY DEF Knows
<1>6. a \in Results
  <2>1. CASE ds = {}
    BY <1>1, <1>3, <1>4, <1>5, <2>1
  <2>2. CASE ds # {}
    <3>1. PICK d \in Text : Single(ds, d) /\ Meant(m, known, d) \in Results
      BY <1>2, <2>2
    <3>2. CASE n \notin DOMAIN m
      BY <1>1, <3>1, <3>2
    <3>3. CASE n \in DOMAIN m /\ n \notin DOMAIN known
      BY <1>1, <1>3, <3>3
    <3>4. CASE n \in DOMAIN known /\ known[n] = <<>>
      BY <1>1, <3>1, <3>4
    <3>5. CASE n \in DOMAIN known /\ known[n] # <<>>
      BY <1>1, <1>4, <1>5, <3>5
    <3> QED BY <3>2, <3>3, <3>4, <3>5
  <2> QED BY <2>1, <2>2
<1> QED BY <1>6 DEF a

\* What a text means depends on its first token and the rest.
LEMMA FirstMeans ==
  ASSUME NEW m, NEW known, NEW t \in Text
  PROVE  \/ t = <<>> /\ Meant(m, known, t) = Has(<<>>)
         \/ \E x \in Text, u \in Text :
              /\ Len(u) < Len(t)
              /\ \A k : Meant(m, k, t) = Then(Has(x), Meant(m, k, u))
         \/ \A k : Meant(m, k, t) = [is |-> "malformed"]
         \/ \E r : \E u \in Text :
              /\ r.name \in Names
              /\ r.default = {} \/ \E d \in Text : Single(r.default, d) /\ Len(d) < Len(t)
              /\ Len(u) < Len(t)
              /\ \A k : Meant(m, k, t) = Then(Answered(m, k, r), Meant(m, k, u))
<1>1. CASE t = <<>>
  <2>1. Len(t) + 1 = 1
    BY <1>1
  <2>2. From(t, 1) = t
    BY FromEnds
  <2>3. Meant(m, known, From(t, Len(t) + 1)) = Has(<<>>)
    BY EndMeans
  <2> QED BY <1>1, <2>1, <2>2, <2>3
<1>2. CASE t # <<>>
  <2>1. 1 \in 1..Len(t) /\ From(t, 1) = t /\ Tail(t) = From(t, 1 + 1)
    BY <1>2, FirstIs
  <2>2. Tail(t) \in Text /\ Len(Tail(t)) < Len(t)
    BY <1>2, FirstIs, Zenon
  <2>3. CASE t[1] # "${"
    <3>1. \A k : Meant(m, k, t) = Then(Has(<<t[1]>>), Meant(m, k, Tail(t)))
      <4>1. \A k : Meant(m, k, From(t, 1)) = Then(Has(<<t[1]>>), Meant(m, k, From(t, 1 + 1)))
        BY <2>1, <2>3, PlainMeans, Zenon
      <4> QED BY <2>1, <4>1
    <3>2. <<t[1]>> \in Text
      <4>1. t \in Seq(Token) /\ 1 \in DOMAIN t
        BY <2>1 DEF Text
      <4> QED BY <4>1 DEF Text
    <3> QED BY <2>2, <3>1, <3>2, Zenon
  <2>4. CASE t[1] = "${" /\ References(t, 1) = {}
    <3>1. \A k : Meant(m, k, t) = [is |-> "malformed"]
      <4>1. ASSUME NEW k PROVE Meant(m, k, From(t, 1)) = [is |-> "malformed"]
        BY <2>1, <2>4, MalformedMeans, Zenon
      <4> QED BY <2>1, <4>1
    <3> QED BY <3>1, Zenon
  <2>5. CASE t[1] = "${" /\ References(t, 1) # {}
    <3>1. PICK r : Single(References(t, 1), r) /\ Inside(t, 1, r)
      BY <2>1, <2>5, OpensOne, Zenon
    <3> DEFINE u == From(t, r.next)
    <3>2. \A k : Meant(m, k, t) = Then(Answered(m, k, r), Meant(m, k, u))
      <4>1. ASSUME NEW k
            PROVE  Meant(m, k, From(t, 1)) = Then(Answered(m, k, r), Meant(m, k, u))
        <5>1. Single(References(t, 1), r)
          BY <3>1, Zenon DEF Single
        <5>2. 1 \in 1..Len(t) /\ t[1] = "${"
          BY <2>1, <2>5, Zenon
        <5> QED BY <5>1, <5>2, ReferenceMeans, Zenon
      <4> QED BY <2>1, <4>1
    <3>3. Len(t) \in Nat
      BY DEF Text
    <3>4. u \in Text /\ Len(u) < Len(t) + 1 - 1 /\ r.name \in Names
      BY <2>1, <3>1, RestIs, Zenon
    <3>5. Len(u) < Len(t)
      <4> HIDE DEF u
      <4> QED BY <3>3, <3>4
    <3>6. r.default = {} \/ \E d \in Text : Single(r.default, d) /\ Len(d) < Len(t)
      <4>1. Len(t) + 1 - 1 = Len(t)
        BY <3>3
      <4> QED BY <3>1, <4>1, Zenon DEF Inside
    <3> HIDE DEF u
    <3>7. \E x : \E y \in Text :
            /\ x.name \in Names
            /\ x.default = {} \/ \E d \in Text : Single(x.default, d) /\ Len(d) < Len(t)
            /\ Len(y) < Len(t)
            /\ \A k : Meant(m, k, t) = Then(Answered(m, k, x), Meant(m, k, y))
      BY <3>2, <3>4, <3>5, <3>6, Zenon
    <3> QED BY <3>7, Zenon
  <2> QED BY <2>3, <2>4, <2>5, Zenon
<1> QED BY <1>1, <1>2, Zenon

\* Whatever it is, it comes to a result.
LEMMA MeantTyped ==
  ASSUME NEW m, NEW known, Knows(m, known), NEW t \in Text
  PROVE  Meant(m, known, t) \in Results
<1> DEFINE S == {u \in Text : Meant(m, known, u) \in Results}
<1>1. ASSUME NEW u \in Text, \A v \in Text : Len(v) < Len(u) => v \in S
      PROVE  u \in S
  <2> SUFFICES Meant(m, known, u) \in Results
    OBVIOUS
  <2>1. \A v \in Text : Len(v) < Len(u) => Meant(m, known, v) \in Results
    BY <1>1
  <2> HIDE DEF S
  <2>2. \A x \in Text : Has(x) \in Results
    BY DEF Results
  <2>3. CASE Meant(m, known, u) = Has(<<>>)
    <3>1. <<>> \in Text
      BY DEF Text
    <3> QED BY <2>2, <2>3, <3>1
  <2>4. ASSUME NEW x \in Text, NEW v \in Text, Len(v) < Len(u),
               Meant(m, known, u) = Then(Has(x), Meant(m, known, v))
        PROVE  Meant(m, known, u) \in Results
    BY <2>1, <2>2, <2>4, ThenIs
  <2>5. CASE Meant(m, known, u) = [is |-> "malformed"]
    BY <2>5 DEF Results
  <2>6. ASSUME NEW r, NEW v \in Text, Len(v) < Len(u), r.name \in Names,
               r.default = {} \/ \E d \in Text : Single(r.default, d) /\ Len(d) < Len(u),
               Meant(m, known, u) = Then(Answered(m, known, r), Meant(m, known, v))
        PROVE  Meant(m, known, u) \in Results
    <3>1. Answered(m, known, r) \in Results
      BY <2>1, <2>6, AnsweredTyped, Zenon
    <3>2. Meant(m, known, v) \in Results
      BY <2>1, <2>6
    <3> QED BY <2>6, <3>1, <3>2, ThenIs
  <2> QED BY <2>3, <2>4, <2>5, <2>6, FirstMeans, Zenon
<1> HIDE DEF S
<1>2. Text \subseteq S
  BY <1>1, ByLength
<1> QED BY <1>2 DEF S

\* One element more.
LEMMA Longer ==
  ASSUME NEW S, NEW x \in Seq(S), NEW z \in Seq(S), Len(z) = 1
  PROVE  /\ x \o z \in Seq(S) /\ Len(x \o z) = Len(x) + 1
         /\ \A j \in 1..Len(x) : (x \o z)[j] = x[j]
         /\ (x \o z)[Len(x) + 1] = z[1]
<1> DEFINE y == x \o z
           n == Len(x)
<1>1. n \in Nat
  OBVIOUS
<1>2. /\ y \in Seq(S) /\ Len(y) = n + Len(z)
      /\ \A i \in 1..(n + Len(z)) : y[i] = IF i <= n THEN x[i] ELSE z[i - n]
  BY ConcatProperties
<1> HIDE DEF y, n
<1>3. y[n + 1] = z[1]
  <2> DEFINE k == n + 1
  <2>1. k \in 1..(n + Len(z)) /\ ~(k <= n) /\ k - n = 1
    BY <1>1
  <2> HIDE DEF k
  <2>2. y[k] = z[k - n]
    BY <1>2, <2>1
  <2>3. y[k] = z[1]
    BY <2>1, <2>2
  <2> QED BY <2>3 DEF k
<1>4. \A j \in 1..n : y[j] = x[j]
  BY <1>1, <1>2
<1> QED BY <1>2, <1>3, <1>4 DEF y, n

\* One token more.
LEMMA PartGrows ==
  ASSUME NEW t \in Text, NEW i \in 1..(Len(t) + 1), NEW k \in i..Len(t)
  PROVE  /\ SubSeq(t, i, i - 1) = <<>>
         /\ SubSeq(t, i, k - 1) \in Text /\ <<t[k]>> \in Text
         /\ SubSeq(t, i, k - 1) \o <<t[k]>> = SubSeq(t, i, k)
<1>1. t \in Seq(Token) /\ Len(t) \in Nat
  BY DEF Text
<1>2. SubSeq(t, i, i - 1) = <<>>
  <2> DEFINE x == SubSeq(t, i, i - 1)
  <2>1. i - 1 \in (i - 1)..Len(t)
    BY <1>1
  <2>2. x \in Seq(Token) /\ Len(x) = i - 1 + 1 - i
    BY <1>1, <2>1, Part
  <2> HIDE DEF x
  <2>3. x = <<>>
    BY <2>2
  <2> QED BY <2>3 DEF x
<1>3. <<t[k]>> \in Text /\ Len(<<t[k]>>) = 1 /\ <<t[k]>>[1] = t[k]
  <2>1. k \in DOMAIN t
    BY <1>1
  <2> QED BY <1>1, <2>1 DEF Text
<1> DEFINE x == SubSeq(t, i, k - 1)
           y == SubSeq(t, i, k)
           z == <<t[k]>>
           xz == x \o z
<1>4. x \in Seq(Token) /\ Len(x) = k - i /\ \A j \in 1..(k - i) : x[j] = t[i + j - 1]
  <2>1. k - 1 \in (i - 1)..Len(t)
    BY <1>1
  <2>2. x \in Seq(Token) /\ Len(x) = k - 1 + 1 - i
    BY <1>1, <2>1, Part
  <2> QED BY <1>1, <2>2
<1>5. y \in Seq(Token) /\ Len(y) = k + 1 - i /\ \A j \in 1..(k + 1 - i) : y[j] = t[i + j - 1]
  <2>1. k \in (i - 1)..Len(t)
    BY <1>1
  <2>2. y \in Seq(Token) /\ Len(y) = k + 1 - i
    BY <1>1, <2>1, Part
  <2> QED BY <1>1, <2>2
<1>6. z \in Seq(Token) /\ Len(z) = 1 /\ z[1] = t[k]
  BY <1>3 DEF Text
<1> HIDE DEF x, y, z
<1>7. /\ xz \in Seq(Token) /\ Len(xz) = k + 1 - i
      /\ \A j \in 1..(k - i) : xz[j] = x[j]
      /\ xz[k + 1 - i] = z[1]
  <2>1. /\ xz \in Seq(Token) /\ Len(xz) = Len(x) + 1
        /\ \A j \in 1..Len(x) : xz[j] = x[j]
        /\ xz[Len(x) + 1] = z[1]
    <3>1. x \in Seq(Token) /\ z \in Seq(Token) /\ Len(z) = 1
      BY <1>4, <1>6
    <3> QED BY <3>1, Longer
  <2>2. Len(x) = k - i /\ Len(x) + 1 = k + 1 - i
    BY <1>1, <1>4
  <2> HIDE DEF xz
  <2> QED BY <2>1, <2>2
<1> HIDE DEF xz
<1>8. \A j \in 1..Len(xz) : xz[j] = y[j]
  <2> SUFFICES ASSUME NEW j \in 1..Len(xz) PROVE xz[j] = y[j]
    OBVIOUS
  <2>1. j \in 1..(k + 1 - i) /\ y[j] = t[i + j - 1]
    BY <1>5, <1>7
  <2>2. CASE j \in 1..(k - i)
    BY <1>4, <1>7, <2>1, <2>2
  <2>3. CASE j = k + 1 - i
    <3>1. i + j - 1 = k
      BY <1>1, <2>3
    <3> QED BY <1>6, <1>7, <2>1, <2>3, <3>1
  <2> QED BY <1>1, <2>1, <2>2, <2>3
<1>9. xz = y
  BY <1>5, <1>7, <1>8, SameText DEF Text
<1>10. x \in Text
  BY <1>4 DEF Text
<1> QED BY <1>2, <1>3, <1>9, <1>10 DEF xz, x, y, z

\* Tokens i to k - 1 stand for themselves.
PlainUpTo(m, known, t, i, k) ==
  \A j \in i..(k - 1) :
    Meant(m, known, From(t, j)) = Then(Has(<<t[j]>>), Meant(m, known, From(t, j + 1)))

\* Together they stand for themselves, too.
LEMMA PrefixMeans ==
  ASSUME NEW m, NEW known, Knows(m, known), NEW t \in Text,
         NEW i \in 1..(Len(t) + 1), NEW k \in i..(Len(t) + 1), PlainUpTo(m, known, t, i, k)
  PROVE  Meant(m, known, From(t, i)) =
           Then(Has(SubSeq(t, i, k - 1)), Meant(m, known, From(t, k)))
<1> DEFINE M(j) == Meant(m, known, From(t, j))
           P(j) == SubSeq(t, i, j - 1)
           T == {d \in Nat : i + d <= k => M(i) = Then(Has(P(i + d)), M(i + d))}
<1>1. Len(t) \in Nat
  BY DEF Text
<1>2. ASSUME NEW j \in 1..(Len(t) + 1) PROVE M(j) \in Results
  <2>1. From(t, j) \in Text
    BY FromIs
  <2> QED BY <2>1, MeantTyped
<1>3. \A j \in i..(k - 1) : M(j) = Then(Has(<<t[j]>>), M(j + 1))
  BY DEF PlainUpTo
<1>4. ASSUME NEW j \in i..(k - 1)
      PROVE  P(j) \in Text /\ <<t[j]>> \in Text /\ P(j) \o <<t[j]>> = P(j + 1)
  <2>1. j \in i..Len(t) /\ j + 1 - 1 = j
    BY <1>1
  <2>2. /\ SubSeq(t, i, j - 1) \in Text /\ <<t[j]>> \in Text
        /\ SubSeq(t, i, j - 1) \o <<t[j]>> = SubSeq(t, i, j)
    BY <2>1, PartGrows
  <2>3. P(j + 1) = SubSeq(t, i, j) /\ P(j) = SubSeq(t, i, j - 1)
    BY <2>1
  <2> QED BY <2>2, <2>3
<1>5. P(i) = <<>>
  <2>1. CASE i <= Len(t)
    <3>1. i \in i..Len(t)
      BY <1>1, <2>1
    <3> QED BY <3>1, PartGrows
  <2>2. CASE i = Len(t) + 1
    <3> DEFINE x == SubSeq(t, i, i - 1)
    <3>1. t \in Seq(Token) /\ i - 1 \in (i - 1)..Len(t)
      BY <1>1, <2>2 DEF Text
    <3>2. x \in Seq(Token) /\ Len(x) = i - 1 + 1 - i
      BY <3>1, Part
    <3> HIDE DEF x
    <3>3. x = <<>>
      BY <3>2
    <3> QED BY <3>3 DEF x
  <2> QED BY <1>1, <2>1, <2>2
<1>6. \A x \in Text : Has(x) \in Results
  BY DEF Results
<1>7. \A x, y \in Text : Then(Has(x), Has(y)) = Has(x \o y)
  BY DEF Then, Has
<1> HIDE DEF M, P
<1>8. 0 \in T
  <2>1. M(i) \in Results
    BY <1>2
  <2>2. Then(Has(<<>>), M(i)) = M(i)
    BY <2>1, ThenIs
  <2> QED BY <1>5, <2>2
<1>9. ASSUME NEW d \in Nat, d \in T PROVE d + 1 \in T
  <2> DEFINE j == i + d
             n == j + 1
             x == P(j)
             y == <<t[j]>>
  <2> SUFFICES ASSUME i + (d + 1) <= k PROVE M(i) = Then(Has(P(i + (d + 1))), M(i + (d + 1)))
    OBVIOUS
  <2>1. n = i + (d + 1) /\ j \in i..(k - 1) /\ n \in 1..(Len(t) + 1)
    BY <1>1
  <2>2. M(i) = Then(Has(x), M(j))
    BY <1>9
  <2> HIDE DEF j
  <2>3. M(j) = Then(Has(y), M(n))
    BY <1>3, <2>1
  <2>4. x \in Text /\ y \in Text /\ x \o y = P(n)
    BY <1>4, <2>1
  <2>5. M(n) \in Results
    <3> HIDE DEF n
    <3> QED BY <1>2, <2>1
  <2> HIDE DEF n, x, y
  <2>6. Has(x) \in Results /\ Has(y) \in Results /\ Then(Has(x), Has(y)) = Has(P(n))
    BY <1>6, <1>7, <2>4
  <2>7. Then(Then(Has(x), Has(y)), M(n)) = Then(Has(x), Then(Has(y), M(n)))
    BY <2>5, <2>6, ThenIs
  <2>8. M(i) = Then(Has(P(n)), M(n))
    BY <2>2, <2>3, <2>6, <2>7
  <2> QED BY <2>1, <2>8
<1> HIDE DEF T
<1>10. k - i \in T
  <2>1. k - i \in Nat
    BY <1>1
  <2> QED BY <1>8, <1>9, <2>1, Induct
<1>11. i + (k - i) = k
  BY <1>1
<1>12. M(i) = Then(Has(P(k)), M(k))
  BY <1>1, <1>10, <1>11 DEF T
<1> QED BY <1>12 DEF M, P

-----------------------------------------------------------------------------
(* More becomes known.                                                     *)

\* a waits for one of the names in D.
Blocks(a, D) == a.is = "needs" /\ a.name \in D

\* What is known in k is known in l.
Grows(m, k, l) ==
  /\ Knows(m, k) /\ Knows(m, l)
  /\ DOMAIN k \subseteq DOMAIN l
  /\ \A n \in DOMAIN k : l[n] = k[n]

\* Unless the whole waits, its parts do not.
LEMMA ThenBlocks ==
  ASSUME NEW a \in Results, NEW b \in Results, NEW D, ~Blocks(Then(a, b), D)
  PROVE  ~Blocks(a, D) /\ (a.is = "text" => ~Blocks(b, D))
<1>1. CASE a.is # "text"
  <2>1. Then(a, b) = a
    BY <1>1, ThenIs
  <2> QED BY <1>1, <2>1
<1>2. CASE a.is = "text" /\ b.is # "text"
  <2>1. Then(a, b) = b
    BY <1>2, ThenIs
  <2> QED BY <1>2, <2>1 DEF Blocks
<1>3. CASE a.is = "text" /\ b.is = "text"
  BY <1>3 DEF Blocks
<1> QED BY <1>1, <1>2, <1>3

\* An answer that does not wait remains the answer.
LEMMA AnsweredGrows ==
  ASSUME NEW m, NEW k, NEW l, Grows(m, k, l), NEW r,
         ~Blocks(Answered(m, k, r), DOMAIN l),
         \/ r.default = {}
         \/ \E d \in Text : /\ Single(r.default, d)
                            /\ ~Blocks(Meant(m, k, d), DOMAIN l) =>
                                 Meant(m, l, d) = Meant(m, k, d)
  PROVE  Answered(m, l, r) = Answered(m, k, r)
<1> DEFINE a == Answered(m, k, r)
           b == Answered(m, l, r)
           n == r.name
           ds == r.default
<1>1. /\ n \notin DOMAIN m /\ ds = {} => a = [is |-> "undefined"]
      /\ n \in DOMAIN m /\ n \notin DOMAIN k => a = [is |-> "needs", name |-> n]
      /\ n \in DOMAIN k /\ (k[n] # <<>> \/ ds = {}) => a = Has(k[n])
      /\ \A d : /\ Single(ds, d)
                /\ n \notin DOMAIN m \/ (n \in DOMAIN k /\ k[n] = <<>>)
                => a = Meant(m, k, d)
  BY AnsweredIs DEF Grows
<1>2. /\ n \notin DOMAIN m /\ ds = {} => b = [is |-> "undefined"]
      /\ n \in DOMAIN m /\ n \notin DOMAIN l => b = [is |-> "needs", name |-> n]
      /\ n \in DOMAIN l /\ (l[n] # <<>> \/ ds = {}) => b = Has(l[n])
      /\ \A d : /\ Single(ds, d)
                /\ n \notin DOMAIN m \/ (n \in DOMAIN l /\ l[n] = <<>>)
                => b = Meant(m, l, d)
  BY AnsweredIs DEF Grows
<1>3. ~Blocks(a, DOMAIN l)
  OBVIOUS
<1>4. \/ ds = {}
      \/ \E d \in Text : /\ Single(ds, d)
                         /\ ~Blocks(Meant(m, k, d), DOMAIN l) =>
                              Meant(m, l, d) = Meant(m, k, d)
  OBVIOUS
<1>5. n \in DOMAIN k => n \in DOMAIN l /\ l[n] = k[n]
  BY DEF Grows
<1>6. n \in DOMAIN l => n \in DOMAIN m
  BY DEF Grows, Knows
<1> SUFFICES b = a
  OBVIOUS
<1> HIDE DEF a, b, n, ds
<1>7. CASE n \notin DOMAIN m /\ ds = {}
  BY <1>1, <1>2, <1>7
<1>8. CASE n \in DOMAIN m /\ n \notin DOMAIN k
  <2>1. a = [is |-> "needs", name |-> n]
    BY <1>1, <1>8
  <2>2. n \notin DOMAIN l
    BY <1>3, <2>1 DEF Blocks
  <2> QED BY <1>2, <1>8, <2>1, <2>2
<1>9. CASE n \in DOMAIN k /\ (k[n] # <<>> \/ ds = {})
  BY <1>1, <1>2, <1>5, <1>9
<1>10. CASE ds # {} /\ (n \notin DOMAIN m \/ (n \in DOMAIN k /\ k[n] = <<>>))
  <2>1. PICK d \in Text : /\ Single(ds, d)
                          /\ ~Blocks(Meant(m, k, d), DOMAIN l) =>
                               Meant(m, l, d) = Meant(m, k, d)
    BY <1>4, <1>10
  <2>2. a = Meant(m, k, d) /\ b = Meant(m, l, d)
    BY <1>1, <1>2, <1>5, <1>10, <2>1
  <2> QED BY <1>3, <2>1, <2>2
<1>11. n \in DOMAIN k => n \in DOMAIN m
  BY <1>5, <1>6
<1> QED BY <1>7, <1>8, <1>9, <1>10, <1>11

\* And so does a meaning.
LEMMA MeantGrows ==
  ASSUME NEW m, NEW k, NEW l, Grows(m, k, l), NEW t \in Text,
         ~Blocks(Meant(m, k, t), DOMAIN l)
  PROVE  Meant(m, l, t) = Meant(m, k, t)
<1> DEFINE S == {u \in Text : ~Blocks(Meant(m, k, u), DOMAIN l) =>
                                Meant(m, l, u) = Meant(m, k, u)}
<1>1. Knows(m, k) /\ Knows(m, l)
  BY DEF Grows
<1>2. ASSUME NEW u \in Text, \A v \in Text : Len(v) < Len(u) => v \in S
      PROVE  u \in S
  <2> SUFFICES ASSUME ~Blocks(Meant(m, k, u), DOMAIN l)
               PROVE  Meant(m, l, u) = Meant(m, k, u)
    OBVIOUS
  <2>1. \A v \in Text : Len(v) < Len(u) /\ ~Blocks(Meant(m, k, v), DOMAIN l) =>
          Meant(m, l, v) = Meant(m, k, v)
    BY <1>2
  <2> HIDE DEF S
  <2>2. ASSUME NEW x, NEW y, NEW v \in Text, Len(v) < Len(u), x \in Results, y \in Results,
               ~Blocks(x, DOMAIN l) => y = x,
               Meant(m, k, u) = Then(x, Meant(m, k, v)),
               Meant(m, l, u) = Then(y, Meant(m, l, v))
        PROVE  Meant(m, l, u) = Meant(m, k, u)
    <3> DEFINE b == Meant(m, k, v)
               c == Meant(m, l, v)
    <3>1. b \in Results /\ c \in Results
      BY <1>1, MeantTyped
    <3>2. ~Blocks(Then(x, b), DOMAIN l)
      BY <2>2
    <3>3. (~Blocks(b, DOMAIN l) => c = b)
      BY <2>1, <2>2
    <3> HIDE DEF b, c
    <3>4. ~Blocks(x, DOMAIN l) /\ (x.is = "text" => ~Blocks(b, DOMAIN l))
      BY <2>2, <3>1, <3>2, ThenBlocks
    <3>5. y = x
      BY <2>2, <3>4
    <3>6. Then(x, b) = Then(x, c)
      <4>1. CASE x.is = "text"
        BY <3>3, <3>4, <4>1
      <4>2. CASE x.is # "text"
        <5>1. Then(x, b) = x /\ Then(x, c) = x
          BY <2>2, <3>1, <4>2, ThenIs
        <5> QED BY <5>1
      <4> QED BY <4>1, <4>2
    <3> QED BY <2>2, <3>5, <3>6 DEF b, c
  <2>3. CASE u = <<>>
    <3>1. Len(u) + 1 = 1 /\ From(u, 1) = u
      BY <2>3, FromEnds
    <3>2. /\ Meant(m, k, From(u, Len(u) + 1)) = Has(<<>>)
          /\ Meant(m, l, From(u, Len(u) + 1)) = Has(<<>>)
      BY EndMeans
    <3> QED BY <3>1, <3>2
  <2>4. ASSUME NEW x \in Text, NEW v \in Text, Len(v) < Len(u),
               \A j : Meant(m, j, u) = Then(Has(x), Meant(m, j, v))
        PROVE  Meant(m, l, u) = Meant(m, k, u)
    <3>1. Has(x) \in Results
      BY DEF Results
    <3>2. /\ Meant(m, k, u) = Then(Has(x), Meant(m, k, v))
          /\ Meant(m, l, u) = Then(Has(x), Meant(m, l, v))
      BY <2>4, Zenon
    <3> QED BY <2>2, <2>4, <3>1, <3>2
  <2>5. ASSUME \A j : Meant(m, j, u) = [is |-> "malformed"]
        PROVE  Meant(m, l, u) = Meant(m, k, u)
    BY <2>5, Zenon
  <2>6. ASSUME NEW r, NEW v \in Text, Len(v) < Len(u), r.name \in Names,
               r.default = {} \/ \E d \in Text : Single(r.default, d) /\ Len(d) < Len(u),
               \A j : Meant(m, j, u) = Then(Answered(m, j, r), Meant(m, j, v))
        PROVE  Meant(m, l, u) = Meant(m, k, u)
    <3> DEFINE x == Answered(m, k, r)
               y == Answered(m, l, r)
    <3>1. ASSUME NEW j, Knows(m, j) PROVE Answered(m, j, r) \in Results
      <4>1. r.default = {} \/ \E d \in Text : /\ Single(r.default, d)
                                              /\ Meant(m, j, d) \in Results
        BY <2>6, <3>1, MeantTyped
      <4> QED BY <2>6, <3>1, <4>1, AnsweredTyped
    <3>2. x \in Results /\ y \in Results
      BY <1>1, <3>1
    <3>3. \/ r.default = {}
          \/ \E d \in Text : /\ Single(r.default, d)
                             /\ ~Blocks(Meant(m, k, d), DOMAIN l) =>
                                  Meant(m, l, d) = Meant(m, k, d)
      BY <2>1, <2>6
    <3>4. ~Blocks(x, DOMAIN l) => y = x
      BY <3>3, AnsweredGrows, Zenon
    <3>5. /\ Meant(m, k, u) = Then(x, Meant(m, k, v))
          /\ Meant(m, l, u) = Then(y, Meant(m, l, v))
      BY <2>6, Zenon
    <3> HIDE DEF x, y
    <3> QED BY <2>2, <2>6, <3>2, <3>4, <3>5
  <2> QED BY <2>3, <2>4, <2>5, <2>6, FirstMeans, Zenon
<1> HIDE DEF S
<1>3. Text \subseteq S
  BY <1>2, ByLength
<1> QED BY <1>3 DEF S

-----------------------------------------------------------------------------
(* What becomes known.                                                     *)

\* Expands, in the map m.
ExpandsIn(m, n) == m[n].quoting \in {"none", "double"}

\* The first round: values that are not expanded.
FirstIn(m) == [n \in {x \in DOMAIN m : ~ExpandsIn(m, x)} |-> m[n].raw]

\* The round after `old`.
MoreIn(m, old) ==
  LET M == [n \in DOMAIN m \ DOMAIN old |-> Meant(m, old, m[n].raw)]
  IN Over([n \in {x \in DOMAIN M : M[x].is = "text"} |-> M[n].text], old)

\* All of them.
RoundsIn(m) ==
  CHOOSE f : f = [k \in 0..Cardinality(Names) |->
                    IF k = 0 THEN FirstIn(m) ELSE MoreIn(m, f[k - 1])]

\* Known, in the map m.
KnownIn(m) == RoundsIn(m)[Cardinality(Names)]

\* That it is.
LEMMA KnownIs == Known = KnownIn(map)
BY Zenon DEF Known, KnownIn, RoundsIn, FirstIn, MoreIn, ExpandsIn, Expands, Meaning, Meant,
             MeaningsIn, StepIn, AnswerIn, AnswerOn, Answer

\* There are as many names as there are places in their order, at most.
LEMMA NamesFinite == IsFiniteSet(Names) /\ Cardinality(Names) \in Nat
<1>1. Order \in Seq(Names) /\ \A n \in Names : \E i \in DOMAIN Order : Order[i] = n
  BY ExecAssumption
<1>2. Len(Order) \in Nat /\ DOMAIN Order = 1..Len(Order) /\ Order \in [1..Len(Order) -> Names]
  BY <1>1
<1>3. IsFiniteSet(1..Len(Order))
  BY <1>2, FS_Interval
<1>4. Order \in Surjection(1..Len(Order), Names)
  BY <1>1, <1>2 DEF Surjection
<1>5. IsFiniteSet(Names)
  BY <1>3, <1>4, FS_Surjection
<1> QED BY <1>5, FS_CardinalityType

\* f[0] to f[n] are the first rounds.
Rounds(m, f, n) == f[0] = FirstIn(m) /\ \A k \in 1..n : f[k] = MoreIn(m, f[k - 1])

\* There are such rounds.
LEMMA RoundsExist ==
  ASSUME NEW m
  PROVE  Rounds(m, RoundsIn(m), Cardinality(Names))
<1> DEFINE N == Cardinality(Names)
           T == {n \in Nat : \E f : Rounds(m, f, n)}
<1>1. N \in Nat
  BY NamesFinite
<1> HIDE DEF N
<1>2. 0 \in T
  <2> DEFINE f == [k \in {0} |-> FirstIn(m)]
  <2>1. f[0] = FirstIn(m) /\ 1..0 = {}
    OBVIOUS
  <2> HIDE DEF f
  <2>2. Rounds(m, f, 0)
    BY <2>1 DEF Rounds
  <2> QED BY <2>2
<1>3. ASSUME NEW n \in Nat, n \in T PROVE n + 1 \in T
  <2>1. PICK f : Rounds(m, f, n)
    BY <1>3
  <2> DEFINE x == MoreIn(m, f[n])
             g == [k \in 0..(n + 1) |-> IF k = n + 1 THEN x ELSE f[k]]
  <2> HIDE DEF x
  <2>2. /\ g[0] = f[0] /\ g[n + 1] = x /\ g[n] = f[n]
        /\ \A k \in 1..n : g[k] = f[k] /\ g[k - 1] = f[k - 1]
        /\ \A k \in 1..(n + 1) : k \in 1..n \/ (k = n + 1 /\ k - 1 = n)
    OBVIOUS
  <2> HIDE DEF g
  <2>3. \A k \in 1..(n + 1) : g[k] = MoreIn(m, g[k - 1])
    <3> SUFFICES ASSUME NEW k \in 1..(n + 1) PROVE g[k] = MoreIn(m, g[k - 1])
      OBVIOUS
    <3>1. CASE k \in 1..n
      BY <2>1, <2>2, <3>1 DEF Rounds
    <3>2. CASE k = n + 1 /\ k - 1 = n
      BY <2>2, <3>2 DEF x
    <3> QED BY <2>2, <3>1, <3>2
  <2>4. Rounds(m, g, n + 1)
    BY <2>1, <2>2, <2>3 DEF Rounds
  <2> QED BY <2>4
<1> HIDE DEF T
<1>4. PICK f : Rounds(m, f, N)
  <2>1. N \in T
    BY <1>1, <1>2, <1>3, Induct
  <2> QED BY <2>1 DEF T
<1> DEFINE g == [k \in 0..N |-> f[k]]
           Right(h) == [k \in 0..N |-> IF k = 0 THEN FirstIn(m) ELSE MoreIn(m, h[k - 1])]
<1>5. g = Right(g)
  <2>1. ASSUME NEW k \in 0..N PROVE g[k] = Right(g)[k]
    <3>1. CASE k = 0
      BY <1>4, <3>1 DEF Rounds
    <3>2. CASE k # 0
      <4>1. k \in 1..N /\ k - 1 \in 0..N
        BY <1>1, <3>2
      <4>2. g[k] = f[k] /\ g[k - 1] = f[k - 1]
        BY <4>1
      <4>3. Right(g)[k] = MoreIn(m, g[k - 1])
        <5> HIDE DEF g
        <5> QED BY <3>2
      <4> HIDE DEF g, Right
      <4> QED BY <1>4, <4>1, <4>2, <4>3 DEF Rounds
    <3> QED BY <3>1, <3>2
  <2>2. DOMAIN g = 0..N /\ g = [k \in 0..N |-> g[k]]
    OBVIOUS
  <2>3. DOMAIN Right(g) = 0..N /\ Right(g) = [k \in 0..N |-> Right(g)[k]]
    <3> HIDE DEF g
    <3> QED OBVIOUS
  <2> HIDE DEF g, Right
  <2> QED BY <2>1, <2>2, <2>3
<1> HIDE DEF g
<1>6. RoundsIn(m) = CHOOSE h : h = Right(h)
  BY Zenon DEF RoundsIn, N
<1>7. RoundsIn(m) = Right(RoundsIn(m))
  <2> HIDE DEF Right
  <2> QED BY <1>5, <1>6, Zenon
<1> DEFINE h == RoundsIn(m)
<1> HIDE DEF h
<1>8. h = [k \in 0..N |-> IF k = 0 THEN FirstIn(m) ELSE MoreIn(m, h[k - 1])]
  BY <1>7, Zenon DEF h
<1>9. h[0] = FirstIn(m)
  BY <1>1, <1>8
<1>10. ASSUME NEW k \in 1..N PROVE h[k] = MoreIn(m, h[k - 1])
  <2>1. k \in 0..N /\ k # 0
    BY <1>1
  <2> QED BY <1>8, <2>1
<1> QED BY <1>9, <1>10 DEF Rounds, N, h

\* The values of m are texts.
HasTexts(m) == DOMAIN m \subseteq Names /\ \A n \in DOMAIN m : m[n].raw \in Text

\* One round.
LEMMA MoreIs ==
  ASSUME NEW m, HasTexts(m), NEW k, Knows(m, k)
  PROVE  /\ Grows(m, k, MoreIn(m, k))
         /\ \A n \in DOMAIN MoreIn(m, k) \ DOMAIN k :
              n \in DOMAIN m /\ Meant(m, k, m[n].raw) = Has(MoreIn(m, k)[n])
         /\ \A n \in DOMAIN m \ DOMAIN k :
              Meant(m, k, m[n].raw).is = "text" => n \in DOMAIN MoreIn(m, k)
<1> DEFINE M == [n \in DOMAIN m \ DOMAIN k |-> Meant(m, k, m[n].raw)]
           D == {x \in DOMAIN M : M[x].is = "text"}
           f == [n \in D |-> M[n].text]
           l == Over(f, k)
<1>1. MoreIn(m, k) = l
  BY DEF MoreIn
<1>2. \A n \in DOMAIN m \ DOMAIN k : M[n] \in Results /\ M[n] = Meant(m, k, m[n].raw)
  BY MeantTyped DEF HasTexts
<1>3. DOMAIN M = DOMAIN m \ DOMAIN k
  OBVIOUS
<1> HIDE DEF M
<1>4. DOMAIN f = D /\ \A n \in D : f[n] = M[n].text
  OBVIOUS
<1>5. D \subseteq DOMAIN m \ DOMAIN k /\ \A n \in DOMAIN m \ DOMAIN k : n \in D <=> M[n].is = "text"
  BY <1>3
<1>6. \A n \in D : M[n].text \in Text /\ M[n] = Has(M[n].text)
  BY <1>2, <1>5, ResultIs
<1> HIDE DEF f, D
<1>7. /\ DOMAIN l = DOMAIN f \cup DOMAIN k
      /\ \A n \in DOMAIN l : l[n] = IF n \in DOMAIN f THEN f[n] ELSE k[n]
  BY DEF Over
<1> HIDE DEF l
<1>8. \A n \in DOMAIN k : l[n] = k[n]
  BY <1>4, <1>5, <1>7
<1>9. \A n \in D : l[n] = M[n].text
  BY <1>4, <1>7
<1>10. Knows(m, l)
  BY <1>4, <1>5, <1>6, <1>7, <1>8, <1>9 DEF Knows
<1>11. Grows(m, k, l)
  BY <1>7, <1>8, <1>10 DEF Grows
<1>12. ASSUME NEW n \in DOMAIN l \ DOMAIN k
       PROVE  n \in DOMAIN m /\ Meant(m, k, m[n].raw) = Has(l[n])
  <2>1. n \in D
    BY <1>4, <1>7
  <2> QED BY <1>2, <1>5, <1>6, <1>9, <2>1
<1>13. ASSUME NEW n \in DOMAIN m \ DOMAIN k, Meant(m, k, m[n].raw).is = "text"
       PROVE  n \in DOMAIN l
  BY <1>2, <1>4, <1>5, <1>7, <1>13
<1> QED BY <1>1, <1>11, <1>12, <1>13

\* The first one.
LEMMA FirstRound ==
  ASSUME NEW m, HasTexts(m)
  PROVE  /\ Knows(m, FirstIn(m))
         /\ \A n \in DOMAIN m : n \in DOMAIN FirstIn(m) <=> ~ExpandsIn(m, n)
         /\ \A n \in DOMAIN FirstIn(m) : FirstIn(m)[n] = m[n].raw
BY DEF FirstIn, Knows, HasTexts

\* What is known only grows.
LEMMA GrowsOn ==
  ASSUME NEW m, NEW j, NEW k, NEW l, Grows(m, j, k), Grows(m, k, l)
  PROVE  Grows(m, j, l)
BY DEF Grows

\* Values are known because of what was known before.
Founded(m, k) ==
  \A n \in DOMAIN k : \/ ~ExpandsIn(m, n) /\ k[n] = m[n].raw
                      \/ ExpandsIn(m, n) /\ Meant(m, k, m[n].raw) = Has(k[n])

\* Nothing else can become known.
Closed(m, k) == \A n \in DOMAIN m \ DOMAIN k : Meant(m, k, m[n].raw).is # "text"

\* What a round that is not the last one leaves.
RoundRight(m, k) ==
  /\ Knows(m, k)
  /\ Grows(m, FirstIn(m), k)
  /\ Founded(m, k)

\* Every round preserves it.
LEMMA RoundKeeps ==
  ASSUME NEW m, HasTexts(m), NEW k, RoundRight(m, k)
  PROVE  RoundRight(m, MoreIn(m, k))
<1> DEFINE l == MoreIn(m, k)
<1>1. /\ Grows(m, k, l)
      /\ \A n \in DOMAIN l \ DOMAIN k : n \in DOMAIN m /\ Meant(m, k, m[n].raw) = Has(l[n])
  BY MoreIs DEF RoundRight
<1> HIDE DEF l
<1>2. Knows(m, l) /\ Knows(m, k)
  BY <1>1 DEF Grows
<1>3. Grows(m, FirstIn(m), l)
  BY <1>1, GrowsOn DEF RoundRight
<1>4. ASSUME NEW n \in DOMAIN m, NEW x, Meant(m, k, m[n].raw) = Has(x)
      PROVE  Meant(m, l, m[n].raw) = Has(x)
  <2>1. m[n].raw \in Text
    BY DEF HasTexts
  <2>2. ~Blocks(Meant(m, k, m[n].raw), DOMAIN l)
    BY <1>4 DEF Blocks, Has
  <2> QED BY <1>1, <1>4, <2>1, <2>2, MeantGrows
<1>5. ASSUME NEW n \in DOMAIN l
      PROVE  \/ ~ExpandsIn(m, n) /\ l[n] = m[n].raw
             \/ ExpandsIn(m, n) /\ Meant(m, l, m[n].raw) = Has(l[n])
  <2>1. CASE n \in DOMAIN k
    <3>1. l[n] = k[n] /\ n \in DOMAIN m
      BY <1>1, <2>1 DEF Grows, Knows
    <3>2. \/ ~ExpandsIn(m, n) /\ k[n] = m[n].raw
          \/ ExpandsIn(m, n) /\ Meant(m, k, m[n].raw) = Has(k[n])
      BY <2>1 DEF RoundRight, Founded
    <3> QED BY <1>4, <3>1, <3>2
  <2>2. CASE n \notin DOMAIN k
    <3>1. n \in DOMAIN m /\ Meant(m, k, m[n].raw) = Has(l[n])
      BY <1>1, <2>2
    <3>2. ExpandsIn(m, n)
      <4>1. n \notin DOMAIN FirstIn(m)
        BY <2>2 DEF RoundRight, Grows
      <4> QED BY <3>1, <4>1, FirstRound
    <3> QED BY <1>4, <3>1, <3>2
  <2> QED BY <2>1, <2>2
<1>6. Founded(m, l)
  BY <1>5 DEF Founded
<1> QED BY <1>2, <1>3, <1>6 DEF RoundRight, l

\* A round that adds nothing is the last one.
LEMMA LastRound ==
  ASSUME NEW m, HasTexts(m), NEW k, Knows(m, k), Closed(m, k),
         k = [n \in DOMAIN k |-> k[n]]
  PROVE  MoreIn(m, k) = k
<1> DEFINE M == [n \in DOMAIN m \ DOMAIN k |-> Meant(m, k, m[n].raw)]
           D == {x \in DOMAIN M : M[x].is = "text"}
           f == [n \in D |-> M[n].text]
<1>1. D = {}
  BY DEF Closed
<1>2. MoreIn(m, k) = Over(f, k)
  BY DEF MoreIn
<1>3. DOMAIN f = {}
  BY <1>1
<1> HIDE DEF f
<1>4. Over(f, k) = [n \in DOMAIN k |-> k[n]]
  BY <1>3 DEF Over
<1> QED BY <1>2, <1>4

\* A function and its values.
IsFunction(f) == f = [x \in DOMAIN f |-> f[x]]

\* Every round is right, and adds a name unless nothing can become known.
LEMMA RoundsAre ==
  ASSUME NEW m, HasTexts(m), NEW k \in Nat, k <= Cardinality(Names)
  PROVE  LET round == RoundsIn(m)[k]
         IN /\ RoundRight(m, round) /\ IsFunction(round)
            /\ Closed(m, round) \/ Cardinality(DOMAIN round) >= k
<1> DEFINE N == Cardinality(Names)
           h == RoundsIn(m)
           Right(j) == /\ RoundRight(m, h[j]) /\ IsFunction(h[j])
                       /\ Closed(m, h[j]) \/ Cardinality(DOMAIN h[j]) >= j
           T == {j \in Nat : j <= N => Right(j)}
<1>1. IsFiniteSet(Names) /\ N \in Nat
  BY NamesFinite
<1>2. h[0] = FirstIn(m) /\ \A j \in 1..N : h[j] = MoreIn(m, h[j - 1])
  BY RoundsExist DEF Rounds
<1> HIDE DEF h, N
<1>3. ASSUME NEW D, D \subseteq Names PROVE IsFiniteSet(D) /\ Cardinality(D) \in Nat
  BY <1>1, <1>3, FS_Subset, FS_CardinalityType
<1>4. 0 \in T
  <2>1. RoundRight(m, h[0])
    <3>1. /\ Knows(m, FirstIn(m))
          /\ \A n \in DOMAIN FirstIn(m) : FirstIn(m)[n] = m[n].raw /\ ~ExpandsIn(m, n)
      BY FirstRound DEF Knows
    <3> DEFINE z == FirstIn(m)
    <3> HIDE DEF z
    <3>2. RoundRight(m, z)
      BY <3>1 DEF RoundRight, Grows, Founded, z
    <3> QED BY <1>2, <3>2 DEF z
  <2>2. IsFunction(h[0])
    BY <1>2 DEF FirstIn, IsFunction
  <2>3. Cardinality(DOMAIN h[0]) >= 0
    <3>1. DOMAIN h[0] \subseteq Names
      BY <2>1 DEF RoundRight, Knows, HasTexts
    <3> DEFINE c == Cardinality(DOMAIN h[0])
    <3>2. c \in Nat
      BY <1>3, <3>1
    <3> HIDE DEF c
    <3>3. c >= 0
      BY <3>2
    <3> QED BY <3>3 DEF c
  <2> QED BY <2>1, <2>2, <2>3
<1>5. ASSUME NEW j \in Nat, j \in T PROVE j + 1 \in T
  <2> SUFFICES ASSUME j + 1 <= N PROVE Right(j + 1)
    OBVIOUS
  <2> DEFINE x == h[j]
             y == MoreIn(m, x)
             n == j + 1
  <2>1. /\ RoundRight(m, x) /\ IsFunction(x)
        /\ Closed(m, x) \/ Cardinality(DOMAIN x) >= j
    BY <1>1, <1>5
  <2>2. h[n] = y
    <3>1. n \in 1..N /\ n - 1 = j
      BY <1>1
    <3> HIDE DEF n
    <3> QED BY <1>2, <3>1
  <2> HIDE DEF n, x
  <2>3. RoundRight(m, y)
    BY <2>1, RoundKeeps
  <2>4. IsFunction(y)
    BY DEF MoreIn, Over, IsFunction
  <2>5. Closed(m, y) \/ Cardinality(DOMAIN y) >= n
    <3>1. CASE Closed(m, x)
      <4>1. y = x
        BY <2>1, <3>1, LastRound DEF RoundRight, IsFunction
      <4> QED BY <3>1, <4>1
    <3>2. CASE ~Closed(m, x)
      <4>1. PICK p \in DOMAIN m \ DOMAIN x : Meant(m, x, m[p].raw).is = "text"
        BY <3>2 DEF Closed
      <4>2. p \in DOMAIN y /\ DOMAIN x \subseteq DOMAIN y
        BY <2>1, <4>1, MoreIs DEF RoundRight, Grows
      <4> HIDE DEF y
      <4>3. DOMAIN y \subseteq Names
        BY <2>3 DEF RoundRight, Knows, HasTexts
      <4> DEFINE A == DOMAIN x
                 B == DOMAIN y
      <4>4. p \in B /\ p \notin A /\ A \subseteq B /\ B \subseteq Names /\ Cardinality(A) >= j
        BY <2>1, <3>2, <4>1, <4>2, <4>3
      <4> HIDE DEF A, B
      <4>5. /\ IsFiniteSet(A) /\ Cardinality(A) \in Nat
            /\ IsFiniteSet(B) /\ Cardinality(B) \in Nat
        BY <1>3, <4>4
      <4>6. A \cup {p} \subseteq B /\ Cardinality(A \cup {p}) = Cardinality(A) + 1
        BY <4>4, <4>5, FS_AddElement
      <4>7. Cardinality(A \cup {p}) <= Cardinality(B)
        BY <4>5, <4>6, FS_Subset
      <4>8. Cardinality(B) >= n
        BY <4>4, <4>5, <4>6, <4>7 DEF n
      <4> QED BY <4>8 DEF B
    <3> QED BY <3>1, <3>2
  <2> HIDE DEF y
  <2>6. Right(n)
    BY <2>2, <2>3, <2>4, <2>5
  <2> HIDE DEF Right
  <2> QED BY <2>6 DEF n
<1> HIDE DEF T
<1>6. k \in T
  BY <1>4, <1>5, Induct
<1>7. Right(k)
  <2> HIDE DEF Right
  <2> QED BY <1>6 DEF T, N
<1> QED BY <1>7 DEF h

\* What is known in the end: no more can become known, and all of it is known
\* because of the rest.
LEMMA KnownRight ==
  ASSUME NEW m, HasTexts(m)
  PROVE  LET K == KnownIn(m)
         IN /\ Knows(m, K) /\ IsFunction(K)
            /\ Grows(m, FirstIn(m), K)
            /\ Founded(m, K)
            /\ Closed(m, K)
<1> DEFINE N == Cardinality(Names)
           K == KnownIn(m)
<1>1. IsFiniteSet(Names) /\ N \in Nat /\ N <= N
  BY NamesFinite
<1>2. K = RoundsIn(m)[N]
  BY DEF KnownIn
<1> HIDE DEF K
<1>3. /\ RoundRight(m, K) /\ IsFunction(K)
      /\ Closed(m, K) \/ Cardinality(DOMAIN K) >= N
  BY <1>1, <1>2, RoundsAre
<1>4. Closed(m, K)
  <2>1. CASE Cardinality(DOMAIN K) >= N
    <3>1. DOMAIN K \subseteq Names /\ DOMAIN m \subseteq Names
      BY <1>3 DEF RoundRight, Knows, HasTexts
    <3> DEFINE D == DOMAIN K
    <3>2. D \subseteq Names /\ Cardinality(D) >= N
      BY <2>1, <3>1
    <3> HIDE DEF D
    <3>3. IsFiniteSet(D) /\ Cardinality(D) \in Nat /\ Cardinality(D) <= N
      BY <1>1, <3>2, FS_Subset, FS_CardinalityType
    <3>4. Cardinality(D) = N
      BY <1>1, <3>2, <3>3
    <3>5. D = Names
      BY <1>1, <3>2, <3>4, FS_Subset
    <3> QED BY <3>1, <3>5 DEF D, Closed
  <2> QED BY <1>3, <2>1
<1> QED BY <1>3, <1>4 DEF RoundRight, K

\* What is known in some round is known in the end.
LEMMA RoundsGrow ==
  ASSUME NEW m, HasTexts(m), NEW j \in Nat, j <= Cardinality(Names)
  PROVE  Grows(m, RoundsIn(m)[j], KnownIn(m))
<1> DEFINE N == Cardinality(Names)
           h == RoundsIn(m)
           K == KnownIn(m)
           T == {d \in Nat : d <= N => Grows(m, h[N - d], K)}
<1>1. N \in Nat
  BY NamesFinite
<1>2. \A i \in 1..N : h[i] = MoreIn(m, h[i - 1])
  BY RoundsExist DEF Rounds
<1>3. \A i \in 0..N : RoundRight(m, h[i])
  BY <1>1, RoundsAre
<1>4. K = h[N]
  BY DEF KnownIn
<1> HIDE DEF h, K, N
<1>5. 0 \in T
  <2>1. N - 0 = N /\ N \in 0..N
    BY <1>1
  <2>2. Grows(m, K, K)
    BY <1>3, <1>4, <2>1 DEF RoundRight, Grows
  <2> QED BY <1>4, <2>1, <2>2
<1>6. ASSUME NEW d \in Nat, d \in T PROVE d + 1 \in T
  <2> SUFFICES ASSUME d + 1 <= N PROVE Grows(m, h[N - (d + 1)], K)
    OBVIOUS
  <2> DEFINE i == N - d
             e == N - (d + 1)
  <2>1. i \in 1..N /\ i - 1 = e /\ e \in 0..N
    BY <1>1
  <2>2. Grows(m, h[i], K)
    BY <1>1, <1>6
  <2> HIDE DEF i, e
  <2>3. h[i] = MoreIn(m, h[e])
    BY <1>2, <2>1
  <2>4. Grows(m, h[e], h[i])
    BY <1>3, <2>1, <2>3, MoreIs DEF RoundRight
  <2>5. Grows(m, h[e], K)
    BY <2>2, <2>4, GrowsOn
  <2> QED BY <2>5 DEF e
<1> HIDE DEF T
<1>7. N - j \in T
  <2>1. N - j \in Nat
    BY <1>1 DEF N
  <2> QED BY <1>5, <1>6, <2>1, Induct
<1>8. N - j <= N /\ N - (N - j) = j
  BY <1>1
<1>9. Grows(m, h[j], K)
  BY <1>7, <1>8 DEF T
<1> QED BY <1>9 DEF h, K

\* Values that wait for each other never become known.
LEMMA NeverKnown ==
  ASSUME NEW m, HasTexts(m), NEW S, \A n \in S : n \in DOMAIN m /\ ExpandsIn(m, n),
         NEW k, Knows(m, k),
         \A n \in DOMAIN KnownIn(m) \ S : n \in DOMAIN k /\ k[n] = KnownIn(m)[n],
         \A n \in S : Meant(m, k, m[n].raw).is # "text"
  PROVE  S \cap DOMAIN KnownIn(m) = {}
<1> DEFINE N == Cardinality(Names)
           h == RoundsIn(m)
           K == KnownIn(m)
           T == {j \in Nat : j <= N => S \cap DOMAIN h[j] = {}}
<1>1. N \in Nat
  BY NamesFinite
<1>2. h[0] = FirstIn(m) /\ \A j \in 1..N : h[j] = MoreIn(m, h[j - 1])
  BY RoundsExist DEF Rounds
<1>3. K = h[N]
  BY DEF KnownIn
<1>4. \A j \in 0..N : Grows(m, h[j], K)
  BY <1>1, RoundsGrow
<1>5. \A n \in DOMAIN K \ S : n \in DOMAIN k /\ k[n] = K[n]
  OBVIOUS
<1> HIDE DEF h, K, N
<1>6. 0 \in T
  <2>1. S \cap DOMAIN FirstIn(m) = {}
    BY FirstRound
  <2> QED BY <1>2, <2>1
<1>7. ASSUME NEW j \in Nat, j \in T PROVE j + 1 \in T
  <2> SUFFICES ASSUME j + 1 <= N, NEW n \in S, n \in DOMAIN h[j + 1] PROVE FALSE
    OBVIOUS
  <2> DEFINE x == h[j]
             i == j + 1
             y == MoreIn(m, x)
  <2>1. i \in 1..N /\ i - 1 = j /\ j \in 0..N
    BY <1>1
  <2>2. S \cap DOMAIN x = {}
    BY <1>1, <1>7
  <2>3. Grows(m, x, K)
    BY <1>4, <2>1
  <2>4. n \in DOMAIN y
    <3> HIDE DEF i
    <3>1. h[i] = y
      BY <1>2, <2>1
    <3> QED BY <3>1 DEF i
  <2> HIDE DEF x, y, i
  <2>5. Meant(m, x, m[n].raw) = Has(y[n])
    <3>1. n \notin DOMAIN x /\ Knows(m, x)
      BY <2>2, <2>3 DEF Grows
    <3> QED BY <2>4, <3>1, MoreIs DEF y
  <2>6. Grows(m, x, k)
    BY <1>5, <2>2, <2>3 DEF Grows
  <2>7. ~Blocks(Meant(m, x, m[n].raw), DOMAIN k) /\ Meant(m, x, m[n].raw).is = "text"
    BY <2>5 DEF Blocks, Has
  <2>8. m[n].raw \in Text
    BY DEF HasTexts
  <2>9. Meant(m, k, m[n].raw) = Meant(m, x, m[n].raw)
    BY <2>6, <2>7, <2>8, MeantGrows
  <2> QED BY <2>7, <2>9
<1> HIDE DEF T
<1>8. N \in T
  BY <1>1, <1>6, <1>7, Induct
<1>9. S \cap DOMAIN K = {}
  <2>1. N <= N
    BY <1>1
  <2> QED BY <1>3, <1>8, <2>1 DEF T
<1> QED BY <1>9 DEF K

-----------------------------------------------------------------------------
(* The calls under way.                                                    *)

\* k has all that is final, and no value that is none.
Between(m, done, k) == Grows(m, done, k) /\ Grows(m, k, KnownIn(m))

\* What call i of s waits for.
Awaited(m, k, s, i) ==
  IF s[i].ref # {} THEN Answered(m, k, CHOOSE r \in s[i].ref : TRUE)
  ELSE IF i < Len(s) THEN Meant(m, k, s[i + 1].text)
  ELSE Has(<<>>)

\* The text of f means what it has put out, then w, then the rest.
GoesOn(m, k, f, w) ==
  Meant(m, k, f.text) = Then(Has(f.out), Then(w, Meant(m, k, From(f.text, f.next))))

\* Every call is on its way to what its text means, whatever else is known.
CallsMean(m, done, s) ==
  \A k : Between(m, done, k) =>
    \A i \in 1..Len(s) : GoesOn(m, k, s[i], Awaited(m, k, s, i))

\* A reference with one default at most.
Referable(r) == r.name \in Names /\ (r.default = {} \/ \E d \in Text : Single(r.default, d))

\* A call that waits for a reference, and none else, has called for its value; a
\* call for a default was made by one for the same value.
CallShaped(m, s, i) ==
  /\ s[i].owner \in DOMAIN m /\ ExpandsIn(m, s[i].owner)
  /\ s[i].next \in 1..(Len(s[i].text) + 1)
  /\ s[i].ref = {} \/ \E r : Single(s[i].ref, r) /\ Referable(r)
  /\ ~s[i].default => /\ s[i].text = m[s[i].owner].raw
                      /\ i > 1 => \E r : Single(s[i - 1].ref, r) /\ r.name = s[i].owner
  /\ s[i].default => i > 1 /\ s[i - 1].ref = {} /\ s[i - 1].owner = s[i].owner

CallsShaped(m, s) == \A i \in 1..Len(s) : CallShaped(m, s, i)

\* No value under way is final, and what is visited is under way.
CallsPending(done, s, v) ==
  /\ \A i \in 1..Len(s) : s[i].owner \notin DOMAIN done
  /\ \A p \in DOMAIN v : \E i \in 1..Len(s) : ~s[i].default /\ s[i].owner = v[p]

\* All of it; what is final is known.
Sound(m, done, s, v) ==
  /\ Grows(m, done, KnownIn(m))
  /\ CallsMean(m, done, s)
  /\ CallsShaped(m, s)
  /\ CallsPending(done, s, v)

\* A call and what belongs to it.
LEMMA FrameIs ==
  ASSUME NEW f \in Frame
  PROVE  f.text \in Text /\ f.out \in Text /\ f.owner \in Names /\ f.default \in BOOLEAN
  BY DEF Frame

\* The reference that is waited for.
LEMMA SingleIs ==
  ASSUME NEW ds, NEW d, Single(ds, d)
  PROVE  ds # {} /\ (CHOOSE x \in ds : TRUE) = d /\ \A e \in ds : e = d
<1>1. (CHOOSE x \in {d} : TRUE) = d /\ {d} # {}
  OBVIOUS
<1>2. \A e \in {d} : e = d
  OBVIOUS
<1> QED BY <1>1, <1>2, Zenon DEF Single

\* What it comes to.
LEMMA AnsweredResult ==
  ASSUME NEW m, NEW k, Knows(m, k), NEW r, Referable(r)
  PROVE  Answered(m, k, r) \in Results
<1>1. r.default = {} \/ \E d \in Text : Single(r.default, d) /\ Meant(m, k, d) \in Results
  BY MeantTyped DEF Referable
<1> QED BY <1>1, AnsweredTyped DEF Referable

\* What call i waits for is a result.
LEMMA AwaitedIs ==
  ASSUME NEW m, NEW k, Knows(m, k), NEW s \in Seq(Frame), CallsShaped(m, s),
         NEW i \in 1..Len(s)
  PROVE  /\ Awaited(m, k, s, i) \in Results
         /\ \A r : Single(s[i].ref, r) => Awaited(m, k, s, i) = Answered(m, k, r)
         /\ s[i].ref = {} /\ i < Len(s) => Awaited(m, k, s, i) = Meant(m, k, s[i + 1].text)
         /\ s[i].ref = {} /\ i = Len(s) => Awaited(m, k, s, i) = Has(<<>>)
<1>1. Len(s) \in Nat /\ \A j \in 1..Len(s) : s[j] \in Frame
  BY ElementOfSeq
<1>2. ASSUME NEW r, Single(s[i].ref, r)
      PROVE  Awaited(m, k, s, i) = Answered(m, k, r)
  <2>1. s[i].ref # {} /\ (CHOOSE x \in s[i].ref : TRUE) = r
    BY <1>2, SingleIs
  <2> QED BY <2>1 DEF Awaited
<1>3. CASE s[i].ref = {}
  <2>1. i < Len(s) => Awaited(m, k, s, i) = Meant(m, k, s[i + 1].text)
    BY <1>3 DEF Awaited
  <2>2. i = Len(s) => Awaited(m, k, s, i) = Has(<<>>)
    BY <1>1, <1>3 DEF Awaited
  <2>3. Awaited(m, k, s, i) \in Results
    <3>1. CASE i < Len(s)
      <4>1. i + 1 \in 1..Len(s)
        BY <1>1, <3>1
      <4>2. s[i + 1].text \in Text
        BY <1>1, <4>1, FrameIs
      <4> QED BY <2>1, <3>1, <4>2, MeantTyped
    <3>2. CASE i = Len(s)
      <4>1. <<>> \in Text
        BY DEF Text
      <4> QED BY <2>2, <3>2, <4>1 DEF Results
    <3> QED BY <1>1, <3>1, <3>2
  <2>4. \A r : ~Single(s[i].ref, r)
    BY <1>3, SingleIs
  <2> QED BY <2>1, <2>2, <2>3, <2>4
<1>4. CASE s[i].ref # {}
  <2>1. PICK r : Single(s[i].ref, r) /\ Referable(r)
    BY <1>4 DEF CallsShaped, CallShaped
  <2>2. Awaited(m, k, s, i) \in Results
    BY <1>2, <2>1, AnsweredResult
  <2> QED BY <1>2, <1>4, <2>2
<1> QED BY <1>3, <1>4

\* What stands in the way of what a call waits for stands in its own way.
LEMMA WaysBlocked ==
  ASSUME NEW m, NEW done, NEW k, Between(m, done, k), NEW s \in Seq(Frame),
         CallsShaped(m, s), CallsMean(m, done, s), NEW i \in 1..Len(s),
         Awaited(m, k, s, i).is # "text"
  PROVE  Meant(m, k, s[i].text) = Awaited(m, k, s, i)
<1> DEFINE w == Awaited(m, k, s, i)
           f == s[i]
           rest == Meant(m, k, From(f.text, f.next))
<1>1. Knows(m, k)
  BY DEF Between, Grows
<1>2. w \in Results
  BY <1>1, AwaitedIs
<1>3. Meant(m, k, f.text) = Then(Has(f.out), Then(w, rest))
  BY DEF CallsMean, GoesOn
<1>4. f \in Frame /\ f.next \in 1..(Len(f.text) + 1)
  BY ElementOfSeq DEF CallsShaped, CallShaped
<1>5. f.text \in Text /\ f.out \in Text
  BY <1>4, FrameIs
<1>6. rest \in Results
  <2>1. From(f.text, f.next) \in Text
    BY <1>4, <1>5, FromIs
  <2> QED BY <1>1, <2>1, MeantTyped
<1> DEFINE h == Has(f.out)
<1>7. h \in Results /\ h.is = "text"
  BY <1>5 DEF Results, Has
<1>8. w.is # "text"
  OBVIOUS
<1> HIDE DEF w, rest, h, f
<1>9. Then(w, rest) = w
  BY <1>2, <1>6, <1>8, ThenIs
<1>10. Then(h, w) = w
  BY <1>2, <1>7, <1>8, ThenIs
<1> QED BY <1>3, <1>9, <1>10 DEF w, h, f

\* A text without a meaning belongs to a value without a meaning.
LEMMA StuckIs ==
  ASSUME NEW m, HasTexts(m), NEW done, NEW s \in Seq(Frame), NEW v, Sound(m, done, s, v),
         s # <<>>, NEW a, a.is \notin {"text", "needs"},
         Meant(m, KnownIn(m), s[Len(s)].text) = a
  PROVE  \E n \in DOMAIN m \ DOMAIN KnownIn(m) : Meant(m, KnownIn(m), m[n].raw) = a
<1> DEFINE K == KnownIn(m)
           T == {i \in 1..Len(s) : Meant(m, K, s[i].text) = a}
<1>1. Len(s) \in Nat /\ Len(s) \in 1..Len(s)
  BY DEF Text
<1>2. Knows(m, K) /\ Founded(m, K)
  BY KnownRight
<1>3. Between(m, done, K)
  BY <1>2 DEF Between, Sound, Grows
<1>4. CallsShaped(m, s) /\ CallsMean(m, done, s)
  BY DEF Sound
<1> HIDE DEF K
<1>5. T \in SUBSET Nat /\ T # {}
  BY <1>1 DEF K
<1> HIDE DEF T
<1>6. PICK i \in T : \A j \in T : i <= j
  BY <1>5, Least
<1>7. i \in 1..Len(s) /\ Meant(m, K, s[i].text) = a
  BY <1>6 DEF T
<1>8. CallShaped(m, s, i)
  BY <1>4, <1>7 DEF CallsShaped
<1>9. ~s[i].default
  <2> SUFFICES ASSUME s[i].default PROVE FALSE
    OBVIOUS
  <2> DEFINE j == i - 1
  <2>1. j \in 1..Len(s) /\ j < Len(s) /\ j + 1 = i /\ j < i
    BY <1>1, <1>7, <1>8 DEF CallShaped
  <2>2. s[j].ref = {}
    BY <1>8 DEF CallShaped
  <2> HIDE DEF j
  <2>3. Awaited(m, K, s, j) = Meant(m, K, s[i].text)
    BY <1>2, <1>4, <2>1, <2>2, AwaitedIs
  <2>4. Awaited(m, K, s, j).is # "text"
    BY <1>7, <2>3
  <2>5. Meant(m, K, s[j].text) = a
    BY <1>3, <1>4, <1>7, <2>1, <2>3, <2>4, WaysBlocked
  <2>6. j \in T
    BY <2>1, <2>5 DEF T
  <2> QED BY <1>1, <1>6, <2>1, <2>6
<1> DEFINE n == s[i].owner
<1>10. n \in DOMAIN m /\ ExpandsIn(m, n) /\ s[i].text = m[n].raw
  BY <1>8, <1>9 DEF CallShaped
<1> HIDE DEF n
<1>11. n \notin DOMAIN K
  <2> SUFFICES ASSUME n \in DOMAIN K PROVE FALSE
    OBVIOUS
  <2>1. Meant(m, K, m[n].raw) = Has(K[n])
    BY <1>2, <1>10 DEF Founded
  <2> QED BY <1>7, <1>10, <2>1 DEF Has
<1> QED BY <1>7, <1>10, <1>11 DEF K

\* Calls that wait for each other belong to values that wait for each other.
LEMMA CycleIs ==
  ASSUME NEW m, HasTexts(m), NEW done, NEW s \in Seq(Frame), NEW v, Sound(m, done, s, v),
         NEW j \in 1..Len(s), ~s[j].default,
         NEW r, Single(s[Len(s)].ref, r), r.name = s[j].owner
  PROVE  \E S : /\ S # {} /\ S \subseteq DOMAIN m \ DOMAIN KnownIn(m)
                /\ \A n \in S : LET a == Meant(m, KnownIn(m), m[n].raw)
                                IN a.is = "needs" /\ a.name \in S
<1> DEFINE K == KnownIn(m)
           S == {s[i].owner : i \in {i \in j..Len(s) : ~s[i].default}}
           k == [n \in DOMAIN K \ S |-> K[n]]
           N == Len(s)
           Waits(i) == LET a == Meant(m, k, s[i].text) IN a.is = "needs" /\ a.name \in S
           T == {d \in Nat : d <= N - j => Waits(N - d)}
<1>1. N \in Nat /\ N \in 1..N /\ j \in 1..N
  OBVIOUS
<1>2. Knows(m, K) /\ IsFunction(K)
  BY KnownRight
<1>3. CallsShaped(m, s) /\ CallsMean(m, done, s) /\ Grows(m, done, K) /\ CallsPending(done, s, v)
  BY DEF Sound
<1>4. \A n \in S : \E i \in j..N : ~s[i].default /\ n = s[i].owner
  OBVIOUS
<1>5. \A i \in j..N : ~s[i].default => s[i].owner \in S
  OBVIOUS
<1>6. DOMAIN k = DOMAIN K \ S /\ \A n \in DOMAIN k : k[n] = K[n]
  OBVIOUS
<1>7. r.name \in S
  <2>1. j \in j..N
    BY <1>1
  <2> QED BY <1>5, <2>1
<1> HIDE DEF K, S, k, N
<1>8. \A n \in S : n \notin DOMAIN done /\ n \in DOMAIN m /\ ExpandsIn(m, n)
  <2> SUFFICES ASSUME NEW n \in S
               PROVE  n \notin DOMAIN done /\ n \in DOMAIN m /\ ExpandsIn(m, n)
    OBVIOUS
  <2>1. PICK i \in j..N : ~s[i].default /\ n = s[i].owner
    BY <1>4
  <2>2. i \in 1..Len(s)
    BY <1>1, <2>1 DEF N
  <2> QED BY <1>3, <2>1, <2>2 DEF CallsPending, CallsShaped, CallShaped
<1>9. Between(m, done, k)
  <2>1. Knows(m, k)
    BY <1>2, <1>6 DEF Knows
  <2>2. Grows(m, k, K)
    BY <1>2, <1>6, <2>1 DEF Grows
  <2>3. \A n \in DOMAIN done : n \in DOMAIN k /\ k[n] = done[n]
    BY <1>3, <1>6, <1>8 DEF Grows
  <2>4. Grows(m, done, k)
    BY <1>3, <2>1, <2>3 DEF Grows
  <2> QED BY <2>2, <2>4 DEF Between, K
<1>10. Knows(m, k)
  BY <1>9 DEF Between, Grows
<1>11. ASSUME NEW q, q.name \in S
       PROVE  Answered(m, k, q) = [is |-> "needs", name |-> q.name]
  <2>1. q.name \in DOMAIN m /\ q.name \notin DOMAIN k
    BY <1>6, <1>8, <1>11
  <2> QED BY <1>10, <2>1, AnsweredIs
<1>12. ASSUME NEW i \in j..N, LET w == Awaited(m, k, s, i) IN w.is = "needs" /\ w.name \in S
       PROVE  Waits(i)
  <2>1. i \in 1..Len(s)
    BY <1>1 DEF N
  <2>2. Awaited(m, k, s, i).is # "text"
    BY <1>12
  <2>3. Meant(m, k, s[i].text) = Awaited(m, k, s, i)
    BY <1>3, <1>9, <2>1, <2>2, WaysBlocked
  <2> QED BY <1>12, <2>3
<1>13. ASSUME NEW i \in j..N, NEW q, Single(s[i].ref, q), q.name \in S PROVE Waits(i)
  <2>1. i \in 1..Len(s)
    BY <1>1 DEF N
  <2>2. Awaited(m, k, s, i) = Answered(m, k, q)
    BY <1>3, <1>10, <1>13, <2>1, AwaitedIs
  <2>3. Answered(m, k, q) = [is |-> "needs", name |-> q.name]
    BY <1>11, <1>13
  <2> HIDE DEF Waits
  <2> QED BY <1>12, <1>13, <2>2, <2>3
<1>14. 0 \in T
  <2>1. N \in j..N /\ N - 0 = N
    BY <1>1
  <2>2. Single(s[N].ref, r)
    BY DEF N
  <2>3. Waits(N)
    <3> HIDE DEF Waits
    <3> QED BY <1>7, <1>13, <2>1, <2>2
  <2> HIDE DEF Waits
  <2> QED BY <2>1, <2>3
<1>15. ASSUME NEW d \in Nat, d \in T PROVE d + 1 \in T
  <2> SUFFICES ASSUME d + 1 <= N - j PROVE Waits(N - (d + 1))
    OBVIOUS
  <2> DEFINE i == N - d
             h == N - (d + 1)
  <2>1. /\ i \in 1..N /\ i \in j..N /\ h \in j..N /\ h \in 1..N /\ h < N
        /\ h + 1 = i /\ i - 1 = h /\ i > 1
    BY <1>1
  <2>2. Waits(i)
    BY <1>1, <1>15
  <2> HIDE DEF i, h
  <2>3. CallShaped(m, s, i)
    BY <1>3, <2>1 DEF CallsShaped, N
  <2>4. CASE s[i].default
    <3>1. s[h].ref = {}
      BY <2>1, <2>3, <2>4 DEF CallShaped
    <3>2. Awaited(m, k, s, h) = Meant(m, k, s[i].text)
      BY <1>3, <1>10, <2>1, <3>1, AwaitedIs DEF N
    <3>3. Waits(h)
      BY <1>12, <2>1, <2>2, <3>2
    <3> HIDE DEF Waits
    <3> QED BY <3>3 DEF h
  <2>5. CASE ~s[i].default
    <3>1. PICK q : Single(s[h].ref, q) /\ q.name = s[i].owner
      BY <2>1, <2>3, <2>5 DEF CallShaped
    <3>2. q.name \in S
      BY <1>5, <2>1, <2>5, <3>1
    <3> HIDE DEF Waits
    <3>3. Waits(h)
      BY <1>13, <2>1, <3>1, <3>2
    <3> QED BY <3>3 DEF h
  <2> QED BY <2>4, <2>5
<1> HIDE DEF T
<1>16. ASSUME NEW i \in j..N PROVE Waits(i)
  <2> HIDE DEF Waits
  <2>1. N - i \in Nat /\ N - i <= N - j /\ N - (N - i) = i
    BY <1>1
  <2>2. N - i \in T
    BY <1>14, <1>15, <2>1, Induct
  <2> QED BY <2>1, <2>2 DEF T
<1>17. \A n \in S : LET a == Meant(m, k, m[n].raw) IN a.is = "needs" /\ a.name \in S
  <2> SUFFICES ASSUME NEW n \in S
               PROVE  LET a == Meant(m, k, m[n].raw) IN a.is = "needs" /\ a.name \in S
    OBVIOUS
  <2>1. PICK i \in j..N : ~s[i].default /\ n = s[i].owner
    BY <1>4
  <2>2. i \in 1..Len(s)
    BY <1>1, <2>1 DEF N
  <2>3. s[i].text = m[n].raw
    BY <1>3, <2>1, <2>2 DEF CallsShaped, CallShaped
  <2> QED BY <1>16, <2>1, <2>3
<1>18. S \cap DOMAIN K = {}
  <2>1. \A n \in S : Meant(m, k, m[n].raw).is # "text"
    BY <1>17
  <2>2. \A n \in DOMAIN K \ S : n \in DOMAIN k /\ k[n] = K[n]
    BY <1>6
  <2> QED BY <1>8, <1>10, <2>1, <2>2, NeverKnown DEF K
<1>19. k = K
  <2>1. DOMAIN K \ S = DOMAIN K
    BY <1>18
  <2>2. k = [n \in DOMAIN K |-> K[n]]
    BY <2>1 DEF k
  <2> QED BY <1>2, <2>2 DEF IsFunction
<1>20. S # {} /\ S \subseteq DOMAIN m \ DOMAIN K
  BY <1>7, <1>8, <1>18
<1> QED BY <1>17, <1>19, <1>20 DEF K

\* Whose value a call is for, and what it is to expand.
SameCall(f, g) == f.owner = g.owner /\ f.default = g.default /\ f.text = g.text

\* How far a call has come.
Placed(f) ==
  /\ f.next \in 1..(Len(f.text) + 1)
  /\ f.ref = {} \/ \E r : Single(f.ref, r) /\ Referable(r)

\* Calls that were made in the same way are shaped in the same way.
LEMMA ShapedAlike ==
  ASSUME NEW m, NEW s, NEW t, NEW i, CallShaped(m, s, i), SameCall(t[i], s[i]), Placed(t[i]),
         i > 1 => t[i - 1] = s[i - 1]
  PROVE  CallShaped(m, t, i)
<1> DEFINE f == s[i]
           g == t[i]
           e == s[i - 1]
           d == t[i - 1]
<1>1. /\ f.owner \in DOMAIN m /\ ExpandsIn(m, f.owner)
      /\ ~f.default => /\ f.text = m[f.owner].raw
                       /\ i > 1 => \E r : Single(e.ref, r) /\ r.name = f.owner
      /\ f.default => i > 1 /\ e.ref = {} /\ e.owner = f.owner
  BY Zenon DEF CallShaped
<1>2. g.owner = f.owner /\ g.default = f.default /\ g.text = f.text
  BY DEF SameCall
<1>3. i > 1 => d = e
  OBVIOUS
<1>4. Placed(g)
  OBVIOUS
<1> HIDE DEF f, g, e, d
<1>5. g.owner \in DOMAIN m /\ ExpandsIn(m, g.owner)
  BY <1>1, <1>2, Zenon
<1>6. ~g.default => /\ g.text = m[g.owner].raw
                    /\ i > 1 => \E r : Single(d.ref, r) /\ r.name = g.owner
  BY <1>1, <1>2, <1>3, Zenon
<1>7. g.default => i > 1 /\ d.ref = {} /\ d.owner = g.owner
  BY <1>1, <1>2, <1>3, Zenon
<1> QED BY <1>4, <1>5, <1>6, <1>7, Zenon DEF CallShaped, Placed, g, d

\* The innermost call goes on or calls have returned: what remains is sound if
\* the innermost call is.
LEMMA CallsGoOn ==
  ASSUME NEW m, NEW done, NEW s \in Seq(Frame), NEW v, Sound(m, done, s, v),
         NEW t \in Seq(Frame), NEW u, Len(t) <= Len(s),
         \A i \in 1..Len(t) : i < Len(t) => t[i] = s[i],
         t # <<>> => /\ SameCall(t[Len(t)], s[Len(t)]) /\ Placed(t[Len(t)])
                     /\ \A k : Between(m, done, k) =>
                          GoesOn(m, k, t[Len(t)], Awaited(m, k, t, Len(t))),
         \A p \in DOMAIN u : \E i \in 1..Len(t) : ~t[i].default /\ t[i].owner = u[p]
  PROVE  Sound(m, done, t, u)
<1> DEFINE n == Len(t)
<1>1. n \in Nat /\ Len(s) \in Nat /\ n <= Len(s) /\ (n # 0 => t # <<>>)
  OBVIOUS
<1>2. \A i \in 1..n : i \in 1..Len(s) /\ (i < n => t[i] = s[i])
  BY <1>1
<1>3. n # 0 => /\ SameCall(t[n], s[n]) /\ Placed(t[n])
               /\ \A k : Between(m, done, k) => GoesOn(m, k, t[n], Awaited(m, k, t, n))
  BY <1>1
<1> HIDE DEF n
<1>4. ASSUME NEW i \in 1..n PROVE SameCall(t[i], s[i])
  <2>1. i < n \/ (i = n /\ n # 0)
    BY <1>1
  <2> QED BY <1>2, <1>3, <2>1 DEF SameCall
<1>5. ASSUME NEW k, Between(m, done, k), NEW i \in 1..n
      PROVE  GoesOn(m, k, t[i], Awaited(m, k, t, i))
  <2>1. CASE i = n
    <3>1. n # 0
      BY <1>1, <2>1
    <3> QED BY <1>3, <1>5, <2>1, <3>1
  <2>2. CASE i # n
    <3>1. i < n /\ i < Len(s) /\ i + 1 \in 1..n
      BY <1>1, <2>2
    <3> DEFINE j == i + 1
    <3>2. t[i] = s[i] /\ t[j].text = s[j].text
      BY <1>2, <1>4, <3>1 DEF SameCall
    <3> HIDE DEF j
    <3>3. Awaited(m, k, t, i) = Awaited(m, k, s, i)
      BY <3>1, <3>2 DEF Awaited, n, j
    <3>4. GoesOn(m, k, s[i], Awaited(m, k, s, i))
      BY <1>2, <1>5 DEF Sound, CallsMean
    <3> QED BY <3>2, <3>3, <3>4
  <2> QED BY <2>1, <2>2
<1>6. CallsMean(m, done, t)
  BY <1>5 DEF CallsMean, n
<1>7. ASSUME NEW i \in 1..n PROVE CallShaped(m, t, i)
  <2>1. CallShaped(m, s, i)
    BY <1>2 DEF Sound, CallsShaped
  <2>2. Placed(t[i])
    <3>1. CASE i < n
      BY <1>2, <2>1, <3>1 DEF CallShaped, Placed
    <3>2. CASE i = n /\ n # 0
      BY <1>3, <3>2
    <3> QED BY <1>1, <3>1, <3>2
  <2>3. i > 1 => t[i - 1] = s[i - 1]
    BY <1>1, <1>2
  <2> QED BY <1>4, <2>1, <2>2, <2>3, ShapedAlike
<1>8. CallsShaped(m, t)
  BY <1>7 DEF CallsShaped, n
<1>9. \A i \in 1..n : t[i].owner \notin DOMAIN done
  BY <1>2, <1>4 DEF Sound, CallsPending, SameCall
<1>10. CallsPending(done, t, u)
  BY <1>9 DEF CallsPending, n
<1> QED BY <1>6, <1>8, <1>10 DEF Sound

\* The innermost call of s waits, in t, for what it waited for.
StillWaits(m, done, s, t) ==
  s # <<>> => /\ SameCall(t[Len(s)], s[Len(s)]) /\ Placed(t[Len(s)])
              /\ t[Len(s)].out = s[Len(s)].out /\ t[Len(s)].next = s[Len(s)].next
              /\ \A k : Between(m, done, k) =>
                   Awaited(m, k, t, Len(s)) = Awaited(m, k, s, Len(s))

\* What is visited was before, except for the value of the new call.
Visits(u, v, x, b) == \A p \in DOMAIN u : (p \in DOMAIN v /\ u[p] = v[p]) \/ (~b /\ u[p] = x)

\* A call more: the one that makes it waits for what it waited for.
LEMMA CallMade ==
  ASSUME NEW m, NEW done, NEW s \in Seq(Frame), NEW v, Sound(m, done, s, v),
         NEW t \in Seq(Frame), NEW u, Len(t) = Len(s) + 1,
         \A i \in 1..Len(s) : i < Len(s) => t[i] = s[i],
         StillWaits(m, done, s, t),
         NEW x, NEW text \in Text, NEW b, t[Len(t)] = NewFrame(x, text, b),
         CallShaped(m, t, Len(t)), x \notin DOMAIN done,
         Visits(u, v, x, b)
  PROVE  Sound(m, done, t, u)
<1> DEFINE n == Len(s)
           e == Len(t)
<1>1. n \in Nat /\ e = n + 1 /\ e \in 1..e /\ (n # 0 => s # <<>>)
  OBVIOUS
<1>2. \A i \in 1..n : i < n => t[i] = s[i]
  OBVIOUS
<1>3. n # 0 => /\ SameCall(t[n], s[n]) /\ Placed(t[n])
               /\ t[n].out = s[n].out /\ t[n].next = s[n].next
               /\ \A k : Between(m, done, k) => Awaited(m, k, t, n) = Awaited(m, k, s, n)
  BY <1>1 DEF StillWaits
<1>4. /\ t[e].owner = x /\ t[e].default = b /\ t[e].text = text /\ t[e].next = 1
      /\ t[e].out = <<>> /\ t[e].ref = {}
  BY DEF NewFrame
<1>5. CallShaped(m, t, e)
  OBVIOUS
<1>6. \A i \in 1..e : i \in 1..n \/ i = e
  BY <1>1
<1> HIDE DEF n, e
<1>7. ASSUME NEW i \in 1..n PROVE SameCall(t[i], s[i])
  <2>1. i < n \/ (i = n /\ n # 0)
    BY <1>1
  <2> QED BY <1>2, <1>3, <2>1 DEF SameCall
<1>8. ASSUME NEW k, Between(m, done, k), NEW i \in 1..n
      PROVE  GoesOn(m, k, t[i], Awaited(m, k, t, i))
  <2>1. GoesOn(m, k, s[i], Awaited(m, k, s, i))
    BY <1>8 DEF Sound, CallsMean, n
  <2>2. CASE i = n /\ n # 0
    <3>1. Awaited(m, k, t, n) = Awaited(m, k, s, n)
      BY <1>3, <1>8, <2>2
    <3> QED BY <1>3, <2>1, <2>2, <3>1 DEF GoesOn, SameCall
  <2>3. CASE i < n
    <3> DEFINE j == i + 1
    <3>1. i < e /\ j \in 1..n
      BY <1>1, <2>3
    <3>2. t[i] = s[i] /\ t[j].text = s[j].text
      BY <1>2, <1>7, <2>3, <3>1 DEF SameCall
    <3> HIDE DEF j
    <3>3. Awaited(m, k, t, i) = Awaited(m, k, s, i)
      BY <2>3, <3>1, <3>2 DEF Awaited, n, e, j
    <3> QED BY <2>1, <3>2, <3>3
  <2> QED BY <1>1, <2>2, <2>3
<1>9. ASSUME NEW k, Between(m, done, k) PROVE GoesOn(m, k, t[e], Awaited(m, k, t, e))
  <2>1. Awaited(m, k, t, e) = Has(<<>>)
    BY <1>1, <1>4 DEF Awaited, e
  <2>2. From(text, 1) = text
    BY DEF From, Text
  <2>3. Meant(m, k, text) \in Results
    BY <1>9, MeantTyped DEF Between, Grows
  <2>4. Then(Has(<<>>), Meant(m, k, text)) = Meant(m, k, text)
    BY <2>3, ThenIs
  <2> QED BY <1>4, <2>1, <2>2, <2>4, Zenon DEF GoesOn
<1>10. CallsMean(m, done, t)
  <2>1. \A k : Between(m, done, k) => \A i \in 1..e : GoesOn(m, k, t[i], Awaited(m, k, t, i))
    BY <1>6, <1>8, <1>9, Zenon
  <2> QED BY <2>1 DEF CallsMean, e
<1>11. ASSUME NEW i \in 1..n PROVE CallShaped(m, t, i)
  <2>1. CallShaped(m, s, i)
    BY DEF Sound, CallsShaped, n
  <2>2. Placed(t[i])
    <3>1. CASE i < n
      BY <1>2, <2>1, <3>1 DEF CallShaped, Placed
    <3>2. CASE i = n /\ n # 0
      BY <1>3, <3>2
    <3> QED BY <1>1, <3>1, <3>2
  <2>3. i > 1 => t[i - 1] = s[i - 1]
    BY <1>1, <1>2
  <2> QED BY <1>7, <2>1, <2>2, <2>3, ShapedAlike
<1>12. CallsShaped(m, t)
  <2>1. \A i \in 1..e : CallShaped(m, t, i)
    BY <1>5, <1>6, <1>11, Zenon
  <2> QED BY <2>1 DEF CallsShaped, e
<1>13. /\ \A i \in 1..n : s[i].owner \notin DOMAIN done
       /\ \A p \in DOMAIN v : \E i \in 1..n : ~s[i].default /\ s[i].owner = v[p]
  BY DEF Sound, CallsPending, n
<1>14. \A i \in 1..n : i \in 1..e
  BY <1>1
<1>15. \A i \in 1..e : t[i].owner \notin DOMAIN done
  BY <1>4, <1>6, <1>7, <1>13 DEF SameCall
<1>16. ASSUME NEW p \in DOMAIN u PROVE \E i \in 1..e : ~t[i].default /\ t[i].owner = u[p]
  <2>1. (p \in DOMAIN v /\ u[p] = v[p]) \/ (~b /\ u[p] = x)
    BY DEF Visits
  <2>2. CASE p \in DOMAIN v /\ u[p] = v[p]
    <3>1. PICK i \in 1..n : ~s[i].default /\ s[i].owner = v[p]
      BY <1>13, <2>2
    <3> QED BY <1>7, <1>14, <2>2, <3>1 DEF SameCall
  <2>3. CASE ~b /\ u[p] = x
    <3>1. e \in 1..e
      BY <1>1
    <3> QED BY <1>4, <2>3, <3>1
  <2> QED BY <2>1, <2>2, <2>3
<1>17. CallsPending(done, t, u)
  BY <1>15, <1>16 DEF CallsPending, e
<1> QED BY <1>10, <1>12, <1>17 DEF Sound

\* Of x, which has the value y, more is known than before.
Added(more, done, x, y) ==
  /\ DOMAIN more = DOMAIN done \cup {x}
  /\ more[x] = y
  /\ \A n \in DOMAIN done : more[n] = done[n]

\* One value more is final, as what it is known to be; no call is for it.
LEMMA ValueMade ==
  ASSUME NEW m, NEW done, NEW s, NEW v, Sound(m, done, s, v),
         NEW x, x \in DOMAIN KnownIn(m), \A i \in 1..Len(s) : s[i].owner # x,
         NEW more, Added(more, done, x, KnownIn(m)[x])
  PROVE  Sound(m, more, s, v)
<1> DEFINE K == KnownIn(m)
<1>1. Grows(m, done, K)
  BY DEF Sound
<1>2. /\ DOMAIN more = DOMAIN done \cup {x} /\ more[x] = K[x] /\ x \in DOMAIN K
      /\ \A n \in DOMAIN done : more[n] = done[n]
  BY DEF Added
<1> HIDE DEF K
<1>3. \A n \in DOMAIN more : n \in DOMAIN K /\ more[n] = K[n]
  BY <1>1, <1>2 DEF Grows
<1>4. Knows(m, more)
  BY <1>1, <1>3 DEF Grows, Knows
<1>5. Grows(m, more, K)
  BY <1>1, <1>3, <1>4 DEF Grows
<1>6. Grows(m, done, more)
  BY <1>1, <1>2, <1>4 DEF Grows
<1>7. \A k : Between(m, more, k) => Between(m, done, k)
  BY <1>6, GrowsOn DEF Between
<1>8. CallsMean(m, more, s)
  BY <1>7 DEF Sound, CallsMean
<1>9. CallsPending(more, s, v)
  BY <1>2 DEF Sound, CallsPending
<1> QED BY <1>5, <1>8, <1>9 DEF Sound, K

\* Behind every call for a default is one for the value that has it.
LEMMA ValueBehind ==
  ASSUME NEW m, NEW s \in Seq(Frame), CallsShaped(m, s), NEW i \in 1..Len(s)
  PROVE  \E j \in 1..i : ~s[j].default /\ s[j].owner = s[i].owner
<1> DEFINE T == {j \in 1..i : s[j].owner = s[i].owner}
<1>1. T \in SUBSET Nat /\ T # {}
  <2>1. i \in T
    OBVIOUS
  <2> QED BY <2>1
<1> HIDE DEF T
<1>2. PICK j \in T : \A h \in T : j <= h
  BY <1>1, Least
<1>3. j \in 1..i /\ s[j].owner = s[i].owner
  BY <1>2 DEF T
<1>4. ~s[j].default
  <2> SUFFICES ASSUME s[j].default PROVE FALSE
    OBVIOUS
  <2>1. j \in 1..Len(s)
    BY <1>3
  <2>2. j > 1 /\ s[j - 1].owner = s[j].owner
    BY <2>1 DEF CallsShaped, CallShaped
  <2>3. j - 1 \in T /\ j - 1 < j
    BY <1>3, <2>2 DEF T
  <2> QED BY <1>2, <1>3, <2>3
<1> QED BY <1>3, <1>4

\* The innermost call has come to the end of its text.
Done(f) == f.ref = {} /\ f.next > Len(f.text)

\* What it has put out is what its text means.
LEMMA EndIs ==
  ASSUME NEW m, NEW done, NEW s \in Seq(Frame), NEW v, Sound(m, done, s, v), s # <<>>,
         Done(s[Len(s)]), NEW k, Between(m, done, k)
  PROVE  Meant(m, k, s[Len(s)].text) = Has(s[Len(s)].out)
<1> DEFINE n == Len(s)
           f == s[n]
<1>1. n \in 1..Len(s) /\ f \in Frame
  <2>1. n \in 1..Len(s)
    OBVIOUS
  <2> QED BY <2>1, ElementOfSeq
<1>2. f.text \in Text /\ f.out \in Text
  BY <1>1, FrameIs
<1>3. Knows(m, k)
  BY DEF Between, Grows
<1>4. CallsShaped(m, s) /\ f.ref = {} /\ f.next > Len(f.text)
  BY DEF Sound, Done
<1>5. Awaited(m, k, s, n) = Has(<<>>)
  BY <1>1, <1>3, <1>4, AwaitedIs
<1>6. f.next = Len(f.text) + 1
  <2>1. f.next \in 1..(Len(f.text) + 1)
    BY <1>1, <1>4 DEF CallsShaped, CallShaped
  <2>2. Len(f.text) \in Nat
    BY <1>2 DEF Text
  <2> QED BY <1>4, <2>1, <2>2
<1>7. GoesOn(m, k, f, Has(<<>>))
  BY <1>1, <1>5 DEF Sound, CallsMean
<1>8. Meant(m, k, From(f.text, f.next)) = Has(<<>>)
  BY <1>2, <1>6, EndMeans
<1>9. Has(f.out) \in Results
  BY <1>2 DEF Results
<1>10. Then(Has(f.out), Then(Has(<<>>), Has(<<>>))) = Has(f.out)
  <2>1. Has(<<>>) \in Results
    BY <1>9, ThenIs
  <2>2. Then(Has(<<>>), Has(<<>>)) = Has(<<>>)
    BY <2>1, ThenIs
  <2>3. Then(Has(f.out), Has(<<>>)) = Has(f.out)
    BY <1>9, ThenIs
  <2> QED BY <2>2, <2>3
<1> QED BY <1>7, <1>8, <1>10, Zenon DEF GoesOn, n, f

\* A value returns.
LEMMA ValueReturns ==
  ASSUME NEW m, HasTexts(m), NEW done, NEW s \in Seq(Frame), NEW v, Sound(m, done, s, v),
         s # <<>>, Done(s[Len(s)]), ~s[Len(s)].default,
         NEW t \in Seq(Frame), Len(t) = Len(s) - 1, \A i \in 1..Len(t) : t[i] = s[i],
         \A i \in 1..Len(t) : ~s[i].default => s[i].owner # s[Len(s)].owner,
         NEW u, \A p \in DOMAIN u : \E i \in 1..Len(t) : ~s[i].default /\ s[i].owner = u[p],
         NEW more, Added(more, done, s[Len(s)].owner, s[Len(s)].out)
  PROVE  Sound(m, more, t, u)
<1> DEFINE K == KnownIn(m)
           e == Len(s)
           n == Len(t)
           x == s[e].owner
<1>1. e \in 1..e /\ n \in Nat /\ n < e /\ n + 1 = e /\ \A i \in 1..n : i \in 1..e
  OBVIOUS
<1>2. Knows(m, K) /\ Founded(m, K) /\ Closed(m, K)
  BY KnownRight
<1>3. Between(m, done, K)
  BY <1>2 DEF Between, Sound, Grows
<1>4. CallsShaped(m, s)
  BY DEF Sound
<1>5. x \in DOMAIN m /\ ExpandsIn(m, x) /\ s[e].text = m[x].raw
  BY <1>1, <1>4 DEF CallsShaped, CallShaped
<1>6. Meant(m, K, s[e].text) = Has(s[e].out)
  BY <1>3, EndIs
<1>7. x \in DOMAIN K
  BY <1>2, <1>5, <1>6 DEF Closed, Has
<1>8. K[x] = s[e].out
  <2>1. Meant(m, K, m[x].raw) = Has(K[x])
    BY <1>2, <1>5, <1>7 DEF Founded
  <2>2. \A y, z : Has(y) = Has(z) => y = z
    BY DEF Has
  <2> QED BY <1>5, <1>6, <2>1, <2>2
<1>9. \A i \in 1..n : t[i].owner # x
  <2> SUFFICES ASSUME NEW i \in 1..n, s[i].owner = x PROVE FALSE
    OBVIOUS
  <2>1. PICK j \in 1..i : ~s[j].default /\ s[j].owner = x
    <3>1. i \in 1..Len(s)
      BY <1>1
    <3>2. \E j \in 1..i : ~s[j].default /\ s[j].owner = s[i].owner
      BY <1>4, <3>1, ValueBehind
    <3> QED BY <3>2
  <2>2. j \in 1..n
    BY <1>1, <2>1
  <2> QED BY <2>1, <2>2
<1>10. Sound(m, done, t, u)
  <2>1. Len(t) <= Len(s) /\ \A i \in 1..Len(t) : i < Len(t) => t[i] = s[i]
    BY <1>1
  <2>2. ASSUME t # <<>>
        PROVE  /\ SameCall(t[n], s[n]) /\ Placed(t[n])
               /\ \A k : Between(m, done, k) => GoesOn(m, k, t[n], Awaited(m, k, t, n))
    <3>1. n \in 1..n /\ n \in 1..e /\ e > 1 /\ e - 1 = n
      BY <1>1, <2>2
    <3>2. t[n] = s[n]
      BY <3>1
    <3>3. SameCall(t[n], s[n])
      BY <3>2 DEF SameCall
    <3>4. Placed(t[n])
      BY <1>4, <3>1, <3>2 DEF CallsShaped, CallShaped, Placed
    <3>5. PICK r : Single(s[n].ref, r)
      BY <1>1, <1>4, <3>1 DEF CallsShaped, CallShaped
    <3>6. s[n].ref # {}
      BY <3>5, SingleIs
    <3>7. \A k : Awaited(m, k, t, n) = Awaited(m, k, s, n)
      BY <3>2, <3>6 DEF Awaited
    <3>8. ASSUME NEW k, Between(m, done, k) PROVE GoesOn(m, k, t[n], Awaited(m, k, t, n))
      <4>1. GoesOn(m, k, s[n], Awaited(m, k, s, n))
        BY <3>1, <3>8 DEF Sound, CallsMean
      <4> QED BY <3>2, <3>7, <4>1
    <3> QED BY <3>3, <3>4, <3>8
  <2>3. \A p \in DOMAIN u : \E i \in 1..Len(t) : ~t[i].default /\ t[i].owner = u[p]
    OBVIOUS
  <2> QED BY <2>1, <2>2, <2>3, CallsGoOn
<1>11. x \in DOMAIN KnownIn(m) /\ Added(more, done, x, KnownIn(m)[x])
  BY <1>7, <1>8
<1>12. \A i \in 1..Len(t) : t[i].owner # x
  BY <1>9
<1> HIDE DEF K, e, n, x
<1> QED BY <1>10, <1>11, <1>12, ValueMade, Zenon

\* A default returns: its caller has it in its place.
LEMMA DefaultReturns ==
  ASSUME NEW m, NEW done, NEW s \in Seq(Frame), NEW v, Sound(m, done, s, v),
         s # <<>>, Done(s[Len(s)]), s[Len(s)].default,
         NEW t \in Seq(Frame), Len(t) = Len(s) - 1,
         \A i \in 1..Len(t) : i < Len(t) => t[i] = s[i],
         LET f == s[Len(s) - 1]
             g == t[Len(s) - 1]
         IN /\ SameCall(g, f) /\ g.next = f.next /\ g.ref = f.ref
            /\ g.out = f.out \o s[Len(s)].out
  PROVE  Sound(m, done, t, v)
<1> DEFINE e == Len(s)
           n == Len(t)
           f == s[n]
           g == t[n]
           d == s[e]
<1>1. CallsShaped(m, s) /\ CallsPending(done, s, v)
  BY DEF Sound
<1>2. e \in 1..e /\ e > 1 /\ f.ref = {}
  <2>1. e \in 1..Len(s) /\ e - 1 = n
    OBVIOUS
  <2> QED BY <1>1, <2>1 DEF CallsShaped, CallShaped
<1>3. n \in 1..n /\ n \in 1..e /\ n < e /\ n + 1 = e /\ e - 1 = n
  BY <1>2
<1>4. SameCall(g, f) /\ g.next = f.next /\ g.ref = {} /\ g.out = f.out \o d.out
  BY <1>2, <1>3
<1>5. f \in Frame /\ d \in Frame
  BY <1>2, <1>3, ElementOfSeq
<1>6. f.text \in Text /\ f.out \in Text /\ d.out \in Text
  BY <1>5, FrameIs
<1>7. f.next \in 1..(Len(f.text) + 1)
  BY <1>1, <1>3 DEF CallsShaped, CallShaped
<1>8. Placed(g)
  BY <1>4, <1>7 DEF Placed, SameCall
<1>9. ASSUME NEW k, Between(m, done, k) PROVE GoesOn(m, k, g, Awaited(m, k, t, n))
  <2> DEFINE rest == Meant(m, k, From(f.text, f.next))
             a == Has(f.out)
             b == Has(d.out)
  <2>1. Knows(m, k)
    BY <1>9 DEF Between, Grows
  <2>2. Awaited(m, k, s, n) = Meant(m, k, d.text)
    BY <1>1, <1>2, <1>3, <2>1, AwaitedIs
  <2>3. Meant(m, k, d.text) = b
    BY <1>9, EndIs
  <2>4. Meant(m, k, f.text) = Then(a, Then(b, rest))
    BY <1>3, <1>9, <2>2, <2>3 DEF Sound, CallsMean, GoesOn
  <2>5. Awaited(m, k, t, n) = Has(<<>>)
    BY <1>4 DEF Awaited
  <2>6. rest \in Results
    <3>1. From(f.text, f.next) \in Text
      BY <1>6, <1>7, FromIs
    <3> QED BY <2>1, <3>1, MeantTyped
  <2>7. a \in Results /\ b \in Results
    BY <1>6 DEF Results
  <2>8. Has(g.out) = Then(a, b)
    BY <1>4 DEF Then, Has
  <2>9. Meant(m, k, g.text) = Meant(m, k, f.text) /\ Meant(m, k, From(g.text, g.next)) = rest
    BY <1>4 DEF SameCall
  <2> HIDE DEF rest, a, b, g, f, d
  <2>10. Then(Then(a, b), rest) = Then(a, Then(b, rest))
    BY <2>6, <2>7, ThenIs
  <2>11. Then(Has(<<>>), rest) = rest
    BY <2>6, ThenIs
  <2> QED BY <2>4, <2>5, <2>8, <2>9, <2>10, <2>11 DEF GoesOn
<1>10. \A i \in 1..n : SameCall(t[i], s[i])
  BY <1>3, <1>4 DEF SameCall
<1>11. ASSUME NEW p \in DOMAIN v PROVE \E i \in 1..n : ~t[i].default /\ t[i].owner = v[p]
  <2>1. PICK i \in 1..e : ~s[i].default /\ s[i].owner = v[p]
    BY <1>1 DEF CallsPending
  <2>2. i \in 1..n
    <3>1. i # e
      BY <2>1
    <3> QED BY <1>3, <2>1, <3>1
  <2> QED BY <1>10, <2>1, <2>2 DEF SameCall
<1>12. Len(t) <= Len(s)
  BY <1>3
<1> QED BY <1>4, <1>8, <1>9, <1>11, <1>12, CallsGoOn

-----------------------------------------------------------------------------
(* Every step keeps the calls on their way.                                *)

\* The places where t opens a reference.
Openings(t) == {i \in 1..Len(t) : t[i] = "${"}

\* What is copied of t from i on, up to token k, opens no reference.
LEMMA PlainAt ==
  ASSUME NEW t \in Text, NEW i \in 1..Len(t)
  PROVE  \E k \in i..(Len(t) + 1) :
           /\ Plain(From(t, i)) = SubSeq(t, i, k - 1) /\ Len(Plain(From(t, i))) = k - i
           /\ \A j \in i..(k - 1) : t[j] # "${"
<1> DEFINE u == From(t, i)
           I == Openings(u)
<1>1. /\ Len(t) \in Nat /\ u \in Text /\ Len(u) = Len(t) + 1 - i /\ Len(u) \in Nat
      /\ \A m \in 1..Len(u) : u[m] = t[i + m - 1]
  <2>1. Len(t) \in Nat /\ i \in 1..(Len(t) + 1)
    BY DEF Text
  <2>2. /\ u \in Text /\ Len(u) = Len(t) + 1 - i
        /\ \A m \in 1..(Len(t) + 1 - i) : u[m] = t[i + m - 1]
    BY <2>1, FromIs
  <2>3. Len(t) + 1 - i \in Nat
    BY <2>1
  <2> HIDE DEF u
  <2> QED BY <2>1, <2>2, <2>3
<1>2. \/ I = {} /\ Plain(u) = u
      \/ I # {} /\ Plain(u) = SubSeq(u, 1, Min(I) - 1)
  <2> HIDE DEF u
  <2>1. I \in SUBSET (1..Len(u)) /\ Len(u) \in Nat
    BY <1>1 DEF Openings
  <2>2. ASSUME I # {} PROVE Min(I) # 0
    <3> HIDE DEF I
    <3>1. Min(I) \in I
      BY <2>1, <2>2, FirstAndLast
    <3> QED BY <2>1, <3>1
  <2> QED BY <2>2, Zenon DEF Plain, SelectInSeq, Openings
<1>3. I \in SUBSET (1..Len(u))
  <2> HIDE DEF u
  <2> QED BY DEF Openings
<1>4. \A j \in 1..Len(u) : j \notin I => u[j] # "${"
  <2> HIDE DEF u
  <2> QED BY Zenon DEF Openings
<1>5. ASSUME NEW k \in i..(Len(t) + 1), \A m \in 1..Len(u) : i + m - 1 < k => m \notin I
      PROVE  \A j \in i..(k - 1) : t[j] # "${"
  <2> SUFFICES ASSUME NEW j \in i..(k - 1) PROVE t[j] # "${"
    OBVIOUS
  <2> DEFINE m == j + 1 - i
  <2>1. m \in 1..Len(u) /\ i + m - 1 = j /\ j < k
    <3> HIDE DEF u, I
    <3> QED BY <1>1
  <2> HIDE DEF m, u, I
  <2>2. u[m] = t[j] /\ m \notin I
    BY <1>1, <1>5, <2>1
  <2>3. u[m] # "${"
    BY <1>4, <2>1, <2>2, Zenon
  <2> QED BY <2>2, <2>3, Zenon
<1> SUFFICES \E k \in i..(Len(t) + 1) :
               /\ Plain(u) = SubSeq(t, i, k - 1) /\ Len(Plain(u)) = k - i
               /\ \A m \in 1..Len(u) : i + m - 1 < k => m \notin I
  <2> HIDE DEF I
  <2> QED BY <1>5, Zenon DEF u
<1>6. CASE I = {} /\ Plain(u) = u
  <2> DEFINE k == Len(t) + 1
  <2>1. k \in i..(Len(t) + 1) /\ Len(u) = k - i /\ k - 1 = Len(t)
    <3> HIDE DEF u
    <3> QED BY <1>1
  <2>2. Plain(u) = SubSeq(t, i, k - 1)
    BY <1>6, <2>1 DEF From
  <2>3. Len(Plain(u)) = k - i
    <3> HIDE DEF u, k
    <3> QED BY <1>6, <2>1
  <2>4. \A m \in 1..Len(u) : m \notin I
    <3> HIDE DEF u, I
    <3> QED BY <1>6
  <2> HIDE DEF k, u, I
  <2> QED BY <2>1, <2>2, <2>3, <2>4
<1>7. CASE I # {} /\ Plain(u) = SubSeq(u, 1, Min(I) - 1)
  <2> DEFINE p == Min(I)
             k == i + p - 1
             x == SubSeq(u, 1, p - 1)
             y == SubSeq(t, i, k - 1)
  <2> HIDE DEF I, u
  <2>1. p \in 1..Len(u) /\ \A m \in I : p <= m
    <3>1. I \in SUBSET Nat /\ I # {}
      BY <1>1, <1>3, <1>7
    <3>2. \E n \in I : \A m \in I : n <= m
      BY <3>1, Least
    <3> QED BY <1>3, <3>2 DEF Min
  <2> HIDE DEF p
  <2>2. k \in i..(Len(t) + 1) /\ k - i = p - 1 /\ k - 1 \in (i - 1)..Len(t) /\ k - 1 + 1 - i = p - 1
    BY <1>1, <2>1
  <2>3. x \in Text /\ Len(x) = p - 1 /\ \A m \in 1..(p - 1) : x[m] = u[m]
    <3>1. 1 \in 1..(Len(u) + 1) /\ p - 1 \in (1 - 1)..Len(u) /\ p - 1 + 1 - 1 = p - 1
      BY <1>1, <2>1
    <3>2. u \in Seq(Token)
      BY <1>1 DEF Text
    <3>3. x \in Seq(Token) /\ Len(x) = p - 1
      BY <3>1, <3>2, Part
    <3>4. \A m \in 1..(p - 1) : x[m] = u[m]
      BY <3>1, <3>2
    <3> QED BY <3>3, <3>4 DEF Text
  <2>4. y \in Text /\ Len(y) = p - 1 /\ \A m \in 1..(p - 1) : y[m] = t[i + m - 1]
    <3>1. i \in 1..(Len(t) + 1) /\ t \in Seq(Token)
      BY <1>1 DEF Text
    <3> HIDE DEF k
    <3>2. y \in Seq(Token) /\ Len(y) = p - 1
      BY <2>2, <3>1, Part
    <3>3. \A m \in 1..(k - 1 + 1 - i) : y[m] = t[i + m - 1]
      BY <2>2, <3>1
    <3> QED BY <2>2, <3>2, <3>3 DEF Text
  <2> HIDE DEF x, y
  <2>5. \A m \in 1..(p - 1) : u[m] = t[i + m - 1]
    BY <1>1, <2>1
  <2>6. x = y
    BY <2>3, <2>4, <2>5, SameText
  <2>7. Plain(u) = y /\ Len(Plain(u)) = k - i
    BY <1>7, <2>2, <2>3, <2>6 DEF x, p
  <2>8. \A m \in 1..Len(u) : i + m - 1 < k => m \notin I
    BY <1>1, <2>1
  <2> HIDE DEF k
  <2> QED BY <2>2, <2>7, <2>8 DEF y
<1> QED BY <1>2, <1>6, <1>7, Zenon

\* What f waits for, as the innermost call.
WaitsFor(m, k, f) ==
  IF f.ref # {} THEN Answered(m, k, CHOOSE r \in f.ref : TRUE) ELSE Has(<<>>)

\* It does.
LEMMA TopWaits ==
  ASSUME NEW m, NEW k, NEW s \in Seq(Frame)
  PROVE  Awaited(m, k, s, Len(s)) = WaitsFor(m, k, s[Len(s)])
<1> DEFINE n == Len(s)
           f == s[n]
           a == Answered(m, k, CHOOSE r \in f.ref : TRUE)
           b == Meant(m, k, s[n + 1].text)
<1>1. ~(n < n)
  OBVIOUS
<1>2. Awaited(m, k, s, n) = IF f.ref # {} THEN a ELSE IF n < n THEN b ELSE Has(<<>>)
  BY Zenon DEF Awaited
<1>3. WaitsFor(m, k, f) = IF f.ref # {} THEN a ELSE Has(<<>>)
  BY Zenon DEF WaitsFor
<1> HIDE DEF a, b, f, n
<1>4. Awaited(m, k, s, n) = WaitsFor(m, k, f)
  BY <1>1, <1>2, <1>3
<1> QED BY <1>4 DEF f, n

\* While values are resolved, every call is on its way.
CallsRight == Resolving => Sound(map, memo, stack, visiting)

\* What the types say of the map, the calls and what is final.
LEMMA TypesAre ==
  ASSUME TypeOK
  PROVE  /\ HasTexts(map)
         /\ stack \in Seq(Frame) /\ Len(stack) \in Nat
         /\ \A n \in DOMAIN memo : memo[n] \in Text
  BY MapsTyped DEF IsMap, Entry, HasTexts

\* The innermost call.
LEMMA TopIs ==
  ASSUME TypeOK, CallsRight, Resolving, stack # <<>>
  PROVE  /\ Len(stack) \in 1..Len(stack) /\ Top = stack[Len(stack)]
         /\ Top \in Frame /\ Top.text \in Text /\ Top.out \in Text
         /\ Top.owner \in DOMAIN map /\ ExpandsIn(map, Top.owner)
         /\ Top.next \in 1..(Len(Top.text) + 1) /\ Len(Top.text) \in Nat
         /\ \A r \in Top.ref : Single(Top.ref, r) /\ Referable(r)
         /\ Top.owner \notin DOMAIN memo
<1>1. Top \in Frame /\ Len(stack) \in Nat \ {0} /\ Len(stack) \in 1..Len(stack)
  BY TopTyped
<1>2. Top.text \in Text /\ Top.out \in Text
  BY <1>1, FrameIs
<1>3. Len(Top.text) \in Nat
  BY <1>2 DEF Text
<1>4. Sound(map, memo, stack, visiting)
  BY DEF CallsRight
<1>5. CallShaped(map, stack, Len(stack)) /\ Top.owner \notin DOMAIN memo
  BY <1>1, <1>4 DEF Sound, CallsShaped, CallsPending, Top
<1>6. ASSUME NEW r \in Top.ref PROVE Single(Top.ref, r) /\ Referable(r)
  <2>1. PICK q : Single(Top.ref, q) /\ Referable(q)
    BY <1>5, <1>6 DEF CallShaped, Top
  <2>2. r = q
    BY <1>6, <2>1, SingleIs
  <2> QED BY <2>1, <2>2
<1> QED BY <1>1, <1>2, <1>3, <1>5, <1>6 DEF CallShaped, Top

\* It goes on.
LEMMA TopGoes ==
  ASSUME TypeOK, TypeOK', CallsRight, Resolving, stack # <<>>, NEW f, TopBecomes(f),
         UNCHANGED <<map, memo, visiting>>, SameCall(f, Top), Placed(f),
         \A k : Between(map, memo, k) => GoesOn(map, k, f, WaitsFor(map, k, f))
  PROVE  Sound(map, memo, stack', visiting)
<1> DEFINE t == stack'
           n == Len(stack)
<1>1. Sound(map, memo, stack, visiting) /\ stack \in Seq(Frame) /\ n \in Nat \ {0}
  BY TypesAre, TopTyped DEF CallsRight
<1>2. t = [stack EXCEPT ![n] = f]
  BY DEF TopBecomes
<1>3. t \in Seq(Frame)
  BY DEF TypeOK
<1> HIDE DEF t
<1>4. Len(t) = n /\ \A i \in 1..n : t[i] = IF i = n THEN f ELSE stack[i]
  BY <1>1, <1>2
<1>5. t[n] = f /\ n \in 1..n
  BY <1>1, <1>4
<1>6. SameCall(t[Len(t)], stack[Len(t)]) /\ Placed(t[Len(t)])
  BY <1>4, <1>5 DEF Top
<1>7. \A k : Between(map, memo, k) => GoesOn(map, k, t[Len(t)], Awaited(map, k, t, Len(t)))
  <2>1. \A k : Awaited(map, k, t, Len(t)) = WaitsFor(map, k, t[Len(t)])
    BY <1>3, TopWaits
  <2> QED BY <1>4, <1>5, <2>1
<1>8. \A p \in DOMAIN visiting : \E i \in 1..Len(t) : ~t[i].default /\ t[i].owner = visiting[p]
  <2> SUFFICES ASSUME NEW p \in DOMAIN visiting
               PROVE  \E i \in 1..n : ~t[i].default /\ t[i].owner = visiting[p]
    BY <1>4
  <2>1. PICK i \in 1..n : ~stack[i].default /\ stack[i].owner = visiting[p]
    BY <1>1 DEF Sound, CallsPending
  <2>2. SameCall(t[i], stack[i])
    BY <1>4 DEF SameCall, Top
  <2> QED BY <2>1, <2>2 DEF SameCall
<1>9. Len(t) <= Len(stack) /\ \A i \in 1..Len(t) : i < Len(t) => t[i] = stack[i]
  BY <1>1, <1>4
<1>10. Sound(map, memo, t, visiting)
  BY <1>1, <1>3, <1>6, <1>7, <1>8, <1>9, CallsGoOn
<1> QED BY <1>10 DEF t

\* It waits for its reference, or for nothing.
LEMMA WaitsAre ==
  ASSUME NEW m, NEW k, NEW f
  PROVE  /\ f.ref = {} => WaitsFor(m, k, f) = Has(<<>>)
         /\ \A r : Single(f.ref, r) => WaitsFor(m, k, f) = Answered(m, k, r)
<1> DEFINE ref == f.ref
<1>1. WaitsFor(m, k, f) =
        IF ref # {} THEN Answered(m, k, CHOOSE r \in ref : TRUE) ELSE Has(<<>>)
  BY Zenon DEF WaitsFor
<1>2. ASSUME NEW r, Single(ref, r)
      PROVE  WaitsFor(m, k, f) = Answered(m, k, r)
  <2>1. ref # {} /\ (CHOOSE x \in ref : TRUE) = r
    BY <1>2, SingleIs
  <2> HIDE DEF ref
  <2> QED BY <1>1, <2>1, Zenon
<1>3. ref = {} => WaitsFor(m, k, f) = Has(<<>>)
  <2> HIDE DEF ref
  <2> QED BY <1>1, Zenon
<1> QED BY <1>2, <1>3

\* The innermost call is on its way.
LEMMA TopMeans ==
  ASSUME TypeOK, CallsRight, Resolving, stack # <<>>, NEW k, Between(map, memo, k)
  PROVE  /\ Knows(map, k)
         /\ Meant(map, k, Top.text) =
              Then(Has(Top.out), Then(WaitsFor(map, k, Top),
                                      Meant(map, k, From(Top.text, Top.next))))
         /\ Meant(map, k, From(Top.text, Top.next)) \in Results
<1>1. Sound(map, memo, stack, visiting) /\ stack \in Seq(Frame)
  BY TypesAre DEF CallsRight
<1>2. Knows(map, k)
  BY DEF Between, Grows
<1>3. Len(stack) \in 1..Len(stack) /\ Top = stack[Len(stack)]
  BY TopIs
<1>4. GoesOn(map, k, stack[Len(stack)], Awaited(map, k, stack, Len(stack)))
  BY <1>1, <1>3 DEF Sound, CallsMean
<1>5. GoesOn(map, k, Top, WaitsFor(map, k, Top))
  BY <1>1, <1>3, <1>4, TopWaits
<1>6. Top.text \in Text /\ Top.next \in 1..(Len(Top.text) + 1)
  BY TopIs
<1>7. From(Top.text, Top.next) \in Text
  BY <1>6, FromIs
<1> QED BY <1>2, <1>5, <1>7, MeantTyped DEF GoesOn

\* What has been put out grows by what comes next.
LEMMA OutGrows ==
  ASSUME NEW x \in Text, NEW y \in Text, NEW a \in Results
  PROVE  Then(Has(x), Then(Has(y), a)) = Then(Has(x \o y), Then(Has(<<>>), a))
<1>1. Has(x) \in Results /\ Has(y) \in Results
  BY DEF Results
<1>2. Then(Has(x), Has(y)) = Has(x \o y)
  BY DEF Then, Has
<1>3. Then(Then(Has(x), Has(y)), a) = Then(Has(x), Then(Has(y), a))
  BY <1>1, ThenIs
<1>4. Then(Has(<<>>), a) = a
  BY ThenIs
<1> QED BY <1>2, <1>3, <1>4

\* Plain text stands for itself.
LEMMA CopySound ==
  ASSUME TypeOK, TypeOK', CallsRight, Copy
  PROVE  Sound(map, memo, stack', visiting)
<1> DEFINE t == Top.text
           i == Top.next
           plain == Plain(From(t, i))
           f == [[Top EXCEPT !.out = @ \o plain] EXCEPT !.next = @ + Len(plain)]
<1>1. /\ Resolving /\ stack # <<>> /\ Top.ref = {} /\ i <= Len(t)
      /\ UNCHANGED <<map, memo, visiting>>
  BY Zenon DEF Copy, Scanning
<1>2. Top \in Frame /\ t \in Text /\ Top.out \in Text /\ i \in 1..(Len(t) + 1) /\ Len(t) \in Nat
  BY <1>1, TopIs
<1>3. TopBecomes(f)
  <2>1. f = [Top EXCEPT !.out = @ \o plain, !.next = @ + Len(plain)]
    BY <1>2 DEF Frame
  <2>2. TopBecomes([Top EXCEPT !.out = @ \o plain, !.next = @ + Len(plain)])
    BY Zenon DEF Copy, From
  <2> QED BY <2>1, <2>2
<1> HIDE DEF plain
<1>4. /\ f.owner = Top.owner /\ f.default = Top.default /\ f.text = t
      /\ f.next = i + Len(plain) /\ f.out = Top.out \o plain /\ f.ref = {}
  BY <1>1, <1>2 DEF Frame
<1> HIDE DEF f
<1>5. PICK k \in i..(Len(t) + 1) : /\ plain = SubSeq(t, i, k - 1) /\ Len(plain) = k - i
                                   /\ \A j \in i..(k - 1) : t[j] # "${"
  <2> HIDE DEF t, i
  <2>1. i \in 1..Len(t)
    BY <1>1, <1>2
  <2> QED BY <1>2, <2>1, PlainAt DEF plain
<1>6. plain \in Text /\ f.next = k
  <2> HIDE DEF t, i
  <2>1. t \in Seq(Token) /\ k - 1 \in (i - 1)..Len(t)
    BY <1>2 DEF Text
  <2>2. plain \in Seq(Token)
    BY <1>2, <1>5, <2>1, Part
  <2>3. i + (k - i) = k
    BY <1>2
  <2> QED BY <1>4, <1>5, <2>2, <2>3 DEF Text
<1>7. Placed(f)
  <2> HIDE DEF t, i
  <2>1. k \in 1..(Len(t) + 1)
    BY <1>2
  <2> QED BY <1>4, <1>6, <2>1 DEF Placed
<1>8. SameCall(f, Top)
  BY <1>4 DEF SameCall
<1>9. ASSUME NEW known, Between(map, memo, known)
      PROVE  GoesOn(map, known, f, WaitsFor(map, known, f))
  <2> DEFINE a == Meant(map, known, From(t, i))
             b == Meant(map, known, From(t, k))
             whole == Meant(map, known, t)
  <2>1. Knows(map, known) /\ whole = Then(Has(Top.out), Then(WaitsFor(map, known, Top), a))
    BY <1>1, <1>9, TopMeans
  <2>2. WaitsFor(map, known, Top) = Has(<<>>) /\ WaitsFor(map, known, f) = Has(<<>>)
    BY <1>1, <1>4, WaitsAre
  <2>3. k \in 1..(Len(t) + 1)
    <3> HIDE DEF t, i
    <3> QED BY <1>2
  <2>4. PlainUpTo(map, known, t, i, k)
    <3> SUFFICES ASSUME NEW j \in i..(k - 1)
                 PROVE  Meant(map, known, From(t, j)) =
                          Then(Has(<<t[j]>>), Meant(map, known, From(t, j + 1)))
      BY Zenon DEF PlainUpTo
    <3>1. t[j] # "${"
      BY <1>5, Zenon
    <3>2. j \in 1..Len(t)
      <4> HIDE DEF t, i
      <4> QED BY <1>2
    <3> HIDE DEF t, i
    <3> QED BY <1>2, <3>1, <3>2, PlainMeans, Zenon
  <2> HIDE DEF t, i
  <2>5. a = Then(Has(plain), b)
    BY <1>2, <1>5, <2>1, <2>4, PrefixMeans
  <2>6. b \in Results
    <3>1. From(t, k) \in Text
      BY <1>2, <2>3, FromIs
    <3> QED BY <2>1, <3>1, MeantTyped
  <2>7. GoesOn(map, known, f, WaitsFor(map, known, f)) <=>
          whole = Then(Has(f.out), Then(Has(<<>>), b))
    BY <1>4, <1>6, <2>2, Zenon DEF GoesOn, t
  <2> HIDE DEF a, b, whole
  <2>8. a \in Results
    <3>1. Has(plain) \in Results
      BY <1>6 DEF Results
    <3> QED BY <2>5, <2>6, <3>1, ThenIs
  <2>9. Then(Has(<<>>), a) = a
    BY <2>8, ThenIs
  <2>10. whole = Then(Has(Top.out), Then(Has(plain), b))
    BY <2>1, <2>2, <2>5, <2>9
  <2>11. whole = Then(Has(Top.out \o plain), Then(Has(<<>>), b))
    BY <1>2, <1>6, <2>6, <2>10, OutGrows
  <2> QED BY <1>4, <2>7, <2>11
<1> QED BY <1>1, <1>3, <1>7, <1>8, <1>9, TopGoes

\* A reference is waited for.
LEMMA ReferSound ==
  ASSUME TypeOK, TypeOK', CallsRight, Refer, phase' = phase
  PROVE  Sound(map, memo, stack', visiting)
<1> DEFINE t == Top.text
           i == Top.next
           found == References(t, i)
<1>1. Resolving /\ stack # <<>> /\ Top.ref = {} /\ i <= Len(t)
  BY Zenon DEF Refer, Scanning
<1>2. t[i] = "${"
  BY Zenon DEF Refer
<1>3. Top \in Frame /\ t \in Text /\ Top.out \in Text /\ i \in 1..(Len(t) + 1) /\ Len(t) \in Nat
  BY <1>1, TopIs
<1>4. i \in 1..Len(t)
  <2> HIDE DEF t, i
  <2> QED BY <1>1, <1>3
<1>5. ~Fail("malformed")
  BY <1>1 DEF Fail, Resolving
<1>6. PICK r \in found : TopBecomes([Top EXCEPT !.ref = {r}, !.next = r.next])
  BY <1>5, Zenon DEF Refer
<1>7. UNCHANGED <<map, memo, visiting>>
  BY <1>5, Zenon DEF Refer
<1>8. Single(found, r) /\ Inside(t, i, r)
  <2>1. PICK q : Single(found, q) /\ Inside(t, i, q)
    <3>1. found = {} \/ \E q : Single(found, q) /\ Inside(t, i, q)
      <4> HIDE DEF t, i
      <4> QED BY <1>2, <1>3, <1>4, OpensOne, Zenon
    <3> HIDE DEF found, t, i
    <3> QED BY <1>6, <3>1
  <2> HIDE DEF found, t, i
  <2>2. r = q
    BY <1>6, <2>1, SingleIs
  <2> QED BY <2>1, <2>2
<1> DEFINE g == [Top EXCEPT !.ref = {r}]
           f == [g EXCEPT !.next = r.next]
<1>9. TopBecomes(f)
  <2>1. f = [Top EXCEPT !.ref = {r}, !.next = r.next]
    OBVIOUS
  <2> QED BY <1>6, <2>1
<1>10. /\ f.owner = Top.owner /\ f.default = Top.default /\ f.text = t
       /\ f.next = r.next /\ f.out = Top.out /\ f.ref = {r}
  BY <1>3 DEF Frame
<1> HIDE DEF f
<1>11. Single(f.ref, r)
  BY <1>10 DEF Single
<1>12. Placed(f)
  <2>1. r.next \in 1..(Len(t) + 1)
    <3> HIDE DEF t, i
    <3> QED BY <1>3, <1>8 DEF Inside
  <2>2. Referable(r)
    BY <1>8 DEF Inside, Referable
  <2> QED BY <1>10, <1>11, <2>1, <2>2 DEF Placed
<1>13. SameCall(f, Top)
  BY <1>10 DEF SameCall
<1>14. ASSUME NEW known, Between(map, memo, known)
       PROVE  GoesOn(map, known, f, WaitsFor(map, known, f))
  <2> DEFINE a == Meant(map, known, From(t, i))
             whole == Meant(map, known, t)
  <2>1. whole = Then(Has(Top.out), Then(WaitsFor(map, known, Top), a)) /\ a \in Results
    BY <1>1, <1>14, TopMeans
  <2>2. WaitsFor(map, known, Top) = Has(<<>>)
    BY <1>1, WaitsAre
  <2>3. WaitsFor(map, known, f) = Answered(map, known, r)
    BY <1>11, WaitsAre
  <2>4. a = Then(Answered(map, known, r), Meant(map, known, From(t, r.next)))
    <3>1. Single(References(t, i), r)
      BY <1>8
    <3> HIDE DEF t, i, found, a, whole
    <3>2. Meant(map, known, From(t, i)) =
            Then(Answered(map, known, r), Meant(map, known, From(t, r.next)))
      <4>1. t \in Text
        BY <1>3
      <4> QED BY <1>2, <1>4, <3>1, <4>1, ReferenceMeans, ZenonT(60)
    <3> QED BY <3>2 DEF a
  <2>5. Then(Has(<<>>), a) = a
    <3> HIDE DEF a, whole
    <3> QED BY <2>1, ThenIs
  <2>6. whole = Then(Has(Top.out), a)
    BY <2>1, <2>2, <2>5
  <2> QED BY <1>10, <2>3, <2>4, <2>6, Zenon DEF GoesOn
<1> QED BY <1>1, <1>7, <1>9, <1>12, <1>13, <1>14, TopGoes

\* A value that is final answers a reference as it will in the end.
LEMMA FinalAnswers ==
  ASSUME TypeOK, NEW r, Usable(r), NEW k, Between(map, memo, k)
  PROVE  Answered(map, k, r) = Has(memo[r.name]) /\ memo[r.name] \in Text
<1>1. r.name \in DOMAIN memo /\ (r.default = {} \/ memo[r.name] # <<>>)
  BY DEF Usable, Resolved
<1>2. Knows(map, k) /\ r.name \in DOMAIN k /\ k[r.name] = memo[r.name]
  BY <1>1 DEF Between, Grows
<1>3. Answered(map, k, r) = Has(k[r.name])
  BY <1>1, <1>2, AnsweredIs
<1> QED BY <1>1, <1>2, <1>3, TypesAre

\* A reference is replaced.
LEMMA SubstituteSound ==
  ASSUME TypeOK, TypeOK', CallsRight, Substitute
  PROVE  Sound(map, memo, stack', visiting)
<1> DEFINE t == Top.text
<1>1. Resolving /\ stack # <<>> /\ UNCHANGED <<map, memo, visiting>>
  BY Zenon DEF Substitute
<1>2. PICK r \in Top.ref : /\ Usable(r)
                           /\ TopBecomes([Top EXCEPT !.out = @ \o memo[r.name], !.ref = {}])
  BY DEF Substitute
<1>3. Top \in Frame /\ t \in Text /\ Top.out \in Text /\ Top.next \in 1..(Len(t) + 1)
  BY <1>1, TopIs
<1>4. Single(Top.ref, r)
  BY <1>1, TopIs
<1> DEFINE y == memo[r.name]
           g == [Top EXCEPT !.out = @ \o y]
           f == [g EXCEPT !.ref = {}]
<1>5. TopBecomes(f)
  <2>1. f = [Top EXCEPT !.out = @ \o memo[r.name], !.ref = {}]
    OBVIOUS
  <2> QED BY <1>2, <2>1
<1>6. /\ f.owner = Top.owner /\ f.default = Top.default /\ f.text = t
      /\ f.next = Top.next /\ f.out = Top.out \o y /\ f.ref = {}
  <2> HIDE DEF y
  <2> QED BY <1>3 DEF Frame
<1> HIDE DEF f
<1>7. Placed(f) /\ SameCall(f, Top)
  BY <1>3, <1>6 DEF Placed, SameCall
<1>8. ASSUME NEW k, Between(map, memo, k) PROVE GoesOn(map, k, f, WaitsFor(map, k, f))
  <2> DEFINE b == Meant(map, k, From(t, Top.next))
             whole == Meant(map, k, t)
  <2>1. whole = Then(Has(Top.out), Then(WaitsFor(map, k, Top), b)) /\ b \in Results
    BY <1>1, <1>8, TopMeans
  <2>2. WaitsFor(map, k, Top) = Answered(map, k, r) /\ WaitsFor(map, k, f) = Has(<<>>)
    BY <1>4, <1>6, WaitsAre
  <2>3. Answered(map, k, r) = Has(y) /\ y \in Text
    BY <1>2, <1>8, FinalAnswers
  <2>4. GoesOn(map, k, f, WaitsFor(map, k, f)) <=> whole = Then(Has(f.out), Then(Has(<<>>), b))
    BY <1>6, <2>2, Zenon DEF GoesOn
  <2> HIDE DEF b, whole, y, t
  <2>5. whole = Then(Has(Top.out \o y), Then(Has(<<>>), b))
    BY <1>3, <2>1, <2>2, <2>3, OutGrows
  <2> QED BY <1>6, <2>4, <2>5
<1> QED BY <1>1, <1>5, <1>7, <1>8, TopGoes

\* One call more.
LEMMA AppendIs ==
  ASSUME NEW S, NEW s \in Seq(S), NEW x
  PROVE  /\ Len(s) \in Nat
         /\ Len(Append(s, x)) = Len(s) + 1
         /\ \A i \in 1..Len(s) : Append(s, x)[i] = s[i]
         /\ Append(s, x)[Len(s) + 1] = x
         /\ \A i \in DOMAIN Append(s, x) : i \in DOMAIN s \/ i = Len(s) + 1
         /\ DOMAIN s = 1..Len(s)
  OBVIOUS

\* A value is called for.
LEMMA EnterSound ==
  ASSUME TypeOK, TypeOK', CallsRight, Enter
  PROVE  Sound(map, memo, stack', visiting')
<1>1. Resolving /\ UNCHANGED <<map, memo>>
  BY Zenon DEF Enter
<1>2. PICK n \in Called : /\ Expands(n)
                          /\ visiting' = Append(visiting, n)
                          /\ stack' = Append(stack, NewFrame(n, map[n].raw, FALSE))
  BY Zenon DEF Enter
<1>3. n \in DOMAIN map /\ n \notin DOMAIN memo /\ map[n].raw \in Text
  <2>1. n \in Pending
    BY DEF Called, FirstPending
  <2> QED BY <2>1, CalledIs DEF Pending
<1> DEFINE f == NewFrame(n, map[n].raw, FALSE)
           t == stack'
           e == Len(stack)
           u == visiting'
<1>4. stack \in Seq(Frame) /\ t \in Seq(Frame) /\ visiting \in Seq(Names)
  BY DEF TypeOK
<1>5. /\ e \in Nat /\ Len(t) = e + 1 /\ \A i \in 1..e : t[i] = stack[i]
      /\ t[e + 1] = f
  <2> HIDE DEF f
  <2> QED BY <1>2, <1>4, AppendIs DEF f
<1>6. \A p \in DOMAIN u : (p \in DOMAIN visiting /\ u[p] = visiting[p]) \/ u[p] = n
  BY <1>2, <1>4, AppendIs
<1>7. Sound(map, memo, stack, visiting)
  BY <1>1 DEF CallsRight
<1>8. /\ f.owner = n /\ f.default = FALSE /\ f.text = map[n].raw /\ f.next = 1
      /\ f.ref = {}
  BY DEF NewFrame
<1> HIDE DEF t, u
<1>9. ExpandsIn(map, n)
  BY <1>2 DEF Expands, ExpandsIn
<1>10. stack # <<>> => \E r : Single(Top.ref, r) /\ r.name = n
  <2> SUFFICES ASSUME stack # <<>> PROVE \E r : Single(Top.ref, r) /\ r.name = n
    OBVIOUS
  <2>1. PICK r \in Top.ref : r.name = n
    BY DEF Called
  <2> QED BY <1>1, <2>1, TopIs
<1>11. CallShaped(map, t, Len(t))
  <2> DEFINE h == e + 1
  <2>1. t[h] = f /\ Len(t) = h /\ h - 1 = e /\ (h > 1 => stack # <<>> /\ e \in 1..e)
    BY <1>4, <1>5
  <2>2. h > 1 => \E r : Single(t[h - 1].ref, r) /\ r.name = n
    BY <1>5, <1>10, <2>1 DEF Top
  <2>3. 1 \in 1..(Len(map[n].raw) + 1)
    BY <1>3 DEF Text
  <2> HIDE DEF f, h, e
  <2>4. CallShaped(map, t, h)
    BY <1>3, <1>8, <1>9, <2>1, <2>2, <2>3 DEF CallShaped
  <2> QED BY <2>1, <2>4
<1>12. StillWaits(map, memo, stack, t)
  <2> SUFFICES ASSUME stack # <<>>
               PROVE  /\ SameCall(t[e], stack[e]) /\ Placed(t[e])
                      /\ t[e].out = stack[e].out /\ t[e].next = stack[e].next
                      /\ \A k : Awaited(map, k, t, e) = Awaited(map, k, stack, e)
    BY Zenon DEF StillWaits
  <2>1. e \in 1..e /\ t[e] = stack[e]
    BY <1>4, <1>5
  <2>2. CallShaped(map, stack, e)
    BY <1>7, <2>1 DEF Sound, CallsShaped
  <2>3. Placed(t[e])
    BY <2>1, <2>2 DEF CallShaped, Placed
  <2>4. stack[e].ref # {}
    <3>1. PICK r : Single(stack[e].ref, r)
      BY <1>10 DEF Top
    <3> QED BY <3>1, SingleIs
  <2>5. \A k : Awaited(map, k, t, e) = Awaited(map, k, stack, e)
    BY <2>1, <2>4 DEF Awaited
  <2> QED BY <2>1, <2>3, <2>5 DEF SameCall
<1>13. /\ \A i \in 1..Len(stack) : i < Len(stack) => t[i] = stack[i]
       /\ t[Len(t)] = NewFrame(n, map[n].raw, FALSE) /\ Len(t) = Len(stack) + 1
  BY <1>5 DEF f
<1>14. Visits(u, visiting, n, FALSE)
  BY <1>6 DEF Visits
<1> HIDE DEF f, e
<1>15. Sound(map, memo, t, u)
  BY <1>3, <1>4, <1>7, <1>11, <1>12, <1>13, <1>14, CallMade, ZenonT(60)
<1> QED BY <1>15 DEF t, u

\* A default is called for.
LEMMA EnterDefaultSound ==
  ASSUME TypeOK, TypeOK', CallsRight, EnterDefault
  PROVE  Sound(map, memo, stack', visiting)
<1>1. Resolving /\ stack # <<>> /\ UNCHANGED <<map, memo, visiting>>
  BY Zenon DEF EnterDefault
<1>2. PICK r \in Top.ref, d \in UNION {q.default : q \in Top.ref} :
        /\ r.name \in DOMAIN map => Resolved(r.name)
        /\ ~Usable(r)
        /\ stack' = Append([stack EXCEPT ![Len(stack)].ref = {}], NewFrame(Top.owner, d, TRUE))
  BY Zenon DEF EnterDefault
<1> DEFINE x == Top.owner
           f == NewFrame(x, d, TRUE)
           g == [Top EXCEPT !.ref = {}]
           s == [stack EXCEPT ![Len(stack)] = g]
           t == stack'
           e == Len(stack)
<1>3. Single(Top.ref, r) /\ Referable(r)
  BY <1>1, TopIs
<1>4. Single(r.default, d) /\ d \in Text
  <2>1. PICK q \in Top.ref : d \in q.default
    OBVIOUS
  <2>2. q = r
    BY <1>3, <2>1, SingleIs
  <2>3. r.default # {}
    BY <2>1, <2>2
  <2>4. PICK c \in Text : Single(r.default, c)
    BY <1>3, <2>3 DEF Referable
  <2>5. d = c
    BY <2>1, <2>2, <2>4, SingleIs
  <2> QED BY <2>4, <2>5
<1>5. /\ Top \in Frame /\ x \in DOMAIN map /\ ExpandsIn(map, x) /\ x \notin DOMAIN memo
      /\ e \in 1..e /\ Top = stack[e] /\ Top.next \in 1..(Len(Top.text) + 1)
  BY <1>1, TopIs
<1>6. stack \in Seq(Frame) /\ t \in Seq(Frame) /\ Sound(map, memo, stack, visiting)
  BY <1>1 DEF TypeOK, CallsRight
<1>7. /\ g.owner = Top.owner /\ g.default = Top.default /\ g.text = Top.text
      /\ g.next = Top.next /\ g.out = Top.out /\ g.ref = {} /\ g \in Frame
  BY <1>5 DEF Frame
<1>8. /\ f.owner = x /\ f.default = TRUE /\ f.text = d /\ f.next = 1 /\ f.ref = {}
  BY DEF NewFrame
<1>9. t = Append(s, f)
  BY <1>2 DEF Top
<1> HIDE DEF f, g, t, x
<1>10. s \in Seq(Frame) /\ Len(s) = e /\ \A i \in 1..e : s[i] = IF i = e THEN g ELSE stack[i]
  <2>1. s \in Seq(Frame)
    BY <1>6, <1>7, ElementIs, Zenon
  <2> QED BY <1>5, <1>6, <2>1
<1> HIDE DEF s
<1>11. /\ Len(t) = e + 1 /\ t[e + 1] = f /\ e \in Nat
       /\ \A i \in 1..e : t[i] = IF i = e THEN g ELSE stack[i]
  BY <1>9, <1>10, AppendIs
<1>12. CallShaped(map, t, Len(t))
  <2> DEFINE h == e + 1
  <2>1. t[h] = f /\ Len(t) = h /\ h - 1 = e /\ h > 1 /\ t[e] = g
    BY <1>5, <1>11
  <2>2. 1 \in 1..(Len(d) + 1)
    BY <1>4 DEF Text
  <2> HIDE DEF h, e
  <2>3. t[h - 1].ref = {} /\ t[h - 1].owner = x
    BY <1>7, <2>1 DEF x
  <2>4. CallShaped(map, t, h)
    BY <1>5, <1>8, <2>1, <2>2, <2>3 DEF CallShaped
  <2> QED BY <2>1, <2>4
<1>13. ASSUME NEW k, Between(map, memo, k)
       PROVE  Awaited(map, k, t, e) = Awaited(map, k, stack, e)
  <2>1. Awaited(map, k, t, e) = Meant(map, k, d)
    <3>1. t[e].ref = {} /\ e < Len(t) /\ t[e + 1].text = d
      BY <1>5, <1>7, <1>8, <1>11
    <3> QED BY <3>1 DEF Awaited
  <2>2. Awaited(map, k, stack, e) = Answered(map, k, r)
    <3>1. Awaited(map, k, stack, e) = WaitsFor(map, k, Top)
      BY <1>5, <1>6, TopWaits
    <3>2. WaitsFor(map, k, Top) = Answered(map, k, r)
      BY <1>3, WaitsAre
    <3> QED BY <3>1, <3>2
  <2>3. Knows(map, k) /\ \A n \in DOMAIN memo : n \in DOMAIN k /\ k[n] = memo[n]
    BY <1>13 DEF Between, Grows
  <2>4. r.name \notin DOMAIN map \/ (r.name \in DOMAIN k /\ k[r.name] = <<>>)
    <3> SUFFICES ASSUME r.name \in DOMAIN map PROVE r.name \in DOMAIN k /\ k[r.name] = <<>>
      OBVIOUS
    <3>1. r.name \in DOMAIN memo /\ memo[r.name] = <<>>
      BY <1>2 DEF Resolved, Usable
    <3> QED BY <2>3, <3>1
  <2>5. Answered(map, k, r) = Meant(map, k, d)
    BY <1>4, <2>3, <2>4, AnsweredIs
  <2> QED BY <2>1, <2>2, <2>5
<1>14. StillWaits(map, memo, stack, t)
  <2>1. t[e] = g
    BY <1>5, <1>11
  <2>2. SameCall(t[e], stack[e]) /\ t[e].out = stack[e].out /\ t[e].next = stack[e].next
    BY <1>5, <1>7, <2>1 DEF SameCall
  <2>3. Placed(t[e])
    BY <1>5, <1>7, <2>1 DEF Placed
  <2> QED BY <1>13, <2>2, <2>3 DEF StillWaits
<1>15. /\ \A i \in 1..Len(stack) : i < Len(stack) => t[i] = stack[i]
       /\ t[Len(t)] = NewFrame(x, d, TRUE) /\ Len(t) = Len(stack) + 1
  BY <1>11 DEF f
<1>16. Visits(visiting, visiting, x, TRUE)
  BY DEF Visits
<1> HIDE DEF e
<1>17. Sound(map, memo, t, visiting)
  BY <1>4, <1>5, <1>6, <1>12, <1>14, <1>15, <1>16, CallMade, ZenonT(60)
<1> QED BY <1>17 DEF t

\* All calls but the innermost one.
LEMMA FrontAre ==
  ASSUME NEW S, NEW s \in Seq(S), s # <<>>
  PROVE  /\ Len(s) \in Nat \ {0} /\ Front(s) \in Seq(S) /\ Len(Front(s)) = Len(s) - 1
         /\ DOMAIN Front(s) = 1..(Len(s) - 1)
         /\ \A i \in 1..(Len(s) - 1) : Front(s)[i] = s[i]
<1> DEFINE n == Len(s) - 1
           t == SubSeq(s, 1, n)
<1>1. Len(s) \in Nat \ {0} /\ n \in Nat /\ 1 \in 1..(Len(s) + 1) /\ n \in (1 - 1)..Len(s)
  OBVIOUS
<1>2. Front(s) = t
  BY DEF Front
<1> HIDE DEF n
<1>3. t \in Seq(S) /\ Len(t) = n + 1 - 1
  BY <1>1, Part
<1>4. \A i \in 1..n : t[i] = s[i]
  BY <1>1
<1> HIDE DEF t
<1>5. t \in Seq(S) /\ Len(t) = n /\ DOMAIN t = 1..n
  BY <1>1, <1>3
<1> QED BY <1>1, <1>2, <1>4, <1>5 DEF n

\* A value is final: none of its callers is for the same value, and the last name
\* visited is its own.
LEMMA ReturnSound ==
  ASSUME ExecInv, TypeOK, TypeOK', CallsRight, Return
  PROVE  Sound(map, memo', stack', visiting')
<1> DEFINE e == Len(stack)
           t == stack'
           u == visiting'
           n == Len(visiting)
<1>1. /\ Resolving /\ stack # <<>> /\ Done(Top) /\ ~Top.default
      /\ memo' = With(memo, Top.owner, Top.out)
      /\ u = Front(visiting) /\ t = Front(stack)
      /\ UNCHANGED map
  BY Zenon DEF Return, AtEnd, Done
<1>2. stack \in Seq(Frame) /\ t \in Seq(Frame) /\ visiting \in Seq(Names)
  BY DEF TypeOK
<1>3. Sound(map, memo, stack, visiting) /\ Top = stack[e] /\ e \in 1..e
  BY <1>1, TopIs DEF CallsRight
<1>4. StackInv /\ NestInv
  BY DEF ExecInv
<1>5. PICK at \in [DOMAIN stack -> Nat] : Nests(at)
  BY <1>4 DEF NestInv
<1>6. /\ DOMAIN stack = 1..e /\ DOMAIN visiting = 1..n /\ n \in Nat /\ e \in Nat
  BY <1>2
<1> HIDE DEF e, t, n, u
<1>7. /\ \A i \in 1..e : ~stack[i].default =>
           at[i] \in 1..n /\ visiting[at[i]] = stack[i].owner
      /\ \A i, j \in 1..e : i < j /\ ~stack[i].default /\ ~stack[j].default => at[i] < at[j]
  BY <1>5, <1>6 DEF Nests
<1>8. \A i, j \in 1..n : visiting[i] = visiting[j] => i = j
  BY <1>4, <1>6 DEF StackInv
<1>9. \A p \in 1..n : \E i \in 1..e : ~stack[i].default /\ stack[i].owner = visiting[p]
  BY <1>3, <1>6 DEF Sound, CallsPending, e
<1>10. at[e] \in 1..n /\ n \in 1..n
  BY <1>1, <1>3, <1>6, <1>7
<1>11. at[e] = n
  <2>1. PICK i \in 1..e : ~stack[i].default /\ stack[i].owner = visiting[n]
    BY <1>9, <1>10
  <2>2. at[i] = n
    BY <1>7, <1>8, <1>10, <2>1
  <2>3. i = e \/ i < e
    BY <1>6, <2>1
  <2> QED BY <1>1, <1>3, <1>6, <1>7, <1>10, <2>1, <2>2, <2>3
<1>12. \A i \in 1..e : i < e /\ ~stack[i].default => stack[i].owner # Top.owner
  <2> SUFFICES ASSUME NEW i \in 1..e, i < e, ~stack[i].default, stack[i].owner = Top.owner
               PROVE  FALSE
    OBVIOUS
  <2>1. at[i] < at[e] /\ at[i] \in 1..n /\ visiting[at[i]] = visiting[at[e]]
    BY <1>1, <1>3, <1>7
  <2>2. at[i] = at[e]
    BY <1>8, <1>10, <2>1
  <2> QED BY <1>10, <2>1, <2>2
<1>13. Len(t) = e - 1 /\ \A i \in 1..Len(t) : t[i] = stack[i] /\ i \in 1..e /\ i < e
  <2>1. Len(t) = e - 1 /\ \A i \in 1..(e - 1) : t[i] = stack[i]
    BY <1>1, <1>2, FrontAre DEF e
  <2> QED BY <1>6, <2>1
<1>14. visiting # <<>>
  BY <1>10 DEF n
<1>15. DOMAIN u = 1..(n - 1) /\ \A p \in 1..(n - 1) : u[p] = visiting[p]
  BY <1>1, <1>2, <1>14, FrontAre DEF n
<1>16. \A p \in DOMAIN u : \E i \in 1..Len(t) : ~stack[i].default /\ stack[i].owner = u[p]
  <2> SUFFICES ASSUME NEW p \in 1..(n - 1)
               PROVE  \E i \in 1..Len(t) : ~stack[i].default /\ stack[i].owner = visiting[p]
    BY <1>15
  <2>1. p \in 1..n /\ p # n
    BY <1>6
  <2>2. PICK i \in 1..e : ~stack[i].default /\ stack[i].owner = visiting[p]
    BY <1>9, <2>1
  <2>3. i # e
    BY <1>7, <1>8, <1>10, <1>11, <2>1, <2>2
  <2>4. i \in 1..Len(t)
    BY <1>6, <1>13, <2>3
  <2> QED BY <2>2, <2>4
<1>17. Added(memo', memo, Top.owner, Top.out)
  <2>1. Top.owner \notin DOMAIN memo
    BY <1>1, TopIs
  <2>2. /\ DOMAIN memo' = {Top.owner} \cup DOMAIN memo
        /\ \A m \in DOMAIN memo' : memo'[m] = IF m = Top.owner THEN Top.out ELSE memo[m]
    BY <1>1 DEF With, Over
  <2> QED BY <2>1, <2>2 DEF Added
<1>18. HasTexts(map)
  BY TypesAre
<1>19. \A i \in 1..Len(t) : ~stack[i].default => stack[i].owner # Top.owner
  BY <1>12, <1>13
<1>20. Len(t) = Len(stack) - 1 /\ \A i \in 1..Len(t) : t[i] = stack[i]
  BY <1>13 DEF e
<1>21. Top = stack[Len(stack)]
  BY DEF Top
<1> HIDE DEF e
<1> DEFINE last == stack[Len(stack)]
<1>22. /\ Done(last) /\ ~last.default /\ Added(memo', memo, last.owner, last.out)
       /\ \A i \in 1..Len(t) : ~stack[i].default => stack[i].owner # last.owner
  BY <1>1, <1>17, <1>19, <1>21
<1>23. stack # <<>> /\ Len(t) = Len(stack) - 1 /\ \A i \in 1..Len(t) : t[i] = stack[i]
  BY <1>1, <1>20
<1>24. Sound(map, memo', t, u)
  BY <1>2, <1>3, <1>16, <1>18, <1>22, <1>23, ValueReturns, ZenonT(60)
<1> QED BY <1>24 DEF t, u

\* A default comes to what it means.
LEMMA ReturnDefaultSound ==
  ASSUME TypeOK, TypeOK', CallsRight, ReturnDefault
  PROVE  Sound(map, memo, stack', visiting)
<1> DEFINE e == Len(stack)
           t == stack'
           rest == Front(stack)
           k == e - 1
           f == [rest[k] EXCEPT !.out = @ \o Top.out]
<1>1. /\ Resolving /\ stack # <<>> /\ Done(Top) /\ Top.default
      /\ t = [rest EXCEPT ![k] = f]
  <2>1. Resolving /\ stack # <<>> /\ Done(Top) /\ Top.default
    BY Zenon DEF ReturnDefault, AtEnd, Done
  <2>2. t = [rest EXCEPT ![k].out = @ \o Top.out]
    BY Zenon DEF ReturnDefault
  <2> QED BY <2>1, <2>2
<1>2. stack \in Seq(Frame) /\ t \in Seq(Frame)
  BY DEF TypeOK
<1>3. Sound(map, memo, stack, visiting) /\ Top = stack[e] /\ e \in 1..e
  BY <1>1, TopIs DEF CallsRight
<1>4. e \in Nat \ {0} /\ rest \in Seq(Frame) /\ Len(rest) = k /\ \A i \in 1..k : rest[i] = stack[i]
  BY <1>1, <1>2, FrontAre
<1>5. k \in 1..k /\ k \in 1..e
  <2>1. CallShaped(map, stack, e)
    BY <1>3 DEF Sound, CallsShaped
  <2>2. e > 1
    BY <1>1, <1>3, <2>1 DEF CallShaped
  <2> QED BY <1>4, <2>2
<1> HIDE DEF rest, t
<1>6. rest[k] = stack[k] /\ stack[k] \in Frame
  BY <1>2, <1>4, <1>5
<1>7. /\ f.owner = stack[k].owner /\ f.default = stack[k].default /\ f.text = stack[k].text
      /\ f.next = stack[k].next /\ f.ref = stack[k].ref /\ f.out = stack[k].out \o Top.out
  <2> HIDE DEF k
  <2> QED BY <1>6 DEF Frame
<1> HIDE DEF f
<1>8. Len(t) = k /\ \A i \in 1..k : t[i] = IF i = k THEN f ELSE stack[i]
  BY <1>1, <1>4
<1>9. \A i \in 1..Len(t) : i < Len(t) => t[i] = stack[i]
  BY <1>8
<1>10. LET x == stack[Len(stack) - 1]
           y == t[Len(stack) - 1]
       IN /\ SameCall(y, x) /\ y.next = x.next /\ y.ref = x.ref
          /\ y.out = x.out \o stack[Len(stack)].out
  BY <1>3, <1>5, <1>7, <1>8 DEF SameCall
<1>11. Len(t) = Len(stack) - 1 /\ Top = stack[Len(stack)]
  BY <1>3, <1>8
<1> HIDE DEF k, e
<1>12. Sound(map, memo, t, visiting)
  BY <1>1, <1>2, <1>3, <1>9, <1>10, <1>11, DefaultReturns, ZenonT(60)
<1> QED BY <1>12 DEF t

\* A value that is not expanded is final as it is.
LEMMA LiteralSound ==
  ASSUME TypeOK, CallsRight, Literal
  PROVE  Sound(map, memo', stack, visiting)
<1>1. Resolving /\ Sound(map, memo, stack, visiting)
  BY DEF Literal, CallsRight
<1>2. PICK n \in Called : ~Expands(n) /\ memo' = With(memo, n, map[n].raw)
  BY Zenon DEF Literal
<1>3. n \in DOMAIN map /\ n \notin DOMAIN memo
  <2>1. n \in Pending
    BY DEF Called, FirstPending
  <2> QED BY <2>1 DEF Pending
<1>4. HasTexts(map)
  BY TypesAre
<1> DEFINE K == KnownIn(map)
<1>5. n \in DOMAIN K /\ K[n] = map[n].raw
  <2>1. Grows(map, FirstIn(map), K)
    BY <1>4, KnownRight
  <2>2. n \in DOMAIN FirstIn(map) /\ FirstIn(map)[n] = map[n].raw
    BY <1>2, <1>3, <1>4, FirstRound DEF Expands, ExpandsIn
  <2> HIDE DEF K
  <2> QED BY <2>1, <2>2 DEF Grows
<1>6. \A i \in 1..Len(stack) : stack[i].owner # n
  <2>1. \A i \in 1..Len(stack) : ExpandsIn(map, stack[i].owner)
    BY <1>1 DEF Sound, CallsShaped, CallShaped
  <2> QED BY <1>2, <2>1 DEF Expands, ExpandsIn
<1>7. Added(memo', memo, n, K[n])
  <2>1. /\ DOMAIN memo' = {n} \cup DOMAIN memo
        /\ \A m \in DOMAIN memo' : memo'[m] = IF m = n THEN map[n].raw ELSE memo[m]
    BY <1>2 DEF With, Over
  <2> HIDE DEF K
  <2> QED BY <1>3, <1>5, <2>1 DEF Added
<1> QED BY <1>1, <1>5, <1>6, <1>7, ValueMade, Zenon

-----------------------------------------------------------------------------
(* How exec ends.                                                          *)

\* What a failure says of the values of m: one of them comes to it, or some wait
\* for each other.
FailsRight(m, kind) ==
  /\ kind \in {"malformed", "undefined"} =>
       \E n \in DOMAIN m \ DOMAIN KnownIn(m) : Meant(m, KnownIn(m), m[n].raw).is = kind
  /\ kind = "circular" =>
       \E S : /\ S # {} /\ S \subseteq DOMAIN m \ DOMAIN KnownIn(m)
              /\ \A n \in S : LET a == Meant(m, KnownIn(m), m[n].raw)
                              IN a.is = "needs" /\ a.name \in S

\* What the program sees that it does not inherit is what the values mean.
ChildRight ==
  phase = "started" =>
    \A n \in DOMAIN child :
      \/ n \in DOMAIN input.parent /\ (InFiles(n) => ~input.envFileOverrides)
      \/ child[n] = memo[n]

\* ExpansionExact, by what is known.
EndsRight ==
  /\ phase \in {"started", "notExecuted"} => memo = KnownIn(map)
  /\ ChildRight
  /\ FailsRight(map, phase)

\* It says the same.
LEMMA EndsRightIs == EndsRight => ExpansionExact
<1> SUFFICES ASSUME EndsRight PROVE ExpansionExact
  OBVIOUS
<1> DEFINE K == KnownIn(map)
<1>1. Known = K
  BY KnownIs
<1>2. /\ DOMAIN Obstacle = DOMAIN map \ DOMAIN K
      /\ \A n \in DOMAIN map \ DOMAIN K : Obstacle[n] = Meant(map, K, map[n].raw)
  <2>1. \A n : Meaning(map[n].raw, Known) = Meant(map, K, map[n].raw)
    BY <1>1, MeaningIs
  <2> HIDE DEF K
  <2> QED BY <1>1, <2>1 DEF Obstacle
<1>3. phase \in {"started", "notExecuted"} => memo = Known
  BY <1>1 DEF EndsRight
<1>4. phase \in {"malformed", "undefined"} => \E n \in DOMAIN Obstacle : Obstacle[n].is = phase
  <2> SUFFICES ASSUME phase \in {"malformed", "undefined"}
               PROVE  \E n \in DOMAIN Obstacle : Obstacle[n].is = phase
    OBVIOUS
  <2>1. PICK n \in DOMAIN map \ DOMAIN K : Meant(map, K, map[n].raw).is = phase
    BY DEF EndsRight, FailsRight
  <2> HIDE DEF K
  <2> QED BY <1>2, <2>1
<1>5. phase = "circular" =>
        \E S \in SUBSET DOMAIN Obstacle :
          S # {} /\ \A n \in S : Obstacle[n].is = "needs" /\ Obstacle[n].name \in S
  <2> SUFFICES ASSUME phase = "circular"
               PROVE  \E S \in SUBSET DOMAIN Obstacle :
                        S # {} /\ \A n \in S : Obstacle[n].is = "needs" /\ Obstacle[n].name \in S
    OBVIOUS
  <2>1. PICK S : /\ S # {} /\ S \subseteq DOMAIN map \ DOMAIN K
                 /\ \A n \in S : LET a == Meant(map, K, map[n].raw)
                                 IN a.is = "needs" /\ a.name \in S
    BY Zenon DEF EndsRight, FailsRight
  <2> HIDE DEF K
  <2> QED BY <1>2, <2>1
<1>6. phase = "started" =>
        \A n \in DOMAIN child :
          \/ n \in DOMAIN input.parent /\ (InFiles(n) => ~input.envFileOverrides)
          \/ child[n] = memo[n]
  BY DEF EndsRight, ChildRight
<1> QED BY <1>3, <1>4, <1>5, <1>6, Zenon DEF ExpansionExact

\* Before the first call there is nothing to be wrong.
LEMMA SoundAtFirst ==
  ASSUME NEW m, HasTexts(m)
  PROVE  Sound(m, <<>>, <<>>, <<>>)
<1>1. DOMAIN <<>> = {} /\ Len(<<>>) = 0 /\ 1..0 = {}
  OBVIOUS
<1>2. Grows(m, <<>>, KnownIn(m))
  <2>1. Knows(m, KnownIn(m))
    BY KnownRight
  <2> QED BY <1>1, <2>1 DEF Grows, Knows
<1>3. CallsMean(m, <<>>, <<>>) /\ CallsShaped(m, <<>>)
  BY <1>1 DEF CallsMean, CallsShaped
<1>4. CallsPending(<<>>, <<>>, <<>>)
  BY <1>1 DEF CallsPending
<1> QED BY <1>2, <1>3, <1>4 DEF Sound

\* All that is known lies between.
LEMMA KnownBetween ==
  ASSUME TypeOK, CallsRight, Resolving
  PROVE  Between(map, memo, KnownIn(map))
<1>1. HasTexts(map)
  BY TypesAre
<1>2. Grows(map, memo, KnownIn(map))
  BY DEF CallsRight, Sound
<1>3. Knows(map, KnownIn(map))
  BY <1>1, KnownRight
<1> QED BY <1>2, <1>3 DEF Between, Grows

\* What stops the innermost call is what some value comes to.
LEMMA StopsRight ==
  ASSUME TypeOK, CallsRight, Resolving, stack # <<>>,
         NEW a \in Results, a.is \notin {"text", "needs"},
         LET k == KnownIn(map)
         IN Then(WaitsFor(map, k, Top), Meant(map, k, From(Top.text, Top.next))) = a
  PROVE  \E n \in DOMAIN map \ DOMAIN KnownIn(map) :
           Meant(map, KnownIn(map), map[n].raw) = a
<1> DEFINE k == KnownIn(map)
<1>1. Between(map, memo, k)
  BY KnownBetween
<1>2. HasTexts(map) /\ stack \in Seq(Frame) /\ Sound(map, memo, stack, visiting)
  BY TypesAre DEF CallsRight
<1>3. Top = stack[Len(stack)] /\ Top.out \in Text
  BY TopIs
<1>4. Meant(map, k, Top.text) = Then(Has(Top.out), a)
  BY <1>1, TopMeans
<1>5. Then(Has(Top.out), a) = a
  <2>1. Has(Top.out) \in Results /\ Has(Top.out).is = "text"
    BY <1>3 DEF Results, Has
  <2> QED BY <2>1, ThenIs
<1>6. Meant(map, KnownIn(map), stack[Len(stack)].text) = a
  BY <1>3, <1>4, <1>5
<1> QED BY <1>2, <1>6, StuckIs

\* A reference that is none.
LEMMA MalformedRight ==
  ASSUME TypeOK, CallsRight, Refer, Fail("malformed")
  PROVE  FailsRight(map, "malformed")
<1> DEFINE t == Top.text
           i == Top.next
           k == KnownIn(map)
           a == [is |-> "malformed"]
           rest == Meant(map, k, From(t, i))
<1>1. Resolving /\ stack # <<>> /\ Top.ref = {} /\ i <= Len(t)
  BY Zenon DEF Refer, Scanning
<1>2. t[i] = "${"
  BY Zenon DEF Refer
<1>3. t \in Text /\ i \in 1..(Len(t) + 1) /\ Len(t) \in Nat
  BY <1>1, TopIs
<1>4. i \in 1..Len(t)
  <2> HIDE DEF t, i
  <2> QED BY <1>1, <1>3
<1>5. References(t, i) = {}
  <2> SUFFICES ASSUME References(t, i) # {} PROVE FALSE
    OBVIOUS
  <2>1. \E r \in References(t, i) : TopBecomes([Top EXCEPT !.ref = {r}, !.next = r.next])
    BY Zenon DEF Refer
  <2>2. PICK r \in References(t, i) : TopBecomes([Top EXCEPT !.ref = {r}, !.next = r.next])
    BY <2>1
  <2>3. Len(stack) \in 1..Len(stack) /\ Top = stack[Len(stack)] /\ Top \in Frame
    BY <1>1, TopIs
  <2>4. stack' = stack
    BY DEF Fail
  <2> DEFINE f == [Top EXCEPT !.ref = {r}, !.next = r.next]
  <2>5. f.ref = {r}
    BY <2>3 DEF Frame
  <2> HIDE DEF f
  <2>6. stack = [stack EXCEPT ![Len(stack)] = f]
    BY <2>2, <2>4 DEF TopBecomes, f
  <2>7. stack \in Seq(Frame)
    BY TypesAre
  <2>8. stack[Len(stack)] = f
    BY <2>3, <2>6, <2>7
  <2> QED BY <1>1, <2>3, <2>5, <2>8
<1>6. rest = a
  <2>1. Meant(map, k, From(t, i)) = [is |-> "malformed"]
    <3> HIDE DEF t, i, k
    <3> QED BY <1>2, <1>3, <1>4, <1>5, MalformedMeans, ZenonT(60)
  <2> QED BY <2>1
<1>7. Then(WaitsFor(map, k, Top), rest) = a /\ a \in Results
  <2>1. WaitsFor(map, k, Top) = Has(<<>>)
    BY <1>1, WaitsAre
  <2>2. a \in Results
    BY DEF Results
  <2> HIDE DEF a, rest, k
  <2> QED BY <1>6, <2>1, <2>2, ThenIs
<1>8. a.is = "malformed" /\ a.is \notin {"text", "needs"}
  OBVIOUS
<1> HIDE DEF a
<1>9. \E n \in DOMAIN map \ DOMAIN k : Meant(map, k, map[n].raw) = a
  BY <1>1, <1>7, <1>8, StopsRight
<1> QED BY <1>8, <1>9 DEF FailsRight

\* A reference to nothing.
LEMMA UndefinedRight ==
  ASSUME TypeOK, CallsRight, Undefined
  PROVE  FailsRight(map, "undefined")
<1> DEFINE k == KnownIn(map)
           a == [is |-> "undefined"]
           rest == Meant(map, k, From(Top.text, Top.next))
<1>1. Resolving /\ stack # <<>>
  BY Zenon DEF Undefined
<1>2. PICK r \in Top.ref : r.default = {} /\ r.name \notin DOMAIN map
  BY Zenon DEF Undefined
<1>3. Single(Top.ref, r)
  BY <1>1, TopIs
<1>4. Between(map, memo, k)
  BY <1>1, KnownBetween
<1>5. Knows(map, k) /\ rest \in Results
  BY <1>1, <1>4, TopMeans
<1>6. WaitsFor(map, k, Top) = a
  <2>1. WaitsFor(map, k, Top) = Answered(map, k, r)
    BY <1>3, WaitsAre
  <2> QED BY <1>2, <1>5, <2>1, AnsweredIs
<1>7. a \in Results /\ a.is = "undefined" /\ a.is \notin {"text", "needs"}
  BY DEF Results
<1> HIDE DEF a, rest
<1>8. Then(WaitsFor(map, k, Top), rest) = a
  BY <1>5, <1>6, <1>7, ThenIs
<1>9. \E n \in DOMAIN map \ DOMAIN k : Meant(map, k, map[n].raw) = a
  BY <1>1, <1>7, <1>8, StopsRight DEF rest
<1> QED BY <1>7, <1>9 DEF FailsRight

\* A value that is being expanded.
LEMMA CircularRight ==
  ASSUME TypeOK, CallsRight, Circular
  PROVE  FailsRight(map, "circular")
<1>1. Resolving /\ Sound(map, memo, stack, visiting) /\ HasTexts(map) /\ stack \in Seq(Frame)
  BY TypesAre DEF Circular, CallsRight
<1>2. PICK n \in Called : BeingExpanded(n)
  BY Zenon DEF Circular
<1>3. PICK j \in 1..Len(stack) : ~stack[j].default /\ stack[j].owner = n
  BY <1>1, <1>2 DEF BeingExpanded, Sound, CallsPending
<1>4. stack # <<>>
  BY <1>3
<1>5. PICK r \in Top.ref : r.name = n
  BY <1>2, <1>4 DEF Called
<1>6. Single(stack[Len(stack)].ref, r)
  BY <1>1, <1>4, <1>5, TopIs
<1>7. r.name = stack[j].owner
  BY <1>3, <1>5
<1> DEFINE Waiting == \E S : /\ S # {} /\ S \subseteq DOMAIN map \ DOMAIN KnownIn(map)
                             /\ \A x \in S : LET a == Meant(map, KnownIn(map), map[x].raw)
                                             IN a.is = "needs" /\ a.name \in S
<1>8. Waiting
  BY <1>1, <1>3, <1>6, <1>7, CycleIs, ZenonT(60)
<1>9. Waiting => FailsRight(map, "circular")
  <2>1. "circular" \notin {"malformed", "undefined"}
    OBVIOUS
  <2> QED BY <2>1, Zenon DEF FailsRight
<1> QED BY <1>8, <1>9

\* All values are final.
LEMMA ResolvedRight ==
  ASSUME TypeOK, CallsRight, AllResolved
  PROVE  memo = KnownIn(map)
<1> DEFINE K == KnownIn(map)
<1>1. Resolving /\ Pending = {}
  BY DEF AllResolved
<1>2. Grows(map, memo, K) /\ HasTexts(map)
  BY <1>1, TypesAre DEF CallsRight, Sound
<1>3. IsFunction(K) /\ Knows(map, K)
  BY <1>2, KnownRight
<1> HIDE DEF K
<1>4. DOMAIN memo = DOMAIN K
  BY <1>1, <1>2, <1>3 DEF Grows, Knows, Pending
<1>5. memo = [n \in DOMAIN memo |-> memo[n]]
  BY DEF TypeOK, IsEnvironment
<1>6. \A n \in DOMAIN memo : K[n] = memo[n]
  BY <1>2 DEF Grows
<1>7. K = [n \in DOMAIN memo |-> memo[n]]
  BY <1>3, <1>4, <1>6 DEF IsFunction
<1> QED BY <1>5, <1>7 DEF K

\* The program's environment.
LEMMA ExecRight ==
  ASSUME ExecInv, Exec
  PROVE  ChildRight'
<1>1. /\ Resolving /\ child' = Over([n \in SetOnChild |-> memo[n]], input.parent)
      /\ UNCHANGED <<input, file, memo>>
  BY DEF Exec, AllResolved
<1>2. DOMAIN file = {n \in Names : InFiles(n)}
  BY <1>1, WhileResolving DEF MemoInv
<1>3. DOMAIN input.parent \subseteq Names
  BY <1>1, WhileResolving DEF IsInput, IsEnvironment
<1>4. /\ DOMAIN child' = SetOnChild \cup DOMAIN input.parent
      /\ \A n \in SetOnChild : child'[n] = memo[n]
  BY <1>1 DEF Over
<1>5. ASSUME NEW n \in DOMAIN child'
      PROVE  \/ n \in DOMAIN input.parent /\ (InFiles(n) => ~input.envFileOverrides)
             \/ child'[n] = memo[n]
  <2>1. CASE n \in SetOnChild
    BY <1>4, <2>1
  <2>2. CASE n \notin SetOnChild
    BY <1>2, <1>3, <1>4, <2>2 DEF SetOnChild
  <2> QED BY <2>1, <2>2
<1>6. \A n : InFiles(n)' = InFiles(n)
  BY <1>1 DEF InFiles
<1> QED BY <1>1, <1>5, <1>6 DEF ChildRight

\* Every step.
LEMMA MeaningKept ==
  ASSUME ExecInv, TypeOK, TypeOK', CallsRight, EndsRight, [Next]_vars
  PROVE  CallsRight' /\ EndsRight'
<1>1. CASE UNCHANGED vars
  <2>1. UNCHANGED <<input, phase, line, file, map, memo, visiting, stack, child>>
    BY <1>1 DEF vars
  <2>2. CallsRight'
    BY <2>1 DEF CallsRight, Resolving
  <2>3. ChildRight'
    BY <2>1 DEF EndsRight, ChildRight, InFiles
  <2>4. (phase \in {"started", "notExecuted"} => memo = KnownIn(map)) /\ FailsRight(map, phase)
    BY DEF EndsRight
  <2>5. (phase \in {"started", "notExecuted"} => memo = KnownIn(map))' /\ FailsRight(map, phase)'
    BY <2>1, <2>4
  <2> QED BY <2>2, <2>3, <2>5 DEF EndsRight
<1>2. ASSUME phase' \in {"read", "unreadable"} PROVE CallsRight' /\ EndsRight'
  BY <1>2 DEF CallsRight, Resolving, EndsRight, ChildRight, FailsRight
<1>3. ASSUME phase' = "resolve", Sound(map', memo', stack', visiting')
      PROVE  CallsRight' /\ EndsRight'
  BY <1>3 DEF CallsRight, EndsRight, ChildRight, FailsRight
<1>4. ASSUME phase' \in {"malformed", "undefined", "circular"}, FailsRight(map', phase')
      PROVE  CallsRight' /\ EndsRight'
  BY <1>4 DEF CallsRight, Resolving, EndsRight, ChildRight
<1>5. CASE ReadLine
  BY <1>2, <1>5 DEF ReadLine, Fail
<1>6. CASE Compose
  <2>1. /\ phase = "read" /\ phase' = "resolve"
        /\ UNCHANGED <<memo, visiting, stack>>
    BY <1>6 DEF Compose
  <2>2. memo = <<>> /\ stack = <<>> /\ visiting = <<>>
    BY <2>1 DEF ExecInv, ReadInv
  <2>3. HasTexts(map')
    <3>1. DOMAIN map' \subseteq Names /\ map' \in [DOMAIN map' -> Entry]
      BY DEF TypeOK
    <3> QED BY <3>1 DEF HasTexts, Entry
  <2>4. Sound(map', <<>>, <<>>, <<>>)
    BY <2>3, SoundAtFirst
  <2> QED BY <1>3, <2>1, <2>2, <2>4
<1>7. CASE Literal
  <2>1. UNCHANGED <<phase, map, visiting, stack>> /\ Resolving
    BY <1>7 DEF Literal
  <2> QED BY <1>3, <1>7, <2>1, LiteralSound DEF Resolving
<1>8. CASE Enter
  <2>1. UNCHANGED <<phase, map, memo>> /\ Resolving
    BY <1>8 DEF Enter
  <2> QED BY <1>3, <1>8, <2>1, EnterSound DEF Resolving
<1>9. CASE Copy
  <2>1. UNCHANGED <<phase, map, memo, visiting>> /\ Resolving
    BY <1>9, Zenon DEF Copy, Scanning
  <2> QED BY <1>3, <1>9, <2>1, CopySound DEF Resolving
<1>10. CASE Substitute
  <2>1. UNCHANGED <<phase, map, memo, visiting>> /\ Resolving
    BY <1>10 DEF Substitute
  <2> QED BY <1>3, <1>10, <2>1, SubstituteSound DEF Resolving
<1>11. CASE EnterDefault
  <2>1. UNCHANGED <<phase, map, memo, visiting>> /\ Resolving
    BY <1>11 DEF EnterDefault
  <2> QED BY <1>3, <1>11, <2>1, EnterDefaultSound DEF Resolving
<1>12. CASE Return
  <2>1. UNCHANGED <<phase, map>> /\ Resolving
    BY <1>12 DEF Return, AtEnd
  <2> QED BY <1>3, <1>12, <2>1, ReturnSound DEF Resolving
<1>13. CASE ReturnDefault
  <2>1. UNCHANGED <<phase, map, memo, visiting>> /\ Resolving
    BY <1>13 DEF ReturnDefault, AtEnd
  <2> QED BY <1>3, <1>13, <2>1, ReturnDefaultSound DEF Resolving
<1>14. CASE Refer
  <2>1. CASE Fail("malformed")
    <3>1. phase' = "malformed" /\ map' = map
      BY <2>1 DEF Fail
    <3>2. FailsRight(map, "malformed")
      BY <1>14, <2>1, MalformedRight
    <3> QED BY <1>4, <3>1, <3>2
  <2>2. CASE ~Fail("malformed")
    <3>1. UNCHANGED <<phase, map, memo, visiting>> /\ Resolving
      BY <1>14, <2>2, Zenon DEF Refer, Scanning
    <3>2. Sound(map, memo, stack', visiting)
      BY <1>14, <3>1, ReferSound
    <3> QED BY <1>3, <3>1, <3>2 DEF Resolving
  <2> QED BY <2>1, <2>2
<1>15. CASE Undefined
  <2>1. phase' = "undefined" /\ map' = map
    BY <1>15 DEF Undefined, Fail
  <2>2. FailsRight(map, "undefined")
    BY <1>15, UndefinedRight
  <2> QED BY <1>4, <2>1, <2>2
<1>16. CASE Circular
  <2>1. phase' = "circular" /\ map' = map
    BY <1>16 DEF Circular, Fail
  <2>2. FailsRight(map, "circular")
    BY <1>16, CircularRight
  <2> QED BY <1>4, <2>1, <2>2
<1>17. CASE Exec
  <2>1. phase' = "started" /\ map' = map /\ memo' = memo /\ AllResolved
    BY <1>17 DEF Exec
  <2>2. memo = KnownIn(map)
    BY <2>1, ResolvedRight
  <2>3. ChildRight'
    BY <1>17, ExecRight
  <2> QED BY <2>1, <2>2, <2>3 DEF CallsRight, Resolving, EndsRight, FailsRight
<1>18. CASE NotExecuted
  <2>1. phase' = "notExecuted" /\ map' = map /\ memo' = memo /\ AllResolved
    BY <1>18 DEF NotExecuted, Fail
  <2>2. memo = KnownIn(map)
    BY <2>1, ResolvedRight
  <2> QED BY <2>1, <2>2 DEF CallsRight, Resolving, EndsRight, ChildRight, FailsRight
<1> QED BY <1>1, <1>5, <1>6, <1>7, <1>8, <1>9, <1>10, <1>11, <1>12, <1>13, <1>14, <1>15,
           <1>16, <1>17, <1>18 DEF Next

\* Whatever the env files, the shell and portool's variables are, however values
\* refer to each other and nest their defaults, and in whatever order they are
\* visited: the program is started with what the values mean, a text for each of
\* them; exec fails over a reference that is malformed or undefined only if that
\* is what some value comes to, and reports a cycle only if some values wait for
\* each other (envread.rs resolve, resolve_entry, expand).
THEOREM ExpandsAsMeant == Spec => []ExpansionExact
<1>1. Init => CallsRight /\ EndsRight
  BY DEF Init, CallsRight, Resolving, EndsRight, ChildRight, FailsRight
<1>2. ExecInv /\ TypeOK /\ TypeOK' /\ CallsRight /\ EndsRight /\ [Next]_vars
        => CallsRight' /\ EndsRight'
  BY MeaningKept
<1>3. EndsRight => ExpansionExact
  BY EndsRightIs
<1> QED BY <1>1, <1>2, <1>3, ExecInvariant, ExecTypeCorrect, PTL DEF Spec
=============================================================================
