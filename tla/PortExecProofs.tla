--------------------------- MODULE PortExecProofs ---------------------------
(***************************************************************************)
(* Whatever env files, shell and references look like, exec expands no     *)
(* value inside of itself, and the program gets its worktree's variables   *)
(* and everything it inherits unchanged; what a text is read as plays no   *)
(* part in this.  Then: whatever is written in a file, reading it ends in  *)
(* values and references whose texts lie within what was written.          *)
(***************************************************************************)
EXTENDS PortExecProps, TLAPS, FiniteSetTheorems

\* A sequence, of whatever.
IsSequence(s) == s \in Seq(Range(s))

\* A call of `expand`, whatever its text.
IsFrame(f) == {"owner", "default"} \subseteq DOMAIN f

\* The names that the lines before line k set.
SetBefore(k) ==
  {n \in Names : \E i \in DOMAIN input.lines :
                   i < k /\ input.lines[i].kind = "set" /\ input.lines[i].name = n}

\* While the files are read nothing else has happened.
ReadInv ==
  /\ map = <<>> /\ memo = <<>> /\ visiting = <<>> /\ stack = <<>>
  /\ DOMAIN file = SetBefore(line)
  /\ line \in 1..(Len(input.lines) + 1)

\* The files were read to their end and merged; a literal value is final as it
\* is.
MemoInv ==
  /\ DOMAIN file = {n \in Names : InFiles(n)}
  /\ map = Merged
  /\ \A n \in DOMAIN memo : n \in DOMAIN map /\ (Expands(n) \/ memo[n] = map[n].raw)

\* A value under way is one of the map that is expanded.
StackInv ==
  /\ IsSequence(visiting) /\ IsSequence(stack)
  /\ \A i, j \in DOMAIN visiting : visiting[i] = visiting[j] => i = j
  /\ \A i \in DOMAIN stack : /\ IsFrame(stack[i])
                             /\ stack[i].owner \in DOMAIN map
                             /\ Expands(stack[i].owner)

\* Place e[i] of `visiting` belongs to call i, unless that is for a default.
Nests(e) ==
  /\ e \in [DOMAIN stack -> Nat]
  /\ \A i \in DOMAIN stack : ~stack[i].default =>
       e[i] \in DOMAIN visiting /\ visiting[e[i]] = stack[i].owner
  /\ \A i, j \in DOMAIN stack :
       i < j /\ ~stack[i].default /\ ~stack[j].default => e[i] < e[j]

NestInv == \E e \in [DOMAIN stack -> Nat] : Nests(e)

\* The inductive invariant.
ExecInv ==
  /\ IsInput(input)
  /\ phase \in {"read", "resolve", "started"} \cup Failures
  /\ phase = "read" => ReadInv
  /\ phase = "resolve" => MemoInv
  /\ StackInv
  /\ NestInv
  /\ ChildSeesItsPorts

-----------------------------------------------------------------------------
(* Sequences.                                                              *)

\* What Append does.
LEMMA Appended ==
  ASSUME NEW s, IsSequence(s), NEW x
  PROVE  /\ Len(s) \in Nat /\ DOMAIN s = 1..Len(s)
         /\ IsSequence(Append(s, x))
         /\ DOMAIN Append(s, x) = 1..(Len(s) + 1)
         /\ \A i \in DOMAIN s : Append(s, x)[i] = s[i]
         /\ Append(s, x)[Len(s) + 1] = x
<1> DEFINE S == Range(s) \cup {x}
           t == Append(s, x)
<1>1. s \in Seq(S)
  BY DEF IsSequence
<1>2. x \in S
  OBVIOUS
<1> HIDE DEF S
<1>3. /\ Len(s) \in Nat /\ DOMAIN s = 1..Len(s)
      /\ t \in Seq(S) /\ Len(t) = Len(s) + 1 /\ DOMAIN t = 1..(Len(s) + 1)
      /\ \A i \in DOMAIN s : t[i] = s[i]
      /\ t[Len(s) + 1] = x
  BY <1>1, <1>2
<1> HIDE DEF t
<1>4. t \in [1..Len(t) -> Range(t)] /\ Len(t) \in Nat
  BY <1>3 DEF Range
<1>5. IsSequence(t)
  BY <1>4 DEF IsSequence
<1> QED BY <1>3, <1>5 DEF t

\* What Front does.
LEMMA Shortened ==
  ASSUME NEW s, IsSequence(s), s # <<>>
  PROVE  /\ Len(s) \in Nat \ {0} /\ DOMAIN s = 1..Len(s)
         /\ IsSequence(Front(s))
         /\ DOMAIN Front(s) = 1..(Len(s) - 1)
         /\ \A i \in DOMAIN Front(s) : Front(s)[i] = s[i]
<1> DEFINE S == Range(s)
           t == SubSeq(s, 1, Len(s) - 1)
<1>1. s \in Seq(S)
  BY DEF IsSequence
<1> HIDE DEF S
<1>2. /\ Len(s) \in Nat \ {0} /\ DOMAIN s = 1..Len(s)
      /\ t \in Seq(S) /\ Len(t) = Len(s) - 1 /\ DOMAIN t = 1..(Len(s) - 1)
      /\ \A i \in DOMAIN t : t[i] = s[i]
  <2>1. Len(s) \in Nat /\ DOMAIN s = 1..Len(s) /\ Len(s) # 0
    BY <1>1
  <2>2. t \in Seq(S) /\ Len(t) = Len(s) - 1
    BY <1>1, <2>1
  <2>3. \A i \in 1..(Len(s) - 1) : t[i] = s[i]
    BY <1>1, <2>1
  <2> QED BY <2>1, <2>2, <2>3
<1> HIDE DEF t
<1>3. t \in [1..Len(t) -> Range(t)] /\ Len(t) \in Nat
  BY <1>2 DEF Range
<1>4. IsSequence(t)
  BY <1>3 DEF IsSequence
<1> QED BY <1>2, <1>4 DEF Front, t

\* What replacing one element does.
LEMMA Replaced ==
  ASSUME NEW s, IsSequence(s), NEW k, NEW x
  PROVE  LET t == [s EXCEPT ![k] = x]
         IN /\ Len(s) \in Nat /\ DOMAIN s = 1..Len(s)
            /\ IsSequence(t)
            /\ DOMAIN t = DOMAIN s
            /\ \A i \in DOMAIN s : t[i] = IF i = k THEN x ELSE s[i]
<1> DEFINE t == [s EXCEPT ![k] = x]
<1>1. s \in [1..Len(s) -> Range(s)] /\ Len(s) \in Nat /\ DOMAIN s = 1..Len(s)
  BY DEF IsSequence
<1>2. DOMAIN t = DOMAIN s /\ \A i \in DOMAIN s : t[i] = IF i = k THEN x ELSE s[i]
  BY <1>1
<1>3. t = [i \in 1..Len(s) |-> t[i]]
  BY <1>1
<1> HIDE DEF t
<1>4. t \in [1..Len(s) -> Range(t)]
  BY <1>1, <1>2, <1>3 DEF Range
<1>5. IsSequence(t)
  BY <1>1, <1>4 DEF IsSequence
<1> QED BY <1>1, <1>2, <1>5 DEF t

\* No call beyond those of before.
LEMMA FewerCalls ==
  ASSUME StackInv, NestInv, IsSequence(stack'), UNCHANGED <<map, visiting>>,
         DOMAIN stack' \subseteq DOMAIN stack,
         \A i \in DOMAIN stack' : /\ IsFrame(stack'[i])
                                  /\ stack'[i].owner = stack[i].owner
                                  /\ stack'[i].default = stack[i].default
  PROVE  StackInv' /\ NestInv'
<1>1. StackInv'
  BY DEF StackInv, Expands
<1>2. PICK e \in [DOMAIN stack -> Nat] : Nests(e)
  BY DEF NestInv
<1>3. PICK d \in [DOMAIN stack' -> Nat] : \A i \in DOMAIN stack' : d[i] = e[i]
  <2>1. [i \in DOMAIN stack' |-> e[i]] \in [DOMAIN stack' -> Nat]
    OBVIOUS
  <2> QED BY <2>1
<1>4. Nests(d)'
  BY <1>2, <1>3 DEF Nests
<1> QED BY <1>1, <1>3, <1>4 DEF NestInv

\* The innermost call goes on.
LEMMA TopGoesOn ==
  ASSUME StackInv, NestInv, stack # <<>>, NEW f, TopBecomes(f), UNCHANGED <<map, visiting>>,
         IsFrame(f), f.owner = Top.owner, f.default = Top.default
  PROVE  StackInv' /\ NestInv'
<1>1. IsSequence(stack)
  BY DEF StackInv
<1>2. /\ IsSequence(stack') /\ DOMAIN stack' = DOMAIN stack
      /\ \A i \in DOMAIN stack : stack'[i] = IF i = Len(stack) THEN f ELSE stack[i]
  BY <1>1, Replaced DEF TopBecomes
<1>3. \A i \in DOMAIN stack : IsFrame(stack[i])
  BY DEF StackInv
<1> QED BY <1>2, <1>3, FewerCalls DEF Top

\* The innermost call is one of the calls.
LEMMA TopIsFrame ==
  ASSUME StackInv, stack # <<>>
  PROVE  /\ Len(stack) \in Nat \ {0} /\ DOMAIN stack = 1..Len(stack)
         /\ Len(stack) \in DOMAIN stack
         /\ IsFrame(Top) /\ Top.owner \in DOMAIN map /\ Expands(Top.owner)
<1>1. Len(stack) \in Nat \ {0} /\ DOMAIN stack = 1..Len(stack)
  BY Shortened DEF StackInv
<1>2. Len(stack) \in DOMAIN stack
  BY <1>1
<1> QED BY <1>1, <1>2 DEF StackInv, Top

-----------------------------------------------------------------------------
(* One lemma per action; those that only look at the values go together.   *)

\* A failing exec changes nothing.
LEMMA FailKeeps ==
  ASSUME ExecInv, NEW kind \in Failures, Fail(kind)
  PROVE  ExecInv'
<1>1. UNCHANGED <<input, line, file, map, memo, visiting, stack, child>> /\ phase' = kind
  BY DEF Fail
<1>2. kind # "read" /\ kind # "resolve" /\ kind # "started"
  BY DEF Failures
<1> QED BY <1>1, <1>2 DEF ExecInv, StackInv, NestInv, Nests, Expands, ChildSeesItsPorts

\* A line sets its name, or none.
LEMMA ReadLineKeeps == ExecInv /\ ReadLine => ExecInv'
<1> SUFFICES ASSUME ExecInv, ReadLine PROVE ExecInv'
  OBVIOUS
<1> DEFINE l == input.lines[line]
           values == IF l.kind = "set" THEN ReadValue(l.text) ELSE {}
<1>1. /\ phase = "read" /\ ReadInv /\ IsInput(input) /\ StackInv /\ NestInv
      /\ line \in DOMAIN input.lines
  BY DEF ExecInv, ReadLine
<1>2. CASE l.kind # "skip" /\ values = {}
  <2>1. Fail("unreadable")
    BY <1>2 DEF ReadLine
  <2> QED BY <2>1, FailKeeps DEF Failures
<1>3. CASE ~(l.kind # "skip" /\ values = {})
  <2>1. /\ \/ l.kind = "skip" /\ UNCHANGED file
           \/ \E v \in values : file' = With(file, l.name, v)
        /\ line' = line + 1
        /\ UNCHANGED <<input, phase, map, memo, visiting, stack, child>>
    BY <1>3 DEF ReadLine
  <2>2. input.lines \in Seq(Line)
    BY <1>1 DEF IsInput
  <2>3. line \in 1..Len(input.lines) /\ Len(input.lines) \in Nat
    BY <1>1, <2>2
  <2>4. l \in Line
    BY <2>2, <2>3
  <2>5. l.kind = "set" => l.name \in Names
    BY <2>4 DEF Line
  <2>6. SetBefore(line + 1) = SetBefore(line) \cup (IF l.kind = "set" THEN {l.name} ELSE {})
    <3>1. \A i \in DOMAIN input.lines : i < line + 1 <=> i < line \/ i = line
      BY <1>1, <2>2, <2>3
    <3> QED BY <1>1, <2>5, <3>1 DEF SetBefore
  <2>7. DOMAIN file' = SetBefore(line + 1)
    <3>1. CASE l.kind = "skip" /\ UNCHANGED file
      BY <1>1, <2>6, <3>1 DEF ReadInv
    <3>2. ASSUME NEW v \in values, file' = With(file, l.name, v)
          PROVE  DOMAIN file' = SetBefore(line + 1)
      <4>1. l.kind = "set"
        BY <3>2
      <4>2. DOMAIN file' = {l.name} \cup DOMAIN file
        BY <3>2 DEF With, Over
      <4> QED BY <1>1, <2>6, <4>1, <4>2 DEF ReadInv
    <3> QED BY <2>1, <3>1, <3>2
  <2>8. (SetBefore(line))' = SetBefore(line + 1)
    BY <2>1 DEF SetBefore
  <2>9. ReadInv'
    BY <1>1, <2>1, <2>3, <2>7, <2>8 DEF ReadInv
  <2> QED BY <1>1, <2>1, <2>9
          DEF ExecInv, StackInv, NestInv, Nests, Expands, ChildSeesItsPorts
<1> QED BY <1>2, <1>3

\* The files were read to their end.
LEMMA ComposeKeeps == ExecInv /\ Compose => ExecInv'
<1> SUFFICES ASSUME ExecInv, Compose PROVE ExecInv'
  OBVIOUS
<1>1. /\ phase = "read" /\ ReadInv /\ IsInput(input) /\ StackInv /\ NestInv
      /\ line \notin DOMAIN input.lines /\ phase' = "resolve" /\ map' = Merged
      /\ UNCHANGED <<input, line, file, memo, visiting, stack, child>>
  BY DEF ExecInv, Compose
<1>2. DOMAIN input.lines = 1..Len(input.lines) /\ Len(input.lines) \in Nat
  BY <1>1 DEF IsInput
<1>3. \A i \in DOMAIN input.lines : i < line
  BY <1>1, <1>2 DEF ReadInv
<1>4. DOMAIN file = {n \in Names : InFiles(n)}
  BY <1>1, <1>3 DEF ReadInv, SetBefore, InFiles
<1>5. Merged' = Merged
  BY <1>1 DEF Merged
<1>6. DOMAIN memo = {} /\ DOMAIN stack = {}
  BY <1>1 DEF ReadInv
<1>7. MemoInv'
  BY <1>1, <1>4, <1>5, <1>6 DEF MemoInv, InFiles
<1>8. StackInv' /\ NestInv'
  BY <1>1, <1>6 DEF StackInv, NestInv, Nests
<1> QED BY <1>1, <1>7, <1>8 DEF ExecInv, ChildSeesItsPorts

\* What is known while values are resolved.
LEMMA WhileResolving ==
  ASSUME ExecInv, Resolving
  PROVE  /\ IsInput(input) /\ phase = "resolve" /\ MemoInv /\ StackInv /\ NestInv
         /\ Called \subseteq Pending /\ Pending \subseteq DOMAIN map
BY DEF ExecInv, Resolving, Called, FirstPending, Pending

\* A step that resolves leaves the inputs and what was read of them alone.
LEMMA StillResolving ==
  ASSUME IsInput(input), phase = "resolve", MemoInv,
         UNCHANGED <<input, phase, file, map, child>>,
         \A n \in DOMAIN memo' : n \in DOMAIN map /\ (Expands(n) \/ memo'[n] = map[n].raw),
         StackInv', NestInv'
  PROVE  ExecInv'
<1>1. Merged' = Merged
  BY DEF Merged, Literals, Over, Decoded
<1>2. MemoInv'
  BY <1>1 DEF MemoInv, InFiles, Expands
<1> QED BY <1>2 DEF ExecInv, ChildSeesItsPorts

\* A literal value is final.
LEMMA LiteralKeeps == ExecInv /\ Literal => ExecInv'
<1> SUFFICES ASSUME ExecInv, Literal PROVE ExecInv'
  OBVIOUS
<1>1. UNCHANGED <<input, phase, line, file, map, visiting, stack, child>> /\ Resolving
  BY DEF Literal
<1>2. PICK n \in Called : memo' = With(memo, n, map[n].raw)
  BY DEF Literal
<1>3. n \in DOMAIN map /\ MemoInv
  BY <1>1, <1>2, WhileResolving
<1>4. /\ DOMAIN memo' = {n} \cup DOMAIN memo
      /\ \A m \in DOMAIN memo' : memo'[m] = IF m = n THEN map[n].raw ELSE memo[m]
  BY <1>2 DEF With, Over
<1>5. \A m \in DOMAIN memo' : m \in DOMAIN map /\ (Expands(m) \/ memo'[m] = map[m].raw)
  BY <1>3, <1>4 DEF MemoInv
<1>6. StackInv' /\ NestInv'
  BY <1>1, WhileResolving DEF StackInv, NestInv, Nests, Expands
<1> QED BY <1>1, <1>5, <1>6, WhileResolving, StillResolving

\* A step that leaves the final values alone, too.
LEMMA CallsChange ==
  ASSUME ExecInv, Resolving, UNCHANGED <<input, phase, file, map, memo, child>>,
         StackInv', NestInv'
  PROVE  ExecInv'
BY WhileResolving, StillResolving DEF MemoInv

\* A value that is entered is not under way already.
LEMMA EnterKeeps == ExecInv /\ Enter => ExecInv'
<1> SUFFICES ASSUME ExecInv, Enter PROVE ExecInv'
  OBVIOUS
<1>1. UNCHANGED <<input, phase, line, file, map, memo, child>> /\ Resolving
  BY DEF Enter
<1>2. PICK n \in Called : /\ Expands(n)
                          /\ ~BeingExpanded(n)
                          /\ visiting' = Append(visiting, n)
                          /\ stack' = Append(stack, NewFrame(n, map[n].raw, FALSE))
  BY DEF Enter
<1>3. n \in DOMAIN map /\ StackInv /\ NestInv
  BY <1>1, <1>2, WhileResolving
<1> DEFINE f == NewFrame(n, map[n].raw, FALSE)
<1>4. IsFrame(f) /\ f.owner = n /\ f.default = FALSE
  BY DEF IsFrame, NewFrame
<1> HIDE DEF f
<1>5. stack' = Append(stack, f)
  BY <1>2 DEF f
<1>6. /\ Len(stack) \in Nat /\ DOMAIN stack = 1..Len(stack)
      /\ IsSequence(stack') /\ DOMAIN stack' = 1..(Len(stack) + 1)
      /\ \A i \in DOMAIN stack : stack'[i] = stack[i]
      /\ stack'[Len(stack) + 1] = f
  BY <1>3, <1>5, Appended DEF StackInv
<1>7. /\ Len(visiting) \in Nat /\ DOMAIN visiting = 1..Len(visiting)
      /\ IsSequence(visiting') /\ DOMAIN visiting' = 1..(Len(visiting) + 1)
      /\ \A i \in DOMAIN visiting : visiting'[i] = visiting[i]
      /\ visiting'[Len(visiting) + 1] = n
  BY <1>2, <1>3, Appended DEF StackInv
<1>8. \A i \in DOMAIN visiting : visiting[i] # n
  BY <1>2 DEF BeingExpanded
<1>9. StackInv'
  <2>1. \A i, j \in DOMAIN visiting' : visiting'[i] = visiting'[j] => i = j
    BY <1>3, <1>7, <1>8 DEF StackInv
  <2>2. ASSUME NEW i \in DOMAIN stack'
        PROVE  IsFrame(stack'[i]) /\ stack'[i].owner \in DOMAIN map /\ Expands(stack'[i].owner)
    <3>1. i \in DOMAIN stack \/ i = Len(stack) + 1
      BY <1>6
    <3> QED BY <1>2, <1>3, <1>4, <1>6, <3>1 DEF StackInv
  <2> QED BY <1>1, <1>6, <1>7, <2>1, <2>2 DEF StackInv, Expands
<1>10. NestInv'
  <2>1. PICK e \in [DOMAIN stack -> Nat] : Nests(e)
    BY <1>3 DEF NestInv
  <2>2. PICK d \in [DOMAIN stack' -> Nat] :
          \A i \in DOMAIN stack' : d[i] = IF i = Len(stack) + 1 THEN Len(visiting) + 1 ELSE e[i]
    <3>1. [i \in DOMAIN stack' |-> IF i = Len(stack) + 1 THEN Len(visiting) + 1 ELSE e[i]]
            \in [DOMAIN stack' -> Nat]
      BY <1>6, <1>7
    <3> QED BY <3>1
  <2>3. \A i \in DOMAIN stack : /\ i # Len(stack) + 1
                                /\ i \in DOMAIN stack'
                                /\ d[i] = e[i]
    BY <1>6, <2>2
  <2>4. d[Len(stack) + 1] = Len(visiting) + 1
    BY <1>6, <2>2
  <2>5. ASSUME NEW i \in DOMAIN stack', ~stack'[i].default
        PROVE  d[i] \in DOMAIN visiting' /\ visiting'[d[i]] = stack'[i].owner
    <3>1. CASE i \in DOMAIN stack
      <4>1. e[i] \in DOMAIN visiting /\ visiting[e[i]] = stack[i].owner
        BY <1>6, <2>1, <2>5, <3>1 DEF Nests
      <4> QED BY <1>6, <1>7, <2>3, <3>1, <4>1
    <3>2. CASE i = Len(stack) + 1
      BY <1>4, <1>6, <1>7, <2>4, <3>2
    <3> QED BY <1>6, <3>1, <3>2
  <2>6. ASSUME NEW i \in DOMAIN stack', NEW j \in DOMAIN stack', i < j,
               ~stack'[i].default, ~stack'[j].default
        PROVE  d[i] < d[j]
    <3>1. i \in DOMAIN stack /\ ~stack[i].default
      BY <1>6, <2>6
    <3>2. d[i] = e[i] /\ e[i] \in 1..Len(visiting)
      BY <1>7, <2>1, <2>3, <3>1 DEF Nests
    <3>3. CASE j \in DOMAIN stack
      BY <1>6, <2>1, <2>3, <2>6, <3>1, <3>3 DEF Nests
    <3>4. CASE j = Len(stack) + 1
      BY <1>7, <2>4, <3>2, <3>4
    <3> QED BY <1>6, <3>3, <3>4
  <2>7. Nests(d)'
    BY <2>5, <2>6 DEF Nests
  <2> QED BY <2>7 DEF NestInv
<1> QED BY <1>1, <1>9, <1>10, CallsChange

\* The innermost call goes on with its text.
LEMMA GoOnKeeps == ExecInv /\ (Copy \/ Refer \/ Substitute) => ExecInv'
<1> SUFFICES ASSUME ExecInv, Copy \/ Refer \/ Substitute PROVE ExecInv'
  OBVIOUS
<1>1. Resolving /\ stack # <<>>
  BY DEF Copy, Refer, Substitute, Scanning
<1>2. StackInv /\ NestInv /\ IsFrame(Top)
  BY <1>1, WhileResolving, TopIsFrame
<1>3. ASSUME NEW f, TopBecomes(f), IsFrame(f), f.owner = Top.owner, f.default = Top.default,
             UNCHANGED <<input, phase, line, file, map, memo, visiting, child>>
      PROVE  ExecInv'
  BY <1>1, <1>2, <1>3, TopGoesOn, CallsChange
<1>4. ASSUME NEW x, NEW y
      PROVE  LET f == [Top EXCEPT !.out = x, !.next = y]
             IN IsFrame(f) /\ f.owner = Top.owner /\ f.default = Top.default
  BY <1>2 DEF IsFrame
<1>5. ASSUME NEW x, NEW y
      PROVE  LET f == [Top EXCEPT !.ref = x, !.next = y]
             IN IsFrame(f) /\ f.owner = Top.owner /\ f.default = Top.default
  BY <1>2 DEF IsFrame
<1>6. ASSUME NEW x
      PROVE  LET f == [Top EXCEPT !.out = x, !.ref = {}]
             IN IsFrame(f) /\ f.owner = Top.owner /\ f.default = Top.default
  BY <1>2 DEF IsFrame
<1>7. CASE Copy
  <2>1. PICK x, y : TopBecomes([Top EXCEPT !.out = x, !.next = y])
    BY <1>7 DEF Copy
  <2> QED BY <1>3, <1>4, <1>7, <2>1 DEF Copy
<1>8. CASE Refer
  <2>1. CASE References(Top.text, Top.next) = {}
    <3>1. Fail("malformed")
      BY <1>8, <2>1 DEF Refer
    <3> QED BY <3>1, FailKeeps DEF Failures
  <2>2. CASE References(Top.text, Top.next) # {}
    <3>1. PICK x, y : TopBecomes([Top EXCEPT !.ref = x, !.next = y])
      BY <1>8, <2>2 DEF Refer
    <3>2. UNCHANGED <<input, phase, line, file, map, memo, visiting, child>>
      BY <1>8, <2>2 DEF Refer
    <3> QED BY <1>3, <1>5, <3>1, <3>2
  <2> QED BY <2>1, <2>2
<1>9. CASE Substitute
  <2>1. PICK x : TopBecomes([Top EXCEPT !.out = x, !.ref = {}])
    BY <1>9 DEF Substitute
  <2> QED BY <1>3, <1>6, <1>9, <2>1 DEF Substitute
<1> QED BY <1>7, <1>8, <1>9

\* A default is expanded as part of the value it is written in.
LEMMA EnterDefaultKeeps == ExecInv /\ EnterDefault => ExecInv'
<1> SUFFICES ASSUME ExecInv, EnterDefault PROVE ExecInv'
  OBVIOUS
<1>1. /\ Resolving /\ stack # <<>>
      /\ UNCHANGED <<input, phase, line, file, map, memo, visiting, child>>
  BY DEF EnterDefault
<1> DEFINE waiting == [stack EXCEPT ![Len(stack)].ref = {}]
<1>2. PICK text : stack' = Append(waiting, NewFrame(Top.owner, text, TRUE))
  BY DEF EnterDefault
<1> DEFINE f == NewFrame(Top.owner, text, TRUE)
<1>3. StackInv /\ NestInv
  BY <1>1, WhileResolving
<1>4. /\ Len(stack) \in Nat /\ DOMAIN stack = 1..Len(stack)
      /\ IsFrame(Top) /\ Top.owner \in DOMAIN map /\ Expands(Top.owner)
  BY <1>1, <1>3, TopIsFrame
<1>5. IsFrame(f) /\ f.owner = Top.owner /\ f.default = TRUE
  BY DEF IsFrame, NewFrame
<1>6. waiting = [stack EXCEPT ![Len(stack)] = [Top EXCEPT !.ref = {}]]
  BY DEF Top
<1>7. /\ IsFrame([Top EXCEPT !.ref = {}])
      /\ [Top EXCEPT !.ref = {}].owner = Top.owner
      /\ [Top EXCEPT !.ref = {}].default = Top.default
  BY <1>4 DEF IsFrame
<1> HIDE DEF waiting, f
<1>8. /\ IsSequence(waiting) /\ DOMAIN waiting = DOMAIN stack
      /\ \A i \in DOMAIN stack :
           waiting[i] = IF i = Len(stack) THEN [Top EXCEPT !.ref = {}] ELSE stack[i]
  BY <1>3, <1>6, Replaced DEF StackInv
<1>9. \A i \in DOMAIN stack : /\ IsFrame(waiting[i])
                              /\ waiting[i].owner = stack[i].owner
                              /\ waiting[i].default = stack[i].default
  BY <1>3, <1>7, <1>8 DEF StackInv, Top
<1>10. stack' = Append(waiting, f)
  BY <1>2 DEF f
<1>11. /\ IsSequence(stack') /\ DOMAIN stack' = 1..(Len(stack) + 1)
       /\ \A i \in DOMAIN stack : stack'[i] = waiting[i]
       /\ stack'[Len(stack) + 1] = f
  <2>1. Len(waiting) \in Nat /\ DOMAIN waiting = 1..Len(waiting)
    BY <1>8, Appended
  <2>2. Len(waiting) = Len(stack)
    BY <1>4, <1>8, <2>1
  <2> QED BY <1>8, <1>10, <2>2, Appended
<1>12. ASSUME NEW i \in DOMAIN stack'
       PROVE  \/ /\ i \in DOMAIN stack
                 /\ stack'[i].owner = stack[i].owner
                 /\ stack'[i].default = stack[i].default
                 /\ IsFrame(stack'[i])
              \/ i = Len(stack) + 1 /\ stack'[i] = f
  <2>1. i \in DOMAIN stack \/ i = Len(stack) + 1
    BY <1>4, <1>11
  <2> QED BY <1>9, <1>11, <2>1
<1>13. StackInv'
  BY <1>1, <1>3, <1>4, <1>5, <1>11, <1>12 DEF StackInv, Expands
<1>14. NestInv'
  <2>1. PICK e \in [DOMAIN stack -> Nat] : Nests(e)
    BY <1>3 DEF NestInv
  <2>2. PICK d \in [DOMAIN stack' -> Nat] :
          \A i \in DOMAIN stack' : d[i] = IF i \in DOMAIN stack THEN e[i] ELSE 0
    <3>1. [i \in DOMAIN stack' |-> IF i \in DOMAIN stack THEN e[i] ELSE 0]
            \in [DOMAIN stack' -> Nat]
      OBVIOUS
    <3> QED BY <3>1
  <2>3. \A i \in DOMAIN stack' : ~stack'[i].default =>
          i \in DOMAIN stack /\ ~stack[i].default /\ d[i] = e[i]
    BY <1>5, <1>12, <2>2
  <2>4. \A i \in DOMAIN stack' : ~stack'[i].default => stack'[i].owner = stack[i].owner
    BY <1>5, <1>12
  <2>5. \A i \in DOMAIN stack' : ~stack'[i].default =>
          d[i] \in DOMAIN visiting' /\ visiting'[d[i]] = stack'[i].owner
    BY <1>1, <2>1, <2>3, <2>4 DEF Nests
  <2>6. \A i, j \in DOMAIN stack' :
          i < j /\ ~stack'[i].default /\ ~stack'[j].default => d[i] < d[j]
    BY <2>1, <2>3 DEF Nests
  <2>7. Nests(d)'
    BY <2>5, <2>6 DEF Nests
  <2> QED BY <2>7 DEF NestInv
<1> QED BY <1>1, <1>13, <1>14, CallsChange

\* The outermost places of `visiting` still belong to the calls that are left.
LEMMA ReturnKeeps == ExecInv /\ Return => ExecInv'
<1> SUFFICES ASSUME ExecInv, Return PROVE ExecInv'
  OBVIOUS
<1>1. /\ Resolving /\ stack # <<>> /\ ~Top.default
      /\ memo' = With(memo, Top.owner, Top.out)
      /\ visiting' = Front(visiting) /\ stack' = Front(stack)
      /\ UNCHANGED <<input, phase, line, file, map, child>>
  BY DEF Return, AtEnd
<1>2. StackInv /\ NestInv /\ MemoInv
  BY <1>1, WhileResolving
<1>3. /\ Len(stack) \in DOMAIN stack
      /\ Top.owner \in DOMAIN map /\ Expands(Top.owner)
  BY <1>1, <1>2, TopIsFrame
<1>4. /\ Len(stack) \in Nat \ {0} /\ DOMAIN stack = 1..Len(stack)
      /\ IsSequence(stack') /\ DOMAIN stack' = 1..(Len(stack) - 1)
      /\ \A i \in DOMAIN stack' : i \in DOMAIN stack /\ i < Len(stack) /\ stack'[i] = stack[i]
  BY <1>1, <1>2, Shortened DEF StackInv
<1>5. PICK e \in [DOMAIN stack -> Nat] : Nests(e)
  BY <1>2 DEF NestInv
<1>6. visiting # <<>> /\ e[Len(stack)] \in DOMAIN visiting
  <2>1. e[Len(stack)] \in DOMAIN visiting
    BY <1>1, <1>3, <1>5 DEF Nests, Top
  <2> QED BY <2>1
<1>7. /\ Len(visiting) \in Nat \ {0} /\ DOMAIN visiting = 1..Len(visiting)
      /\ IsSequence(visiting') /\ DOMAIN visiting' = 1..(Len(visiting) - 1)
      /\ \A i \in DOMAIN visiting' : i \in DOMAIN visiting /\ visiting'[i] = visiting[i]
  BY <1>1, <1>2, <1>6, Shortened DEF StackInv
<1>8. StackInv'
  BY <1>1, <1>2, <1>4, <1>7 DEF StackInv, Expands
<1>9. ASSUME NEW i \in DOMAIN stack', ~stack'[i].default
      PROVE  e[i] \in DOMAIN visiting' /\ visiting'[e[i]] = stack'[i].owner
  <2>1. e[i] \in DOMAIN visiting /\ visiting[e[i]] = stack[i].owner
    BY <1>4, <1>5, <1>9 DEF Nests
  <2>2. e[i] < e[Len(stack)]
    BY <1>1, <1>3, <1>4, <1>5, <1>9 DEF Nests, Top
  <2>3. e[i] \in DOMAIN visiting'
    BY <1>6, <1>7, <2>1, <2>2
  <2> QED BY <1>4, <1>7, <2>1, <2>3
<1>10. NestInv'
  <2>1. PICK d \in [DOMAIN stack' -> Nat] : \A i \in DOMAIN stack' : d[i] = e[i]
    <3>1. [i \in DOMAIN stack' |-> e[i]] \in [DOMAIN stack' -> Nat]
      BY <1>4
    <3> QED BY <3>1
  <2>2. Nests(d)'
    BY <1>4, <1>5, <1>9, <2>1 DEF Nests
  <2> QED BY <2>2 DEF NestInv
<1>11. /\ DOMAIN memo' = {Top.owner} \cup DOMAIN memo
       /\ \A m \in DOMAIN memo' : m # Top.owner => memo'[m] = memo[m]
  BY <1>1 DEF With, Over
<1>12. \A m \in DOMAIN memo' : m \in DOMAIN map /\ (Expands(m) \/ memo'[m] = map[m].raw)
  BY <1>2, <1>3, <1>11 DEF MemoInv
<1> QED BY <1>1, <1>8, <1>10, <1>12, WhileResolving, StillResolving

\* What a default means goes into the value around it.
LEMMA ReturnDefaultKeeps == ExecInv /\ ReturnDefault => ExecInv'
<1> SUFFICES ASSUME ExecInv, ReturnDefault PROVE ExecInv'
  OBVIOUS
<1>1. /\ Resolving /\ stack # <<>>
      /\ stack' = [Front(stack) EXCEPT ![Len(stack) - 1].out = @ \o Top.out]
      /\ UNCHANGED <<input, phase, line, file, map, memo, visiting, child>>
  BY DEF ReturnDefault, AtEnd
<1>2. StackInv /\ NestInv
  BY <1>1, WhileResolving
<1> DEFINE rest == Front(stack)
           k == Len(stack) - 1
           f == [rest[k] EXCEPT !.out = @ \o Top.out]
<1>3. /\ IsSequence(rest)
      /\ \A i \in DOMAIN rest : i \in DOMAIN stack /\ rest[i] = stack[i]
  BY <1>1, <1>2, Shortened DEF StackInv
<1>4. stack' = [rest EXCEPT ![k] = f]
  BY <1>1
<1>5. k \in DOMAIN rest => /\ IsFrame(f)
                           /\ f.owner = rest[k].owner
                           /\ f.default = rest[k].default
  <2>1. k \in DOMAIN rest => IsFrame(rest[k])
    BY <1>2, <1>3 DEF StackInv
  <2> HIDE DEF rest, k
  <2> QED BY <2>1 DEF IsFrame
<1> HIDE DEF rest, k, f
<1>6. /\ IsSequence(stack') /\ DOMAIN stack' = DOMAIN rest
      /\ \A i \in DOMAIN rest : stack'[i] = IF i = k THEN f ELSE rest[i]
  BY <1>3, <1>4, Replaced
<1>7. \A i \in DOMAIN stack' : /\ i \in DOMAIN stack
                               /\ IsFrame(stack'[i])
                               /\ stack'[i].owner = stack[i].owner
                               /\ stack'[i].default = stack[i].default
  BY <1>2, <1>3, <1>5, <1>6 DEF StackInv
<1>8. StackInv' /\ NestInv'
  BY <1>1, <1>2, <1>6, <1>7, FewerCalls
<1> QED BY <1>1, <1>8, CallsChange

\* portool's values contain nothing that decoding would change.
LEMMA PortoolDecoded ==
  ASSUME IsInput(input), NEW n \in DOMAIN input.portool
  PROVE  Decoded(input.portool[n]) = input.portool[n]
<1> DEFINE t == input.portool[n]
<1>1. t \in Text /\ \A k \in DOMAIN t : t[k] # "~"
  BY DEF IsInput, IsEnvironment
<1> HIDE DEF t
<1>2. t = [k \in DOMAIN t |-> t[k]]
  BY <1>1 DEF Text
<1>3. Decoded(t) = [k \in DOMAIN t |-> t[k]]
  BY <1>1 DEF Decoded
<1> QED BY <1>2, <1>3 DEF t

\* All values are final; what is set on the program is laid over what it
\* inherits.
LEMMA ExecKeeps == ExecInv /\ Exec => ExecInv'
<1> SUFFICES ASSUME ExecInv, Exec PROVE ExecInv'
  OBVIOUS
<1>1. /\ Resolving /\ Pending = {} /\ phase' = "started"
      /\ child' = Over([n \in SetOnChild |-> memo[n]], input.parent)
      /\ UNCHANGED <<input, line, file, map, memo, visiting, stack>>
  BY DEF Exec, AllResolved
<1>2. IsInput(input) /\ MemoInv /\ StackInv /\ NestInv
  BY <1>1, WhileResolving
<1>3. /\ DOMAIN child' = SetOnChild \cup DOMAIN input.parent
      /\ \A n \in SetOnChild : child'[n] = memo[n]
      /\ \A n \in DOMAIN input.parent \ SetOnChild : child'[n] = input.parent[n]
  BY <1>1 DEF Over
<1>4. DOMAIN file = {n \in Names : InFiles(n)}
  BY <1>2 DEF MemoInv
<1>5. DOMAIN child' =
        DOMAIN input.portool \cup DOMAIN input.parent \cup {n \in Names : InFiles(n)}
  BY <1>3, <1>4 DEF SetOnChild
<1>6. ASSUME NEW n \in DOMAIN input.portool
      PROVE  child'[n] = input.portool[n]
  <2>1. map[n] = [raw |-> Decoded(input.portool[n]), quoting |-> "literal"]
    BY <1>2 DEF MemoInv, Merged, Over, Literals
  <2>2. n \in DOMAIN map
    BY <1>2 DEF MemoInv, Merged, Over, Literals
  <2>3. n \in DOMAIN memo /\ ~Expands(n)
    BY <1>1, <2>1, <2>2 DEF Pending, Expands
  <2>4. memo[n] = Decoded(input.portool[n])
    BY <1>2, <2>1, <2>3 DEF MemoInv
  <2>5. n \in SetOnChild
    BY DEF SetOnChild
  <2> QED BY <1>2, <1>3, <2>4, <2>5, PortoolDecoded
<1>7. ASSUME NEW n \in DOMAIN input.parent \ DOMAIN input.portool,
             ~(input.envFileOverrides /\ InFiles(n))
      PROVE  child'[n] = input.parent[n]
  <2>1. n \notin SetOnChild
    BY <1>4, <1>7 DEF SetOnChild
  <2> QED BY <1>3, <2>1
<1>8. ChildSeesItsPorts'
  BY <1>1, <1>5, <1>6, <1>7 DEF ChildSeesItsPorts, InFiles
<1>9. StackInv' /\ NestInv'
  BY <1>1, <1>2 DEF StackInv, NestInv, Nests, Expands
<1> QED BY <1>1, <1>2, <1>8, <1>9 DEF ExecInv

\* Every execution satisfies the inductive invariant.
LEMMA ExecInvariant == Spec => []ExecInv
<1>1. Init => ExecInv
  <2> SUFFICES ASSUME Init PROVE ExecInv
    OBVIOUS
  <2>1. IsInput(input)
    BY ExecAssumption DEF Init
  <2>2. /\ map = <<>> /\ memo = <<>> /\ visiting = <<>> /\ stack = <<>> /\ file = <<>>
        /\ line = 1 /\ phase = "read"
    BY DEF Init
  <2>3. Len(input.lines) \in Nat /\ DOMAIN input.lines = 1..Len(input.lines)
    BY <2>1 DEF IsInput
  <2>4. SetBefore(1) = {}
    BY <2>3 DEF SetBefore
  <2>5. ReadInv
    BY <2>2, <2>3, <2>4 DEF ReadInv
  <2>6. IsSequence(<<>>) /\ DOMAIN <<>> = {}
    BY DEF IsSequence
  <2>7. StackInv
    BY <2>2, <2>6 DEF StackInv
  <2>8. NestInv
    <3>1. PICK e \in [DOMAIN stack -> Nat] : TRUE
      <4>1. [i \in DOMAIN stack |-> 0] \in [DOMAIN stack -> Nat]
        OBVIOUS
      <4> QED BY <4>1
    <3>2. Nests(e)
      BY <2>2, <2>6 DEF Nests
    <3> QED BY <3>2 DEF NestInv
  <2> QED BY <2>1, <2>2, <2>5, <2>7, <2>8 DEF ExecInv, ChildSeesItsPorts
<1>2. ExecInv /\ [Next]_vars => ExecInv'
  <2> SUFFICES ASSUME ExecInv, [Next]_vars PROVE ExecInv'
    OBVIOUS
  <2>1. CASE UNCHANGED vars
    <3>1. UNCHANGED <<input, phase, line, file, map, memo, visiting, stack, child>>
      BY <2>1 DEF vars
    <3>2. ReadInv' = ReadInv
      BY <3>1 DEF ReadInv, SetBefore
    <3>3. Merged' = Merged
      BY <3>1 DEF Merged, Literals, Over, Decoded
    <3>4. MemoInv' = MemoInv
      BY <3>1, <3>3 DEF MemoInv, Expands, InFiles
    <3>5. StackInv' = StackInv /\ NestInv' = NestInv
      BY <3>1 DEF StackInv, NestInv, Nests, Expands
    <3>6. ChildSeesItsPorts' = ChildSeesItsPorts
      BY <3>1 DEF ChildSeesItsPorts, InFiles
    <3> QED BY <3>1, <3>2, <3>4, <3>5, <3>6 DEF ExecInv
  <2>2. CASE Circular \/ Undefined \/ NotExecuted
    <3>1. PICK kind \in Failures : Fail(kind)
      BY <2>2 DEF Circular, Undefined, NotExecuted, Failures
    <3> QED BY <3>1, FailKeeps
  <2> QED BY <2>1, <2>2, ReadLineKeeps, ComposeKeeps, LiteralKeeps, EnterKeeps, GoOnKeeps,
             EnterDefaultKeeps, ReturnKeeps, ReturnDefaultKeeps, ExecKeeps
          DEF Next
<1> QED BY <1>1, <1>2, PTL DEF Spec

-----------------------------------------------------------------------------

\* No value is being expanded inside of itself, however values refer to each
\* other and defaults nest: the places of `visiting`, which differ in their
\* names, belong to the calls on the stack in order, so what `Return` takes off
\* is always the name of the call that returns.
THEOREM NeverReentered == Spec => []NoReentry
<1>1. ExecInv => NoReentry
  <2> SUFFICES ASSUME ExecInv, NEW i \in DOMAIN stack, NEW j \in DOMAIN stack, i # j,
                      ~stack[i].default, ~stack[j].default, stack[i].owner = stack[j].owner
               PROVE  FALSE
    BY DEF NoReentry
  <2>1. PICK e \in [DOMAIN stack -> Nat] : Nests(e)
    BY DEF ExecInv, NestInv
  <2>2. e[i] = e[j]
    BY <2>1 DEF Nests, ExecInv, StackInv
  <2>3. i \in Int /\ j \in Int
    BY DEF ExecInv, StackInv, IsSequence
  <2>4. i < j \/ j < i
    BY <2>3
  <2> QED BY <2>1, <2>2, <2>4 DEF Nests
<1> QED BY <1>1, ExecInvariant, PTL

\* The program gets the variables of its worktree as they are and what it
\* inherits byte for byte, whatever the env files say and refer to.
THEOREM ChildKeepsItsPorts == Spec => []ChildSeesItsPorts
<1>1. ExecInv => ChildSeesItsPorts
  BY DEF ExecInv
<1> QED BY <1>1, ExecInvariant, PTL

-----------------------------------------------------------------------------
(* Induction, with sets in the place of predicates.                        *)

\* Smaller, as a set of pairs.
Below == {ss \in Nat \X Nat : ss[1] < ss[2]}

\* A set of numbers has a least element.
LEMMA Least ==
  ASSUME NEW T \in SUBSET Nat, T # {}
  PROVE  \E n \in T : \A m \in T : n <= m
<1>1. IsWellFoundedOn(Below, Nat)
  <2>1. OpToRel(<,Nat) = Below
    BY Zenon DEF OpToRel, Below
  <2> QED BY <2>1, NatLessThanWellFounded, Zenon
<1>2. PICK x \in T : \A y \in T : ~ (<<y, x>> \in Below)
  BY <1>1, WFMin
<1>3. ASSUME NEW y \in T PROVE x <= y
  <2>1. x \in Nat /\ y \in Nat
    OBVIOUS
  <2>2. <<y,x>> \in Below <=> y < x
    BY <2>1 DEF Below
  <2> QED BY <1>2, <2>1, <2>2
<1> QED BY <1>3

\* Induction, with a set in the place of a predicate.
LEMMA Induct ==
  ASSUME NEW T, 0 \in T, \A n \in Nat : n \in T => n + 1 \in T
  PROVE  Nat \subseteq T
<1> SUFFICES ASSUME Nat \ T # {} PROVE FALSE
  OBVIOUS
<1>1. PICK n \in Nat \ T : \A m \in Nat \ T : n <= m
  BY Least
<1>2. n # 0 /\ n - 1 \in Nat
  BY <1>1
<1>3. n - 1 \in T
  BY <1>1, <1>2
<1> QED BY <1>1, <1>2, <1>3

\* A set of places of a sequence has a first and a last one.
LEMMA FirstAndLast ==
  ASSUME NEW n \in Nat, NEW I \in SUBSET (1..n), I # {}
  PROVE  Min(I) \in I /\ Max(I) \in I /\ Min(I) <= Max(I)
<1>1. \E x \in I : \A y \in I : x <= y
  BY Least
<1>2. \E x \in I : \A y \in I : x >= y
  <2> DEFINE T == {m \in 0..n : \E i \in I : m = n - i}
  <2>1. T \in SUBSET Nat /\ T # {}
    <3>1. PICK i \in I : TRUE
      OBVIOUS
    <3>2. n - i \in T
      OBVIOUS
    <3> QED BY <3>2
  <2>2. PICK m \in T : \A k \in T : m <= k
    BY <2>1, Least
  <2>3. PICK i \in I : m = n - i
    BY <2>2
  <2>4. ASSUME NEW j \in I PROVE i >= j
    <3>1. n - j \in T
      OBVIOUS
    <3> QED BY <2>2, <2>3, <3>1
  <2> QED BY <2>4
<1> QED BY <1>1, <1>2 DEF Min, Max

-----------------------------------------------------------------------------
(* What a text is read as.                                                 *)

\* A part of a text is a text.
LEMMA Part ==
  ASSUME NEW S, NEW s \in Seq(S), NEW a \in 1..(Len(s) + 1), NEW b \in (a - 1)..Len(s)
  PROVE  SubSeq(s, a, b) \in Seq(S) /\ Len(SubSeq(s, a, b)) = b + 1 - a
  OBVIOUS

\* The last place of the first n is n.
LEMMA LastIs ==
  ASSUME NEW n \in Nat, NEW s \in SUBSET (1..n), n \in s
  PROVE  Max(s) = n
<1>1. \A y \in s : n >= y
  OBVIOUS
<1>2. Max(s) \in s /\ Max(s) >= n
  BY <1>1 DEF Max
<1>3. Max(s) \in 1..n
  BY <1>2
<1> QED BY <1>2, <1>3

\* One token of either fold.
Scan(what, acc, c) == IF what = "value" THEN InDoubleQuotes(acc, c) ELSE Deeper(acc, c)

\* g[s] is the fold over the tokens at the places in s.
Folds(what, base, t, g, m) ==
  g = [s \in SUBSET (1..m) |->
         IF s = {} THEN base ELSE Scan(what, g[s \ {Max(s)}], t[Max(s)])]

\* There is such a function, however long the text.
LEMMA FoldExists ==
  ASSUME NEW what, NEW base, NEW t, NEW m \in Nat
  PROVE  \E g : Folds(what, base, t, g, m)
<1> DEFINE T == {n \in Nat : \E g : Folds(what, base, t, g, n)}
<1>1. 0 \in T
  <2>1. SUBSET (1..0) = {{}}
    OBVIOUS
  <2>2. Folds(what, base, t, [s \in SUBSET (1..0) |-> base], 0)
    BY <2>1 DEF Folds
  <2> QED BY <2>2
<1>2. ASSUME NEW n \in Nat, n \in T PROVE n + 1 \in T
  <2>1. PICK g : Folds(what, base, t, g, n)
    BY <1>2
  <2> DEFINE h == [s \in SUBSET (1..(n + 1)) |->
                     IF n + 1 \in s THEN Scan(what, g[s \ {n + 1}], t[n + 1]) ELSE g[s]]
  <2>2. ASSUME NEW s \in SUBSET (1..(n + 1))
        PROVE  h[s] = IF s = {} THEN base ELSE Scan(what, h[s \ {Max(s)}], t[Max(s)])
    <3>1. CASE n + 1 \in s
      <4>1. Max(s) = n + 1
        BY <3>1, LastIs
      <4>2. h[s \ {n + 1}] = g[s \ {n + 1}] /\ s # {}
        BY <3>1
      <4>3. h[s] = Scan(what, g[s \ {n + 1}], t[n + 1])
        BY <3>1
      <4> QED BY <4>1, <4>2, <4>3
    <3>2. CASE n + 1 \notin s
      <4>1. s \in SUBSET (1..n)
        BY <3>2
      <4>2. h[s] = g[s] /\ h[s \ {Max(s)}] = g[s \ {Max(s)}]
        BY <3>2
      <4> HIDE DEF h
      <4> QED BY <2>1, <4>1, <4>2 DEF Folds
    <3> QED BY <3>1, <3>2
  <2>3. Folds(what, base, t, h, n + 1)
    <3>1. h = [s \in SUBSET (1..(n + 1)) |-> h[s]]
      OBVIOUS
    <3> HIDE DEF h
    <3> QED BY <2>2, <3>1, Zenon DEF Folds
  <2> QED BY <2>3
<1> HIDE DEF T
<1>3. m \in T
  BY <1>1, <1>2, Induct
<1> QED BY <1>3 DEF T

\* The first n tokens are one more than the first n - 1.
LEMMA FoldStep ==
  ASSUME NEW what, NEW base, NEW t, NEW m \in Nat, NEW g, Folds(what, base, t, g, m)
  PROVE  /\ g[1..0] = base
         /\ \A n \in 1..m : g[1..n] = Scan(what, g[1..(n - 1)], t[n])
<1>1. 1..0 = {}
  OBVIOUS
<1>2. ASSUME NEW n \in 1..m PROVE g[1..n] = Scan(what, g[1..(n - 1)], t[n])
  <2>1. Max(1..n) = n
    <3>1. n \in 1..n
      OBVIOUS
    <3> QED BY <3>1, LastIs
  <2>2. (1..n) \ {n} = 1..(n - 1) /\ n \in 1..n /\ 1..n \in SUBSET (1..m)
    OBVIOUS
  <2> QED BY <2>1, <2>2 DEF Folds
<1>3. g[{}] = base
  BY DEF Folds
<1> QED BY <1>1, <1>2, <1>3

\* And no other.
LEMMA FoldsAgree ==
  ASSUME NEW what, NEW base, NEW t, NEW m \in Nat, NEW f, NEW g,
         Folds(what, base, t, f, m), Folds(what, base, t, g, m)
  PROVE  f[1..m] = g[1..m]
<1>1. \A n \in 1..m : f[1..n] = Scan(what, f[1..(n - 1)], t[n])
  BY FoldStep
<1>2. \A n \in 1..m : g[1..n] = Scan(what, g[1..(n - 1)], t[n])
  BY FoldStep
<1> DEFINE T == {n \in Nat : n <= m => f[1..n] = g[1..n]}
<1>3. 0 \in T
  <2>1. 1..0 = {}
    OBVIOUS
  <2>2. f[{}] = base /\ g[{}] = base
    BY DEF Folds
  <2> QED BY <2>1, <2>2
<1>4. ASSUME NEW n \in Nat, n \in T PROVE n + 1 \in T
  <2> SUFFICES ASSUME n + 1 <= m PROVE f[1..(n + 1)] = g[1..(n + 1)]
    OBVIOUS
  <2>1. n + 1 \in 1..m /\ (n + 1) - 1 = n /\ n <= m
    OBVIOUS
  <2> QED BY <1>1, <1>2, <1>4, <2>1
<1> HIDE DEF T
<1>5. m \in T
  BY <1>3, <1>4, Induct
<1> QED BY <1>5 DEF T

\* The folds.
ValueFrom(base, t) == FoldLeft(InDoubleQuotes, base, t)
DefaultFrom(base, t) == FoldLeft(Deeper, base, t)

\* Either fold, as what is known behind every token.
LEMMA FoldAlong ==
  ASSUME NEW t \in Text, NEW base
  PROVE  /\ \E h : /\ h[0] = base
                   /\ \A k \in 1..Len(t) : h[k] = InDoubleQuotes(h[k - 1], t[k])
                   /\ ValueFrom(base, t) = h[Len(t)]
         /\ \E h : /\ h[0] = base
                   /\ \A k \in 1..Len(t) : h[k] = Deeper(h[k - 1], t[k])
                   /\ DefaultFrom(base, t) = h[Len(t)]
<1>1. Len(t) \in Nat /\ DOMAIN t = 1..Len(t)
  BY DEF Text
<1>2. ASSUME NEW what
      PROVE  \E h : /\ h[0] = base
                    /\ \A k \in 1..Len(t) : h[k] = Scan(what, h[k - 1], t[k])
                    /\ \A g : Folds(what, base, t, g, Len(t)) => g[1..Len(t)] = h[Len(t)]
  <2> DEFINE n == Len(t)
  <2>1. n \in Nat
    BY <1>1
  <2>2. PICK g : Folds(what, base, t, g, n)
    BY <2>1, FoldExists
  <2> DEFINE h == [k \in 0..n |-> g[1..k]]
  <2>3. /\ g[1..0] = base
        /\ \A k \in 1..n : g[1..k] = Scan(what, g[1..(k - 1)], t[k])
    <3> HIDE DEF n
    <3> QED BY <2>1, <2>2, FoldStep
  <2>4. \A k \in 1..n : k - 1 \in 0..n /\ k \in 0..n
    BY <2>1
  <2>5. h[0] = base /\ \A k \in 1..n : h[k] = Scan(what, h[k - 1], t[k])
    BY <2>1, <2>3, <2>4
  <2>6. \A f : Folds(what, base, t, f, n) => f[1..n] = h[n]
    <3>1. \A f : Folds(what, base, t, f, n) => f[1..n] = g[1..n]
      <4> HIDE DEF n
      <4> QED BY <2>1, <2>2, FoldsAgree
    <3>2. h[n] = g[1..n]
      BY <2>1
    <3> QED BY <3>1, <3>2
  <2> HIDE DEF h
  <2> QED BY <2>5, <2>6
<1>3. \E h : /\ h[0] = base
             /\ \A k \in 1..Len(t) : h[k] = InDoubleQuotes(h[k - 1], t[k])
             /\ ValueFrom(base, t) = h[Len(t)]
  <2> DEFINE g == CHOOSE g : Folds("value", base, t, g, Len(t))
  <2>1. Folds("value", base, t, g, Len(t))
    BY <1>1, FoldExists
  <2>2. ValueFrom(base, t) = g[1..Len(t)]
    BY <1>1, Zenon DEF ValueFrom, FoldLeft, MapThenFoldSet, Folds, Scan
  <2>3. \A a, c : Scan("value", a, c) = InDoubleQuotes(a, c)
    BY Zenon DEF Scan
  <2> DEFINE what == "value"
  <2>4. Folds(what, base, t, g, Len(t)) /\ \A a, c : Scan(what, a, c) = InDoubleQuotes(a, c)
    BY <2>1, <2>3, Zenon
  <2> HIDE DEF g, what
  <2>5. PICK h : /\ h[0] = base
                 /\ \A k \in 1..Len(t) : h[k] = Scan(what, h[k - 1], t[k])
                 /\ \A f : Folds(what, base, t, f, Len(t)) => f[1..Len(t)] = h[Len(t)]
    BY <1>2
  <2>6. \A k \in 1..Len(t) : h[k] = InDoubleQuotes(h[k - 1], t[k])
    BY <2>4, <2>5
  <2>7. ValueFrom(base, t) = h[Len(t)]
    BY <2>2, <2>4, <2>5
  <2> QED BY <2>5, <2>6, <2>7
<1>4. \E h : /\ h[0] = base
             /\ \A k \in 1..Len(t) : h[k] = Deeper(h[k - 1], t[k])
             /\ DefaultFrom(base, t) = h[Len(t)]
  <2> DEFINE g == CHOOSE g : Folds("default", base, t, g, Len(t))
  <2>1. Folds("default", base, t, g, Len(t))
    BY <1>1, FoldExists
  <2>2. DefaultFrom(base, t) = g[1..Len(t)]
    BY <1>1, Zenon DEF DefaultFrom, FoldLeft, MapThenFoldSet, Folds, Scan
  <2>3. \A a, c : Scan("default", a, c) = Deeper(a, c)
    <3>1. "default" # "value"
      OBVIOUS
    <3> QED BY <3>1, Zenon DEF Scan
  <2> DEFINE what == "default"
  <2>4. Folds(what, base, t, g, Len(t)) /\ \A a, c : Scan(what, a, c) = Deeper(a, c)
    BY <2>1, <2>3, Zenon
  <2> HIDE DEF g, what
  <2>5. PICK h : /\ h[0] = base
                 /\ \A k \in 1..Len(t) : h[k] = Scan(what, h[k - 1], t[k])
                 /\ \A f : Folds(what, base, t, f, Len(t)) => f[1..Len(t)] = h[Len(t)]
    BY <1>2
  <2>6. \A k \in 1..Len(t) : h[k] = Deeper(h[k - 1], t[k])
    BY <2>4, <2>5
  <2>7. DefaultFrom(base, t) = h[Len(t)]
    BY <2>2, <2>4, <2>5
  <2> QED BY <2>5, <2>6, <2>7
<1> QED BY <1>3, <1>4

\* What is known behind n tokens of a default.
Counted(n) == [depth : Nat, len : 0..n, close : 0..n]

\* Deeper, for any opening and closing token.
DeeperWith(acc, c, opening, brace) ==
  IF acc.close # 0 THEN acc
  ELSE IF c = brace /\ acc.depth = 0 THEN [acc EXCEPT !.close = acc.len + 1]
  ELSE [acc EXCEPT !.len = @ + 1,
                   !.depth = IF c = opening THEN @ + 1 ELSE IF c = brace THEN @ - 1 ELSE @]

\* One token further.
LEMMA DeeperIs ==
  ASSUME NEW n \in Nat, NEW a \in Counted(n), NEW c
  PROVE  Deeper(a, c) \in Counted(n + 1)
<1>1. /\ a.depth \in Nat /\ a.len \in 0..n /\ a.close \in 0..n
      /\ a = [depth |-> a.depth, len |-> a.len, close |-> a.close]
  BY DEF Counted
<1>2. ASSUME NEW opening, NEW brace PROVE DeeperWith(a, c, opening, brace) \in Counted(n + 1)
  <2> DEFINE r == DeeperWith(a, c, opening, brace)
  <2>1. CASE a.close # 0
    BY <1>1, <2>1 DEF DeeperWith, Counted
  <2>2. CASE a.close = 0 /\ c = brace /\ a.depth = 0
    <3>1. r = [depth |-> a.depth, len |-> a.len, close |-> a.len + 1]
      BY <1>1, <2>2 DEF DeeperWith
    <3> HIDE DEF r
    <3>2. r \in Counted(n + 1)
      BY <1>1, <3>1 DEF Counted
    <3> QED BY <3>2 DEF r
  <2>3. CASE a.close = 0 /\ ~(c = brace /\ a.depth = 0)
    <3> DEFINE d == IF c = opening THEN a.depth + 1 ELSE IF c = brace THEN a.depth - 1 ELSE a.depth
    <3>1. d \in Nat
      BY <1>1, <2>3
    <3>2. r = [[a EXCEPT !.len = a.len + 1] EXCEPT !.depth = d]
      BY <1>1, <2>3 DEF DeeperWith
    <3> HIDE DEF r, d
    <3>3. r = [depth |-> d, len |-> a.len + 1, close |-> a.close]
      BY <1>1, <3>2
    <3>4. r \in Counted(n + 1)
      BY <1>1, <3>1, <3>3 DEF Counted
    <3> QED BY <3>4 DEF r
  <2> QED BY <2>1, <2>2, <2>3
<1>3. Deeper(a, c) = DeeperWith(a, c, "${", "}")
  BY Zenon DEF Deeper, DeeperWith
<1> QED BY <1>2, <1>3, Zenon

\* The brace that closes a default is in the text.
LEMMA ClosingIs ==
  ASSUME NEW t \in Text
  PROVE  Closing(t) \in 0..Len(t)
<1> DEFINE base == [depth |-> 0, len |-> 0, close |-> 0]
           g == CHOOSE g : Folds("default", base, t, g, Len(t))
           T == {n \in Nat : n <= Len(t) => g[1..n] \in Counted(n)}
<1>1. Len(t) \in Nat /\ DOMAIN t = 1..Len(t)
  BY DEF Text
<1>2. Folds("default", base, t, g, Len(t))
  BY <1>1, FoldExists
<1>3. Closing(t) = g[1..Len(t)].close
  BY <1>1, Zenon DEF Closing, FoldLeft, MapThenFoldSet, Folds, Scan
<1>4. base \in Counted(0)
  BY DEF Counted
<1> HIDE DEF g, base
<1>5. /\ g[1..0] = base
      /\ \A n \in 1..Len(t) : g[1..n] = Scan("default", g[1..(n - 1)], t[n])
  BY <1>1, <1>2, FoldStep
<1>6. 0 \in T
  BY <1>4, <1>5
<1>7. ASSUME NEW n \in Nat, n \in T PROVE n + 1 \in T
  <2> SUFFICES ASSUME n + 1 <= Len(t) PROVE g[1..(n + 1)] \in Counted(n + 1)
    OBVIOUS
  <2>1. g[1..n] \in Counted(n)
    BY <1>1, <1>7
  <2>2. n + 1 \in 1..Len(t) /\ (n + 1) - 1 = n
    BY <1>1
  <2>3. g[1..(n + 1)] = Scan("default", g[1..n], t[n + 1])
    BY <1>5, <2>2
  <2> QED BY <2>1, <2>3, DeeperIs DEF Scan
<1> HIDE DEF T
<1>8. Len(t) \in T
  BY <1>1, <1>6, <1>7, Induct
<1> QED BY <1>1, <1>3, <1>8 DEF T, Counted

\* What is known of a value behind some tokens.
Collected == [at : {"body", "escape", "end", "trailing"}, raw : Text]

\* One token further.
LEMMA InDoubleQuotesIs ==
  ASSUME NEW a \in Collected, NEW c \in Token
  PROVE  InDoubleQuotes(a, c) \in Collected
<1>1. /\ a.at \in {"body", "escape", "end", "trailing"} /\ a.raw \in Seq(Token)
      /\ a = [at |-> a.at, raw |-> a.raw]
  BY DEF Collected, Text
<1>2. "\\" \in Token
  BY DEF Token, Marks
<1>3. /\ Append(a.raw, c) \in Seq(Token) /\ a.raw \o <<c>> \in Seq(Token)
      /\ a.raw \o <<"\\", c>> \in Seq(Token)
  <2>1. <<"\\", c>> \in Seq(Token) /\ <<c>> \in Seq(Token)
    BY <1>2
  <2> QED BY <1>1, <2>1
<1>4. ASSUME NEW at \in {"body", "escape", "end", "trailing"}
      PROVE  [a EXCEPT !.at = at] \in Collected
  BY DEF Collected
<1>5. ASSUME NEW raw \in Seq(Token)
      PROVE  [a EXCEPT !.raw = raw] \in Collected
  BY DEF Collected, Text
<1>6. ASSUME NEW raw \in Seq(Token)
      PROVE  [a EXCEPT !.at = "body", !.raw = raw] \in Collected
  <2> DEFINE b == [a EXCEPT !.at = "body"]
  <2>1. b \in Collected
    BY <1>4
  <2>2. [a EXCEPT !.at = "body", !.raw = raw] = [b EXCEPT !.raw = raw]
    OBVIOUS
  <2> HIDE DEF b
  <2>3. [b EXCEPT !.raw = raw] \in Collected
    BY <2>1 DEF Collected, Text
  <2> QED BY <2>2, <2>3
<1> DEFINE r == InDoubleQuotes(a, c)
<1>7. CASE a.at = "body"
  <2>1. \/ r = [a EXCEPT !.at = "end"]
        \/ r = [a EXCEPT !.at = "escape"]
        \/ r = [a EXCEPT !.raw = Append(a.raw, c)]
    BY <1>7 DEF InDoubleQuotes
  <2> HIDE DEF r
  <2>2. r \in Collected
    BY <1>3, <1>4, <1>5, <2>1
  <2> QED BY <2>2 DEF r
<1>8. CASE a.at = "escape"
  <2> DEFINE kept == IF c \in {"\\", "\""} THEN <<c>> ELSE <<"\\", c>>
  <2>1. r = [a EXCEPT !.at = "body", !.raw = a.raw \o kept]
    BY <1>8 DEF InDoubleQuotes
  <2>2. a.raw \o kept \in Seq(Token)
    BY <1>3
  <2> HIDE DEF r, kept
  <2>3. r \in Collected
    BY <1>6, <2>1, <2>2
  <2> QED BY <2>3 DEF r
<1>9. CASE a.at \in {"end", "trailing"}
  <2>1. r = [a EXCEPT !.at = "trailing"] \/ r = a
    BY <1>9 DEF InDoubleQuotes
  <2> HIDE DEF r
  <2>2. r \in Collected
    BY <1>4, <2>1
  <2> QED BY <2>2 DEF r
<1> QED BY <1>1, <1>7, <1>8, <1>9

\* A text in double quotes says a text.
LEMMA QuotedIs ==
  ASSUME NEW t \in Text
  PROVE  FoldLeft(InDoubleQuotes, [at |-> "body", raw |-> <<>>], t) \in Collected
<1> DEFINE base == [at |-> "body", raw |-> <<>>]
           g == CHOOSE g : Folds("value", base, t, g, Len(t))
           T == {n \in Nat : n <= Len(t) => g[1..n] \in Collected}
<1>1. Len(t) \in Nat /\ DOMAIN t = 1..Len(t) /\ \A n \in 1..Len(t) : t[n] \in Token
  BY DEF Text
<1>2. Folds("value", base, t, g, Len(t))
  BY <1>1, FoldExists
<1>3. FoldLeft(InDoubleQuotes, base, t) = g[1..Len(t)]
  BY <1>1, Zenon DEF FoldLeft, MapThenFoldSet, Folds, Scan
<1>4. base \in Collected
  <2>1. <<>> \in Text
    BY DEF Text
  <2> QED BY <2>1 DEF Collected
<1> HIDE DEF g, base
<1>5. /\ g[1..0] = base
      /\ \A n \in 1..Len(t) : g[1..n] = Scan("value", g[1..(n - 1)], t[n])
  <2>1. Len(t) \in Nat
    BY <1>1
  <2> QED BY <1>2, <2>1, FoldStep
<1>6. 0 \in T
  BY <1>4, <1>5
<1>7. ASSUME NEW n \in Nat, n \in T PROVE n + 1 \in T
  <2> SUFFICES ASSUME n + 1 <= Len(t) PROVE g[1..(n + 1)] \in Collected
    OBVIOUS
  <2>1. g[1..n] \in Collected
    BY <1>1, <1>7
  <2>2. n + 1 \in 1..Len(t) /\ (n + 1) - 1 = n
    BY <1>1
  <2>3. g[1..(n + 1)] = Scan("value", g[1..n], t[n + 1])
    BY <1>5, <2>2
  <2> QED BY <1>1, <2>1, <2>2, <2>3, InDoubleQuotesIs DEF Scan
<1> HIDE DEF T
<1>8. Len(t) \in T
  BY <1>1, <1>6, <1>7, Induct
<1>9. g[1..Len(t)] \in Collected
  BY <1>1, <1>8 DEF T
<1> QED BY <1>3, <1>9 DEF base

\* Trimming a text leaves a text.
LEMMA TrimmedIs ==
  ASSUME NEW t \in Text
  PROVE  Trimmed(t) \in Text
<1> DEFINE ink == {i \in 1..Len(t) : NotBlank(t[i])}
<1>1. t \in Seq(Token) /\ Len(t) \in Nat
  BY DEF Text
<1>2. CASE ink = {}
  <2>1. Trimmed(t) = <<>>
    BY <1>2, Zenon DEF Trimmed, SelectInSeq
  <2> QED BY <2>1 DEF Text
<1>3. CASE ink # {}
  <2>1. Min(ink) \in 1..Len(t) /\ Max(ink) \in 1..Len(t) /\ Min(ink) <= Max(ink)
    BY <1>1, <1>3, FirstAndLast
  <2>2. Min(ink) # 0
    BY <2>1
  <2>3. Trimmed(t) = SubSeq(t, Min(ink), Max(ink))
    BY <1>3, <2>2, Zenon DEF Trimmed, SelectInSeq, SelectLastInSeq
  <2> HIDE DEF ink
  <2>4. Min(ink) \in 1..(Len(t) + 1) /\ Max(ink) \in (Min(ink) - 1)..Len(t)
    BY <1>1, <2>1
  <2> QED BY <1>1, <2>3, <2>4, Part DEF Text
<1> QED BY <1>2, <1>3

\* What is read of a line is a value.
LEMMA ReadValueIs ==
  ASSUME NEW t \in Text
  PROVE  ReadValue(t) \subseteq FileValue
<1> DEFINE value == Trimmed(t)
           rest == IF value = <<>> THEN <<>> ELSE Tail(value)
           close == SelectInSeq(rest, LAMBDA c : c = "'")
           acc == FoldLeft(InDoubleQuotes, [at |-> "body", raw |-> <<>>], rest)
<1>1. value \in Text
  BY TrimmedIs
<1>2. rest \in Text
  BY <1>1 DEF Text
<1>3. acc \in Collected
  BY <1>2, QuotedIs
<1>4. close # 0 /\ close = Len(rest) => Front(rest) \in Text
  <2> HIDE DEF close, rest
  <2> SUFFICES ASSUME Len(rest) # 0 PROVE Front(rest) \in Text
    OBVIOUS
  <2>1. rest \in Seq(Token) /\ Len(rest) \in Nat \ {0}
    BY <1>2 DEF Text
  <2>2. 1 \in 1..(Len(rest) + 1) /\ Len(rest) - 1 \in (1 - 1)..Len(rest)
    BY <2>1
  <2> QED BY <2>1, <2>2, Part DEF Front, Text
<1>5. \/ ReadValue(t) = {}
      \/ /\ close # 0 /\ close = Len(rest)
         /\ ReadValue(t) = {[raw |-> Front(rest), quoting |-> "single"]}
      \/ ReadValue(t) = {[raw |-> acc.raw, quoting |-> "double"]}
      \/ ReadValue(t) = {[raw |-> value, quoting |-> "none"]}
  <2> DEFINE single == value # <<>> /\ value[1] = "'"
             double == value # <<>> /\ value[1] = "\""
  <2>1. ReadValue(t) =
          CASE single -> IF close # 0 /\ close = Len(rest)
                         THEN {[raw |-> Front(rest), quoting |-> "single"]} ELSE {}
            [] double -> IF acc.at = "end" THEN {[raw |-> acc.raw, quoting |-> "double"]} ELSE {}
            [] OTHER -> {[raw |-> value, quoting |-> "none"]}
    BY DEF ReadValue
  <2>2. ~(single /\ double)
    OBVIOUS
  <2> HIDE DEF value, rest, close, acc, single, double
  <2> QED BY <2>1, <2>2
<1> HIDE DEF value, rest, close, acc
<1> QED BY <1>1, <1>3, <1>4, <1>5 DEF FileValue, Quotings, Collected

\* A reference to a variable.
Reference == [name : Names, default : SUBSET Text, next : Nat \ {0}]

\* What is read of a reference is one.
LEMMA ReferencesIs ==
  ASSUME NEW t \in Text, NEW i \in Nat \ {0}
  PROVE  References(t, i) \subseteq Reference
<1>1. t \in Seq(Token) /\ Len(t) \in Nat
  BY DEF Text
<1> SUFFICES ASSUME ~(i + 2 > Len(t) \/ t[i + 1] \notin Names)
             PROVE  References(t, i) \subseteq Reference
  BY Zenon DEF References
<1> DEFINE inside == SubSeq(t, i + 3, Len(t))
           close == Closing(inside)
<1>2. inside \in Seq(Token)
  <2>1. i + 3 \in 1..(Len(t) + 1) /\ Len(t) \in (i + 3 - 1)..Len(t)
    BY <1>1
  <2> QED BY <1>1, <2>1, Part
<1>3. close \in 0..Len(inside) /\ Len(inside) \in Nat
  <2> HIDE DEF inside
  <2> QED BY <1>2, ClosingIs DEF Text
<1>4. close # 0 => SubSeq(inside, 1, close - 1) \in Text
  <2> SUFFICES ASSUME close # 0 PROVE SubSeq(inside, 1, close - 1) \in Text
    OBVIOUS
  <2> HIDE DEF inside, close
  <2>1. 1 \in 1..(Len(inside) + 1) /\ close - 1 \in (1 - 1)..Len(inside)
    BY <1>3
  <2> QED BY <1>2, <2>1, Part DEF Text
<1>5. \/ References(t, i) = {}
      \/ References(t, i) = {[name |-> t[i + 1], default |-> {}, next |-> i + 3]}
      \/ /\ close # 0
         /\ References(t, i) = {[name |-> t[i + 1], default |-> {SubSeq(inside, 1, close - 1)},
                                 next |-> i + 3 + close]}
  BY Zenon DEF References
<1>6. /\ i + 3 \in Nat \ {0} /\ i + 3 + close \in Nat \ {0}
      /\ t[i + 1] \in Names
  BY <1>3
<1> HIDE DEF inside, close
<1>7. [name |-> t[i + 1], default |-> {}, next |-> i + 3] \in Reference
  BY <1>6 DEF Reference
<1>8. close # 0 => [name |-> t[i + 1], default |-> {SubSeq(inside, 1, close - 1)},
                    next |-> i + 3 + close] \in Reference
  BY <1>4, <1>6 DEF Reference
<1> QED BY <1>5, <1>7, <1>8, Zenon

\* The text up to a reference is a text.
LEMMA PlainIs ==
  ASSUME NEW t \in Text
  PROVE  Plain(t) \in Text /\ Len(Plain(t)) \in Nat
<1> DEFINE I == {i \in 1..Len(t) : t[i] = "${"}
<1>1. t \in Seq(Token) /\ Len(t) \in Nat
  BY DEF Text
<1>2. \/ Plain(t) = t
      \/ I # {} /\ Plain(t) = SubSeq(t, 1, Min(I) - 1)
  BY Zenon DEF Plain, SelectInSeq
<1>3. CASE I # {} /\ Plain(t) = SubSeq(t, 1, Min(I) - 1)
  <2>1. Min(I) \in 1..Len(t)
    BY <1>1, <1>3, FirstAndLast
  <2> HIDE DEF I
  <2>2. 1 \in 1..(Len(t) + 1) /\ Min(I) - 1 \in (1 - 1)..Len(t)
    BY <1>1, <2>1
  <2> QED BY <1>1, <1>3, <2>1, <2>2, Part DEF Text
<1> QED BY <1>1, <1>2, <1>3 DEF Text

-----------------------------------------------------------------------------
(* Types.                                                                  *)

\* A map of some names.
IsMap(m, S) == DOMAIN m \subseteq Names /\ m \in [DOMAIN m -> S]

\* Maps laid over each other.
LEMMA OverIs ==
  ASSUME NEW S, NEW upper, NEW lower, IsMap(upper, S), IsMap(lower, S)
  PROVE  IsMap(Over(upper, lower), S)
<1> DEFINE m == Over(upper, lower)
<1>1. /\ DOMAIN m = DOMAIN upper \cup DOMAIN lower
      /\ m = [n \in DOMAIN upper \cup DOMAIN lower |->
                IF n \in DOMAIN upper THEN upper[n] ELSE lower[n]]
  BY DEF Over
<1>2. \A n \in DOMAIN m : m[n] \in S
  BY <1>1 DEF IsMap
<1>3. m = [n \in DOMAIN m |-> m[n]]
  BY <1>1
<1> HIDE DEF m
<1>4. DOMAIN m \subseteq Names
  BY <1>1 DEF IsMap
<1>5. m \in [DOMAIN m -> S]
  BY <1>2, <1>3
<1> QED BY <1>4, <1>5 DEF IsMap, m

\* One more name.
LEMMA WithIs ==
  ASSUME NEW S, NEW m, IsMap(m, S), NEW n \in Names, NEW v \in S
  PROVE  IsMap(With(m, n, v), S)
<1>1. IsMap([x \in {n} |-> v], S)
  BY DEF IsMap
<1> QED BY <1>1, OverIs DEF With

\* A state's maps.
LEMMA MapsTyped ==
  TypeOK <=> /\ input \in Inputs
             /\ phase \in {"read", "resolve", "started"} \cup Failures
             /\ line \in Nat \ {0}
             /\ IsMap(file, FileValue) /\ IsMap(map, Entry)
             /\ IsMap(memo, Text) /\ IsMap(child, Text)
             /\ visiting \in Seq(Names)
             /\ stack \in Seq(Frame)
  BY DEF TypeOK, IsMap, IsEnvironment

\* No map at all.
LEMMA EmptyIs ==
  ASSUME NEW S
  PROVE  IsMap(<<>>, S)
  BY DEF IsMap

\* What an input is made of.
LEMMA InputIs ==
  ASSUME input \in Inputs
  PROVE  /\ input.lines \in Seq(Line)
         /\ IsMap(input.parent, Text) /\ IsMap(input.portool, Text)
  BY ExecAssumption, Zenon DEF IsInput, IsEnvironment, IsMap

\* A failing exec stays typed.
LEMMA FailTyped ==
  ASSUME TypeOK, NEW kind \in Failures, Fail(kind)
  PROVE  TypeOK'
<1>1. UNCHANGED <<input, line, file, map, memo, visiting, stack, child>> /\ phase' = kind
  BY DEF Fail
<1> QED BY <1>1 DEF TypeOK, IsEnvironment

\* What a line says is a value.
LEMMA ReadLineTyped == TypeOK /\ ReadLine => TypeOK'
<1> SUFFICES ASSUME TypeOK, ReadLine PROVE TypeOK'
  OBVIOUS
<1> DEFINE l == input.lines[line]
           values == IF l.kind = "set" THEN ReadValue(l.text) ELSE {}
<1>1. /\ line \in DOMAIN input.lines /\ line \in Nat
      /\ IsMap(file, FileValue)
  BY MapsTyped DEF ReadLine
<1>2. l \in Line
  <2>1. input.lines \in Seq(Line)
    BY InputIs, MapsTyped
  <2> QED BY <1>1, <2>1
<1>3. CASE l.kind # "skip" /\ values = {}
  <2>1. Fail("unreadable")
    BY <1>3 DEF ReadLine
  <2> QED BY <2>1, FailTyped DEF Failures
<1>4. CASE ~(l.kind # "skip" /\ values = {})
  <2>1. /\ \/ l.kind = "skip" /\ UNCHANGED file
           \/ \E v \in values : file' = With(file, l.name, v)
        /\ line' = line + 1
        /\ UNCHANGED <<input, phase, map, memo, visiting, stack, child>>
    BY <1>4 DEF ReadLine
  <2>2. IsMap(file', FileValue)
    <3>1. CASE UNCHANGED file
      BY <1>1, <3>1
    <3>2. ASSUME NEW v \in values, file' = With(file, l.name, v)
          PROVE  IsMap(file', FileValue)
      <4>1. l.kind = "set" /\ v \in ReadValue(l.text)
        BY <3>2
      <4> HIDE DEF l, values
      <4>2. l.name \in Names /\ l.text \in Text
        BY <1>2, <4>1 DEF Line
      <4>3. v \in FileValue
        BY <4>1, <4>2, ReadValueIs
      <4> QED BY <1>1, <3>2, <4>2, <4>3, WithIs
    <3> QED BY <2>1, <3>1, <3>2
  <2>3. line' \in Nat \ {0}
    BY <1>1, <2>1
  <2> HIDE DEF l, values
  <2> QED BY <2>1, <2>2, <2>3, MapsTyped DEF IsMap, TypeOK, IsEnvironment
<1> QED BY <1>3, <1>4

\* What is merged are entries.
LEMMA ComposeTyped == TypeOK /\ Compose => TypeOK'
<1> SUFFICES ASSUME TypeOK, Compose PROVE TypeOK'
  OBVIOUS
<1>1. /\ phase' = "resolve" /\ map' = Merged
      /\ UNCHANGED <<input, line, file, memo, visiting, stack, child>>
  BY DEF Compose
<1>2. IsMap(file, Entry)
  <2>1. IsMap(file, FileValue)
    BY MapsTyped
  <2>2. FileValue \subseteq Entry
    BY DEF FileValue, Entry
  <2> QED BY <2>1, <2>2 DEF IsMap
<1>3. ASSUME NEW t \in Text PROVE Decoded(t) \in Text
  <2>1. t \in Seq(Token)
    BY DEF Text
  <2>2. "?" \in Token
    BY DEF Token, Marks
  <2>3. Len(t) \in Nat /\ DOMAIN t = 1..Len(t) /\ \A i \in DOMAIN t : t[i] \in Token
    BY <2>1
  <2>4. Decoded(t) \in [1..Len(t) -> Token]
    BY <2>2, <2>3 DEF Decoded
  <2> QED BY <2>3, <2>4 DEF Text
<1>4. ASSUME NEW env, IsMap(env, Text) PROVE IsMap(Literals(env), Entry)
  <2>1. \A n \in DOMAIN env : env[n] \in Text /\ n \in Names
    BY <1>4 DEF IsMap
  <2>2. \A n \in DOMAIN env : [raw |-> Decoded(env[n]), quoting |-> "literal"] \in Entry
    BY <1>3, <2>1 DEF Entry
  <2> QED BY <2>1, <2>2 DEF Literals, IsMap
<1>5. IsMap(Literals(input.portool), Entry) /\ IsMap(Literals(input.parent), Entry)
  BY <1>4, InputIs, MapsTyped
<1>6. IsMap(Merged, Entry)
  BY <1>2, <1>5, OverIs DEF Merged
<1> QED BY <1>1, <1>6, MapsTyped DEF TypeOK, IsMap, IsEnvironment

\* What is called is a name of the map.
LEMMA CalledIs ==
  ASSUME TypeOK, NEW n \in Called
  PROVE  n \in Names /\ n \in DOMAIN map /\ map[n].raw \in Text
<1>1. n \in DOMAIN map
  BY DEF Called, FirstPending, Pending
<1> QED BY <1>1, MapsTyped DEF IsMap, Entry

\* A literal value is a text.
LEMMA LiteralTyped == TypeOK /\ Literal => TypeOK'
<1> SUFFICES ASSUME TypeOK, Literal PROVE TypeOK'
  OBVIOUS
<1>1. PICK n \in Called : memo' = With(memo, n, map[n].raw)
  BY DEF Literal
<1>2. UNCHANGED <<input, phase, line, file, map, visiting, stack, child>>
  BY DEF Literal
<1>3. IsMap(memo', Text)
  BY <1>1, CalledIs, WithIs, MapsTyped
<1> QED BY <1>2, <1>3, MapsTyped DEF TypeOK, IsMap, IsEnvironment

\* One element more, or another one.
LEMMA ElementIs ==
  ASSUME NEW S, NEW s \in Seq(S), NEW x, NEW k
  PROVE  /\ x \in S => Append(s, x) \in Seq(S)
         /\ (k \in DOMAIN s => x \in S) => [s EXCEPT ![k] = x] \in Seq(S)
<1>1. ASSUME x \in S PROVE Append(s, x) \in Seq(S)
  BY <1>1
<1>2. ASSUME k \in DOMAIN s => x \in S PROVE [s EXCEPT ![k] = x] \in Seq(S)
  <2>1. Len(s) \in Nat /\ s \in [1..Len(s) -> S]
    OBVIOUS
  <2>2. [s EXCEPT ![k] = x] \in [1..Len(s) -> S]
    BY <1>2, <2>1
  <2> QED BY <2>1, <2>2
<1> QED BY <1>1, <1>2

\* A new call is a frame.
LEMMA NewFrameIs ==
  ASSUME NEW n \in Names, NEW text \in Text, NEW default \in BOOLEAN
  PROVE  NewFrame(n, text, default) \in Frame
<1>1. <<>> \in Text
  BY DEF Text
<1> QED BY <1>1 DEF NewFrame, Frame

\* The innermost call is a frame.
LEMMA TopTyped ==
  ASSUME TypeOK, stack # <<>>
  PROVE  Top \in Frame /\ Len(stack) \in Nat \ {0}
<1>1. stack \in Seq(Frame)
  BY DEF TypeOK
<1> QED BY <1>1 DEF Top

\* A value is entered.
LEMMA EnterTyped == TypeOK /\ Enter => TypeOK'
<1> SUFFICES ASSUME TypeOK, Enter PROVE TypeOK'
  OBVIOUS
<1>1. PICK n \in Called : /\ visiting' = Append(visiting, n)
                          /\ stack' = Append(stack, NewFrame(n, map[n].raw, FALSE))
  BY DEF Enter
<1>2. UNCHANGED <<input, phase, line, file, map, memo, child>>
  BY DEF Enter
<1>3. n \in Names /\ NewFrame(n, map[n].raw, FALSE) \in Frame
  BY CalledIs, NewFrameIs
<1>4. visiting' \in Seq(Names) /\ stack' \in Seq(Frame)
  BY <1>1, <1>3, ElementIs, Zenon DEF TypeOK
<1> QED BY <1>2, <1>4 DEF TypeOK, IsEnvironment

\* The innermost call stays a frame.
LEMMA TopBecomesTyped ==
  ASSUME TypeOK, stack # <<>>, NEW f \in Frame, TopBecomes(f),
         UNCHANGED <<input, phase, line, file, map, memo, visiting, child>>
  PROVE  TypeOK'
<1>1. stack' \in Seq(Frame)
  BY DEF TypeOK, TopBecomes
<1> QED BY <1>1 DEF TypeOK, IsEnvironment

\* Plain text is copied.
LEMMA CopyTyped == TypeOK /\ Copy => TypeOK'
<1> SUFFICES ASSUME TypeOK, Copy PROVE TypeOK'
  OBVIOUS
<1> DEFINE plain == Plain(SubSeq(Top.text, Top.next, Len(Top.text)))
           f == [[Top EXCEPT !.out = @ \o plain] EXCEPT !.next = @ + Len(plain)]
<1>1. stack # <<>> /\ Top.next <= Len(Top.text)
  BY DEF Copy, Scanning
<1>2. Top \in Frame
  BY <1>1, TopTyped
<1>3. Top.text \in Seq(Token) /\ Top.out \in Seq(Token) /\ Top.next \in Nat \ {0}
  BY <1>2 DEF Frame, Text
<1>4. SubSeq(Top.text, Top.next, Len(Top.text)) \in Text
  <2> DEFINE t == Top.text
             i == Top.next
  <2> HIDE DEF t, i
  <2>1. t \in Seq(Token) /\ i \in Nat \ {0} /\ i <= Len(t)
    BY <1>1, <1>3 DEF t, i
  <2>2. i \in 1..(Len(t) + 1) /\ Len(t) \in (i - 1)..Len(t)
    BY <2>1
  <2>3. SubSeq(t, i, Len(t)) \in Text
    BY <2>1, <2>2, Part DEF Text
  <2> QED BY <2>3 DEF t, i
<1>5. plain \in Text /\ Len(plain) \in Nat
  BY <1>4, PlainIs
<1>6. f = [Top EXCEPT !.out = @ \o plain, !.next = @ + Len(plain)]
  BY <1>2 DEF Frame
<1>7. TopBecomes(f)
  BY <1>6 DEF Copy
<1> HIDE DEF plain
<1>8. f \in Frame
  <2>1. Top.out \o plain \in Text
    BY <1>3, <1>5 DEF Text
  <2>2. Top.next + Len(plain) \in Nat \ {0}
    BY <1>3, <1>5
  <2> DEFINE g == [Top EXCEPT !.out = @ \o plain]
  <2>3. g \in Frame /\ g.next = Top.next
    BY <1>2, <2>1 DEF Frame
  <2> HIDE DEF g
  <2>4. [g EXCEPT !.next = @ + Len(plain)] \in Frame
    BY <2>2, <2>3 DEF Frame
  <2> QED BY <2>4 DEF g
<1> HIDE DEF f
<1> QED BY <1>1, <1>7, <1>8, TopBecomesTyped DEF Copy

\* A reference is read.
LEMMA ReferTyped == TypeOK /\ Refer => TypeOK'
<1> SUFFICES ASSUME TypeOK, Refer PROVE TypeOK'
  OBVIOUS
<1> DEFINE found == References(Top.text, Top.next)
<1>1. stack # <<>>
  BY DEF Refer, Scanning
<1>2. Top \in Frame /\ Top.text \in Text /\ Top.next \in Nat \ {0}
  BY <1>1, TopTyped DEF Frame
<1>3. CASE found = {}
  <2>1. Fail("malformed")
    BY <1>3 DEF Refer
  <2> QED BY <2>1, FailTyped DEF Failures
<1>4. CASE found # {}
  <2>1. PICK r \in found : TopBecomes([Top EXCEPT !.ref = {r}, !.next = r.next])
    BY <1>4 DEF Refer
  <2>2. UNCHANGED <<input, phase, line, file, map, memo, visiting, child>>
    BY <1>4 DEF Refer
  <2>3. r \in Reference
    BY <1>2, ReferencesIs
  <2> DEFINE g == [Top EXCEPT !.ref = {r}]
             f == [g EXCEPT !.next = r.next]
  <2>4. f = [Top EXCEPT !.ref = {r}, !.next = r.next]
    OBVIOUS
  <2>5. g \in Frame
    BY <1>2, <2>3 DEF Frame, Reference
  <2> HIDE DEF g
  <2>6. f \in Frame
    BY <2>3, <2>5 DEF Frame, Reference
  <2>7. TopBecomes(f)
    BY <2>1, <2>4
  <2> HIDE DEF f
  <2> QED BY <1>1, <2>2, <2>6, <2>7, TopBecomesTyped
<1> QED BY <1>3, <1>4

\* A reference is answered.
LEMMA SubstituteTyped == TypeOK /\ Substitute => TypeOK'
<1> SUFFICES ASSUME TypeOK, Substitute PROVE TypeOK'
  OBVIOUS
<1>1. stack # <<>>
  BY DEF Substitute
<1>2. PICK r \in Top.ref : /\ Usable(r)
                           /\ TopBecomes([Top EXCEPT !.out = @ \o memo[r.name], !.ref = {}])
  BY DEF Substitute
<1>3. UNCHANGED <<input, phase, line, file, map, memo, visiting, child>>
  BY DEF Substitute
<1>4. memo[r.name] \in Seq(Token)
  <2>1. r.name \in DOMAIN memo
    BY <1>2 DEF Usable, Resolved
  <2> QED BY <2>1, MapsTyped DEF IsMap, Text
<1>5. Top \in Frame /\ Top.out \in Seq(Token)
  BY <1>1, TopTyped DEF Frame, Text
<1>6. Top.out \o memo[r.name] \in Text
  BY <1>4, <1>5 DEF Text
<1> DEFINE g == [Top EXCEPT !.out = @ \o memo[r.name]]
           f == [g EXCEPT !.ref = {}]
<1>7. f = [Top EXCEPT !.out = @ \o memo[r.name], !.ref = {}]
  OBVIOUS
<1>8. g \in Frame
  BY <1>5, <1>6 DEF Frame
<1> HIDE DEF g
<1>9. f \in Frame
  BY <1>8 DEF Frame
<1>10. TopBecomes(f)
  BY <1>2, <1>7
<1> HIDE DEF f
<1> QED BY <1>1, <1>3, <1>9, <1>10, TopBecomesTyped

\* A default is entered.
LEMMA EnterDefaultTyped == TypeOK /\ EnterDefault => TypeOK'
<1> SUFFICES ASSUME TypeOK, EnterDefault PROVE TypeOK'
  OBVIOUS
<1>1. /\ stack # <<>>
      /\ UNCHANGED <<input, phase, line, file, map, memo, visiting, child>>
  BY DEF EnterDefault
<1>2. PICK d \in UNION {s.default : s \in Top.ref} :
        stack' = Append([stack EXCEPT ![Len(stack)].ref = {}], NewFrame(Top.owner, d, TRUE))
  BY DEF EnterDefault
<1>3. Top \in Frame
  BY <1>1, TopTyped
<1>4. d \in Text /\ Top.owner \in Names
  BY <1>3 DEF Frame
<1>5. NewFrame(Top.owner, d, TRUE) \in Frame
  BY <1>4, NewFrameIs
<1> DEFINE waiting == [stack EXCEPT ![Len(stack)] = [Top EXCEPT !.ref = {}]]
<1>6. stack' = Append(waiting, NewFrame(Top.owner, d, TRUE))
  BY <1>2 DEF Top
<1>7. [Top EXCEPT !.ref = {}] \in Frame
  BY <1>3 DEF Frame
<1>8. waiting \in Seq(Frame)
  BY <1>7, ElementIs, Zenon DEF TypeOK
<1> HIDE DEF waiting
<1>9. stack' \in Seq(Frame)
  BY <1>5, <1>6, <1>8, ElementIs, Zenon
<1> QED BY <1>1, <1>9 DEF TypeOK, IsEnvironment

\* All but the last of some.
LEMMA FrontIs ==
  ASSUME NEW S, NEW s \in Seq(S), s # <<>>
  PROVE  Front(s) \in Seq(S)
<1>1. 1 \in 1..(Len(s) + 1) /\ Len(s) - 1 \in (1 - 1)..Len(s)
  OBVIOUS
<1> QED BY <1>1, Part DEF Front

\* A value is final.
LEMMA ReturnTyped == ExecInv /\ TypeOK /\ Return => TypeOK'
<1> SUFFICES ASSUME ExecInv, TypeOK, Return PROVE TypeOK'
  OBVIOUS
<1>1. /\ stack # <<>> /\ Resolving /\ ~Top.default
      /\ memo' = With(memo, Top.owner, Top.out)
      /\ visiting' = Front(visiting) /\ stack' = Front(stack)
      /\ UNCHANGED <<input, phase, line, file, map, child>>
  BY DEF Return, AtEnd
<1>2. Top \in Frame /\ Top.owner \in Names /\ Top.out \in Text
  BY <1>1, TopTyped DEF Frame
<1>3. IsMap(memo', Text)
  BY <1>1, <1>2, WithIs, MapsTyped
<1>4. visiting # <<>>
  <2>1. StackInv /\ NestInv
    BY <1>1, WhileResolving
  <2>2. Len(stack) \in DOMAIN stack
    BY <1>1, <2>1, TopIsFrame
  <2>3. PICK e \in [DOMAIN stack -> Nat] : Nests(e)
    BY <2>1 DEF NestInv
  <2>4. e[Len(stack)] \in DOMAIN visiting
    BY <1>1, <2>2, <2>3 DEF Nests, Top
  <2> QED BY <2>4
<1>5. visiting' \in Seq(Names) /\ stack' \in Seq(Frame)
  BY <1>1, <1>4, FrontIs DEF TypeOK
<1> QED BY <1>1, <1>3, <1>5, MapsTyped DEF TypeOK, IsMap, IsEnvironment

\* What a default means goes into the call around it.
LEMMA ReturnDefaultTyped == TypeOK /\ ReturnDefault => TypeOK'
<1> SUFFICES ASSUME TypeOK, ReturnDefault PROVE TypeOK'
  OBVIOUS
<1> DEFINE rest == Front(stack)
           k == Len(stack) - 1
           f == [rest[k] EXCEPT !.out = rest[k].out \o Top.out]
<1>1. /\ stack # <<>>
      /\ stack' = [rest EXCEPT ![k] = f]
      /\ UNCHANGED <<input, phase, line, file, map, memo, visiting, child>>
  BY DEF ReturnDefault, AtEnd
<1>2. rest \in Seq(Frame)
  BY <1>1, FrontIs DEF TypeOK
<1>3. Top.out \in Seq(Token)
  BY <1>1, TopTyped DEF Frame, Text
<1> HIDE DEF rest, k
<1>4. k \in DOMAIN rest => f \in Frame
  <2> SUFFICES ASSUME k \in DOMAIN rest PROVE f \in Frame
    OBVIOUS
  <2>1. rest[k] \in Frame
    BY <1>2
  <2>2. rest[k].out \o Top.out \in Text
    BY <1>3, <2>1 DEF Frame, Text
  <2> QED BY <2>1, <2>2 DEF Frame
<1> HIDE DEF f
<1>5. stack' \in Seq(Frame)
  BY <1>1, <1>2, <1>4, ElementIs, Zenon
<1> QED BY <1>1, <1>5 DEF TypeOK, IsEnvironment

\* The program's environment is one.
LEMMA ExecTyped == ExecInv /\ TypeOK /\ Exec => TypeOK'
<1> SUFFICES ASSUME ExecInv, TypeOK, Exec PROVE TypeOK'
  OBVIOUS
<1>1. /\ Resolving /\ Pending = {} /\ phase' = "started"
      /\ child' = Over([n \in SetOnChild |-> memo[n]], input.parent)
      /\ UNCHANGED <<input, line, file, map, memo, visiting, stack>>
  BY DEF Exec, AllResolved
<1>2. map = Merged
  BY <1>1, WhileResolving DEF MemoInv
<1>3. SetOnChild \subseteq DOMAIN memo
  <2>1. SetOnChild \subseteq DOMAIN map
    BY <1>2 DEF SetOnChild, Merged, Over, Literals
  <2> QED BY <1>1, <2>1 DEF Pending
<1>4. IsMap([n \in SetOnChild |-> memo[n]], Text)
  BY <1>3, MapsTyped DEF IsMap
<1>5. IsMap(child', Text)
  BY <1>1, <1>4, OverIs, InputIs, MapsTyped
<1> QED BY <1>1, <1>5, MapsTyped DEF TypeOK, IsMap, IsEnvironment

\* The types are inductive, next to the invariant.
LEMMA NextTyped == ExecInv /\ TypeOK /\ [Next]_vars => TypeOK'
<1> SUFFICES ASSUME ExecInv, TypeOK, [Next]_vars PROVE TypeOK'
  OBVIOUS
<1>1. CASE UNCHANGED vars
  BY <1>1 DEF vars, TypeOK, IsEnvironment
<1>2. CASE Circular \/ Undefined \/ NotExecuted
  <2>1. PICK kind \in Failures : Fail(kind)
    BY <1>2 DEF Circular, Undefined, NotExecuted, Failures
  <2> QED BY <2>1, FailTyped
<1> QED BY <1>1, <1>2, ReadLineTyped, ComposeTyped, LiteralTyped, EnterTyped, CopyTyped,
           ReferTyped, SubstituteTyped, EnterDefaultTyped, ReturnTyped, ReturnDefaultTyped,
           ExecTyped
        DEF Next

\* Whatever the files say, what is read of them are values, references and
\* defaults, what every call goes on with and what is final are texts: however
\* quotes, braces and defaults are left open, nothing is taken from beyond the
\* end of a text (ReadValue, References: parse_env_str, expand).
THEOREM ExecTypeCorrect == Spec => []TypeOK
<1>1. Init => TypeOK
  <2> SUFFICES ASSUME Init PROVE TypeOK
    OBVIOUS
  <2>1. <<>> \in Seq(Names) /\ <<>> \in Seq(Frame)
    OBVIOUS
  <2> QED BY <2>1, EmptyIs, MapsTyped DEF Init
<1>2. ExecInv /\ TypeOK /\ [Next]_vars => TypeOK'
  BY NextTyped
<1> QED BY <1>1, <1>2, ExecInvariant, PTL DEF Spec
====
