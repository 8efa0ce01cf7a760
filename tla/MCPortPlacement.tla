--------------------------- MODULE MCPortPlacement ---------------------------
(***************************************************************************)
(* Two kinds of requests.  Ledgers of up to three owners and four blocks,  *)
(* with nested, touching, reversed and zero blocks among theirs, before    *)
(* one pool; and every pool within a few ports, each manifest, before the  *)
(* sound ledgers of up to two blocks and those in the middle of a move.    *)
(***************************************************************************)
EXTENDS PortPlacement, FiniteSets

Blocks == {<<1, 1>>, <<1, 3>>, <<2, 2>>, <<3, 3>>, <<3, 2>>, <<0, 1>>}

Moving == [block : Blocks, pending : {{}} \cup {{b} : b \in Blocks}]

AtMostFour(owners) ==
  Cardinality({i \in DOMAIN owners : owners[i].pending # {}}) <= 4 - Len(owners)

File(owners) == [parses |-> TRUE, version |-> 4, range |-> <<1, MaxPort>>, owners |-> owners]

\* The reversed range and the unknown version need no owners.
AnyLedgers ==
  {File(o) : o \in {o \in UNION {[1..n -> Moving] : n \in 0..3} : AtMostFour(o)}}
  \cup [parses : BOOLEAN, version : 0..5, range : {<<1, 3>>, <<3, 1>>}, owners : {<<>>}]

Settled(b) == [block |-> b, pending |-> {}]

\* Disjoint blocks of two worktrees, in either order in the file: once is enough.
SoundLedgers ==
  {File(<<>>)} \cup {File(<<Settled(b)>>) : b \in Block}
  \cup {File(<<Settled(p[1]), Settled(p[2])>>) :
          p \in {p \in Block \X Block : p[1][2] < p[2][1]}}

MovingLedgers ==
  {File(<<[block |-> <<1, 2>>, pending |-> {b}], Settled(<<5, 5>>)>>) :
     b \in {<<3, 4>>, <<2, 4>>, <<6, 6>>}}

SmallLedgers == AnyLedgers \cup SoundLedgers \cup MovingLedgers

SmallConfigs ==
  {c \in [first : 1..MaxPort, last : 1..MaxPort, align : 1..3] :
     c.first <= c.last /\ c.align <= c.last - c.first + 1}

OnePool == {[first |-> 1, last |-> 4, align |-> 1]}

SmallOffsets == {{}, {0}, {0, 1}, {2}, {MaxPort}}

SmallRequests ==
  [ledger : AnyLedgers, config : OnePool, offsets : {{0, 1}}]
  \cup [ledger : SoundLedgers \cup MovingLedgers, config : SmallConfigs, offsets : SmallOffsets]

\* What PortAlloc on its own may start from.
UpToTwo == {AllBlocks(l.owners) : l \in SoundLedgers \cup MovingLedgers}
=============================================================================
