------------------------- MODULE PortPlacementProofs -------------------------
(***************************************************************************)
(* The single sweep of Registry::validate accepts exactly the ledgers      *)
(* whose owners are pairwise apart, whatever their number and their ports. *)
(* The allocator returns free slots of the pool and gives up only when all *)
(* were tried, for every pool, alignment, manifest and ledger.  Loading,   *)
(* resolving, settling and committing fit together: the ledger a command   *)
(* is about to save can be loaded by the next one.                         *)
(***************************************************************************)
EXTENDS PortPlacement, WellFoundedInduction, TLAPS

-----------------------------------------------------------------------------
(* Loading: PortLoad.                                                      *)

Stages == {"parse", "group", "sort", "sweep"} \cup Outcomes

\* The header checks passed.
Headed(l) == l.version \in Versions /\ l.parses /\ l.range[1] <= l.range[2]

\* g tags the blocks of owners 1..n of ledger l, and nothing else.
Lists(g, l, n) ==
  /\ \A i \in DOMAIN g : /\ g[i].owner \in 1..n
                         /\ g[i].block \in BlocksOf(l.owners[g[i].owner])
  /\ \A k \in 1..n : \A b \in BlocksOf(l.owners[k]) :
       \E i \in DOMAIN g : g[i] = [owner |-> k, block |-> b]

Clash(s, t) == s.owner # t.owner /\ Overlaps(s.block, t.block)

InOrder(g) == \A i, j \in DOMAIN g : i < j => g[i].block[1] <= g[j].block[1]

\* After the first n blocks of g the accumulator is one of them; it reaches as
\* far as any, and the blocks of other owners end before it starts.
Swept(g, n, acc) ==
  /\ \A i, j \in 1..n : ~Clash(g[i], g[j])
  /\ acc = {} => n = 0
  /\ \A a \in acc : \E i \in 1..n : g[i] = a
  /\ \A a \in acc, i \in 1..n :
       /\ g[i].block[2] <= a.block[2]
       /\ g[i].owner = a.owner \/ g[i].block[2] < a.block[1]

LoadType ==
  /\ ledger \in Ledgers
  /\ stage \in Stages
  /\ grouped \in Seq(Tagged)
  /\ next \in Nat \ {0}
  /\ active \in SUBSET Tagged

\* The inductive invariant.
LoadInv ==
  /\ LoadType
  /\ stage = "parse" => grouped = <<>> /\ next = 1 /\ active = {}
  /\ stage = "group" => /\ Headed(ledger)
                        /\ active = {}
                        /\ next \in 1..(Len(ledger.owners) + 1)
                        /\ Lists(grouped, ledger, next - 1)
  /\ stage \in {"sort", "sweep", "loaded"} =>
       /\ Headed(ledger)
       /\ Lists(grouped, ledger, Len(ledger.owners))
       /\ \A i \in DOMAIN grouped : grouped[i].block \in Block
  /\ stage = "sort" => active = {}
  /\ stage = "sweep" => /\ InOrder(grouped)
                        /\ next \in 1..(Len(grouped) + 1)
                        /\ Swept(grouped, next - 1, active)
  /\ stage = "loaded" => \A i, j \in DOMAIN grouped : ~Clash(grouped[i], grouped[j])
  /\ stage = "corrupt" => ~Sound(ledger)

-----------------------------------------------------------------------------

\* Blocks that passed the sweep make the ledger they were listed from sound.
LEMMA ListedSound ==
  ASSUME NEW l \in Ledger, NEW g, Headed(l), Lists(g, l, Len(l.owners)),
         \A i \in DOMAIN g : g[i].block \in Block,
         \A i, j \in DOMAIN g : ~Clash(g[i], g[j])
  PROVE  Sound(l)
<1>1. DOMAIN l.owners = 1..Len(l.owners)
  BY DEF Ledger
<1>2. ASSUME NEW k \in DOMAIN l.owners, NEW b \in BlocksOf(l.owners[k])
      PROVE  \E i \in DOMAIN g : g[i].owner = k /\ g[i].block = b
  <2>1. PICK i \in DOMAIN g : g[i] = [owner |-> k, block |-> b]
    BY <1>1, <1>2 DEF Lists
  <2> QED BY <2>1
<1>3. \A k \in DOMAIN l.owners : BlocksOf(l.owners[k]) \subseteq Block
  BY <1>2
<1>4. ASSUME NEW k \in DOMAIN l.owners, NEW m \in DOMAIN l.owners, k # m,
             NEW b \in BlocksOf(l.owners[k]), NEW c \in BlocksOf(l.owners[m])
      PROVE  ~Overlaps(b, c)
  <2>1. PICK i \in DOMAIN g : g[i].owner = k /\ g[i].block = b
    BY <1>2
  <2>2. PICK j \in DOMAIN g : g[j].owner = m /\ g[j].block = c
    BY <1>2
  <2> QED BY <1>4, <2>1, <2>2 DEF Clash
<1> QED BY <1>3, <1>4 DEF Sound, Headed, Apart

\* Two listed blocks that clash, or one that is no block, condemn the ledger.
LEMMA ListedUnsound ==
  ASSUME NEW l \in Ledger, NEW g, Lists(g, l, Len(l.owners)),
         \/ \E i \in DOMAIN g : g[i].block \notin Block
         \/ \E i, j \in DOMAIN g : Clash(g[i], g[j])
  PROVE  ~Sound(l)
<1>1. DOMAIN l.owners = 1..Len(l.owners)
  BY DEF Ledger
<1>2. \A i \in DOMAIN g : /\ g[i].owner \in DOMAIN l.owners
                          /\ g[i].block \in BlocksOf(l.owners[g[i].owner])
  BY <1>1 DEF Lists
<1>3. CASE \E i \in DOMAIN g : g[i].block \notin Block
  BY <1>2, <1>3 DEF Sound
<1>4. CASE \E i, j \in DOMAIN g : Clash(g[i], g[j])
  BY <1>2, <1>4 DEF Sound, Apart, Clash
<1> QED BY <1>3, <1>4

\* The owners of a ledger are a sequence of owners, each with pairs as blocks.
LEMMA OwnerBlocks ==
  ASSUME NEW l \in Ledger, NEW k \in DOMAIN l.owners
  PROVE  /\ l.owners[k].block \in Pair
         /\ l.owners[k].pending \subseteq Pair
         /\ l.owners[k].pending = {} \/ \E b \in Pair : l.owners[k].pending = {b}
<1>1. l.owners \in Seq(Owner)
  BY DEF Ledger
<1>2. l.owners[k] \in Owner
  BY <1>1
<1> QED BY <1>2 DEF Owner

\* Appending a tagged block.
LEMMA Appended ==
  ASSUME NEW g \in Seq(Tagged), NEW t \in Tagged
  PROVE  /\ Append(g, t) \in Seq(Tagged)
         /\ DOMAIN g = 1..Len(g)
         /\ DOMAIN Append(g, t) = 1..(Len(g) + 1)
         /\ \A i \in DOMAIN g : Append(g, t)[i] = g[i]
         /\ Append(g, t)[Len(g) + 1] = t
  OBVIOUS

-----------------------------------------------------------------------------
(* One lemma per action.                                                   *)

\* Nothing is listed before the first owner.
LEMMA FromJsonInv == LoadInv /\ FromJson => LoadInv'
<1> SUFFICES ASSUME LoadInv, FromJson PROVE LoadInv'
  OBVIOUS
<1> USE DEF LoadInv, FromJson
<1>1. ledger \in Ledger
  BY LoadAssumption DEF LoadType
<1>2. Len(ledger.owners) \in Nat
  BY <1>1 DEF Ledger
<1>3. LoadType'
  BY DEF LoadType, Stages, Outcomes
<1>4. Lists(grouped, ledger, next - 1)
  BY DEF Lists
<1>5. ledger.range[1] \in Int /\ ledger.range[2] \in Int
  BY <1>1, PortAssumption DEF Ledger, Pair
<1>6. /\ stage' = "corrupt" => ~Sound(ledger)
      /\ stage' = "group" => Headed(ledger)
  BY <1>5 DEF Sound, Headed
<1>7. stage' \in {"unsupported", "corrupt", "group"}
  OBVIOUS
<1>8. next \in 1..(Len(ledger.owners) + 1)
  BY <1>2
<1> QED BY <1>3, <1>4, <1>6, <1>7, <1>8

\* One more owner is listed.
LEMMA GroupInv == LoadInv /\ Group => LoadInv'
<1> SUFFICES ASSUME LoadInv, Group PROVE LoadInv'
  OBVIOUS
<1> DEFINE o == ledger.owners[next]
           more == Append(grouped, [owner |-> next, block |-> o.block])
<1>1. /\ ledger \in Ledger /\ LoadType /\ Headed(ledger) /\ active = {}
      /\ Lists(grouped, ledger, next - 1) /\ stage = "group" /\ stage' = stage
      /\ next' = next + 1 /\ ledger' = ledger /\ active' = active
      /\ next \in DOMAIN ledger.owners
  BY LoadAssumption DEF LoadInv, LoadType, Group
<1>2. Len(ledger.owners) \in Nat /\ next \in 1..Len(ledger.owners)
  BY <1>1 DEF Ledger
<1>3. /\ o.block \in Pair
      /\ o.pending = {} \/ \E b \in Pair : o.pending = {b}
      /\ o.pending \subseteq Pair
  BY <1>1, OwnerBlocks
<1>4. grouped \in Seq(Tagged) /\ [owner |-> next, block |-> o.block] \in Tagged
  BY <1>1, <1>3 DEF LoadType, Tagged
<1>5. /\ more \in Seq(Tagged)
      /\ DOMAIN grouped = 1..Len(grouped) /\ DOMAIN more = 1..(Len(grouped) + 1)
      /\ \A i \in DOMAIN grouped : more[i] = grouped[i]
      /\ more[Len(grouped) + 1] = [owner |-> next, block |-> o.block]
      /\ Len(grouped) \in Nat
  BY <1>4, Appended
<1> HIDE DEF more
<1>6. \/ o.pending = {} /\ grouped' = more
      \/ \E b \in o.pending : grouped' = Append(more, [owner |-> next, block |-> b])
  BY DEF Group, more
<1>7. grouped' \in Seq(Tagged) /\ Lists(grouped', ledger, next)
  <2>1. CASE o.pending = {} /\ grouped' = more
    <3>1. BlocksOf(o) = {o.block}
      BY <2>1 DEF BlocksOf
    <3>2. ASSUME NEW i \in DOMAIN more
          PROVE  /\ more[i].owner \in 1..next
                 /\ more[i].block \in BlocksOf(ledger.owners[more[i].owner])
      <4>1. CASE i \in DOMAIN grouped
        BY <1>1, <1>2, <1>5, <4>1 DEF Lists
      <4>2. CASE i = Len(grouped) + 1
        <5>1. more[i].owner = next /\ more[i].block = o.block
          BY <1>5, <4>2
        <5> QED BY <1>2, <3>1, <5>1
      <4> QED BY <1>5, <4>1, <4>2
    <3>3. ASSUME NEW k \in 1..next, NEW c \in BlocksOf(ledger.owners[k])
          PROVE  \E i \in DOMAIN more : more[i] = [owner |-> k, block |-> c]
      <4>1. CASE k = next
        BY <1>5, <3>1, <4>1
      <4>2. CASE k # next
        <5>1. k \in 1..(next - 1)
          BY <1>2, <4>2
        <5>2. PICK i \in DOMAIN grouped : grouped[i] = [owner |-> k, block |-> c]
          BY <1>1, <5>1 DEF Lists
        <5> QED BY <1>5, <5>2
      <4> QED BY <4>1, <4>2
    <3> QED BY <1>5, <2>1, <3>2, <3>3 DEF Lists
  <2>2. ASSUME NEW b \in o.pending, grouped' = Append(more, [owner |-> next, block |-> b])
        PROVE  grouped' \in Seq(Tagged) /\ Lists(grouped', ledger, next)
    <3>1. o.pending = {b} /\ BlocksOf(o) = {o.block, b} /\ b \in Pair
      BY <1>3 DEF BlocksOf
    <3>2. [owner |-> next, block |-> b] \in Tagged
      BY <1>1, <3>1 DEF LoadType, Tagged
    <3>3. /\ grouped' \in Seq(Tagged)
          /\ DOMAIN more = 1..Len(more)
          /\ DOMAIN grouped' = 1..(Len(more) + 1)
          /\ \A i \in DOMAIN more : grouped'[i] = more[i]
          /\ grouped'[Len(more) + 1] = [owner |-> next, block |-> b]
      BY <1>5, <2>2, <3>2, Appended
    <3>4. Len(more) = Len(grouped) + 1
      BY <1>5, <3>3
    <3>5. \A i \in DOMAIN grouped' : \/ i \in DOMAIN grouped /\ grouped'[i] = grouped[i]
                                     \/ grouped'[i] = [owner |-> next, block |-> o.block]
                                     \/ grouped'[i] = [owner |-> next, block |-> b]
      BY <1>5, <3>3, <3>4
    <3>6. ASSUME NEW i \in DOMAIN grouped'
          PROVE  /\ grouped'[i].owner \in 1..next
                 /\ grouped'[i].block \in BlocksOf(ledger.owners[grouped'[i].owner])
      <4>1. CASE i \in DOMAIN grouped /\ grouped'[i] = grouped[i]
        BY <1>1, <1>2, <4>1 DEF Lists
      <4>2. CASE grouped'[i] = [owner |-> next, block |-> o.block]
        <5>1. grouped'[i].owner = next /\ grouped'[i].block = o.block
          BY <4>2
        <5> QED BY <1>2, <3>1, <5>1
      <4>3. CASE grouped'[i] = [owner |-> next, block |-> b]
        <5>1. grouped'[i].owner = next /\ grouped'[i].block = b
          BY <4>3
        <5> QED BY <1>2, <3>1, <5>1
      <4> QED BY <3>5, <4>1, <4>2, <4>3
    <3>7. ASSUME NEW k \in 1..next, NEW c \in BlocksOf(ledger.owners[k])
          PROVE  \E i \in DOMAIN grouped' : grouped'[i] = [owner |-> k, block |-> c]
      <4>1. CASE k = next
        BY <1>5, <3>1, <3>3, <3>4, <4>1
      <4>2. CASE k # next
        <5>1. k \in 1..(next - 1)
          BY <1>2, <4>2
        <5>2. PICK i \in DOMAIN grouped : grouped[i] = [owner |-> k, block |-> c]
          BY <1>1, <5>1 DEF Lists
        <5>3. i \in DOMAIN grouped' /\ grouped'[i] = grouped[i]
          BY <1>5, <3>3, <3>4
        <5> QED BY <5>2, <5>3
      <4> QED BY <4>1, <4>2
    <3> QED BY <3>3, <3>6, <3>7 DEF Lists
  <2> QED BY <1>6, <2>1, <2>2
<1>8. next' \in 1..(Len(ledger.owners) + 1) /\ next' - 1 = next /\ next' \in Nat \ {0}
  BY <1>1, <1>2
<1>9. LoadType'
  BY <1>1, <1>7, <1>8 DEF LoadType
<1> QED BY <1>1, <1>7, <1>8, <1>9 DEF LoadInv

\* All owners are listed; a reversed block or a port 0 condemns the ledger.
LEMMA CheckBlocksInv == LoadInv /\ CheckBlocks => LoadInv'
<1> SUFFICES ASSUME LoadInv, CheckBlocks PROVE LoadInv'
  OBVIOUS
<1>1. /\ ledger \in Ledger /\ LoadType /\ Headed(ledger) /\ active = {}
      /\ Lists(grouped, ledger, next - 1) /\ next \in 1..(Len(ledger.owners) + 1)
      /\ stage' \in {"sort", "corrupt"}
      /\ stage' = "sort" => \A i \in DOMAIN grouped : grouped[i].block \in Block
      /\ stage' = "corrupt" => \E i \in DOMAIN grouped : grouped[i].block \notin Block
      /\ UNCHANGED <<ledger, grouped, next, active>>
      /\ next \notin DOMAIN ledger.owners
  BY LoadAssumption DEF LoadInv, LoadType, CheckBlocks
<1>2. next - 1 = Len(ledger.owners)
  BY <1>1 DEF Ledger
<1>3. stage' = "corrupt" => ~Sound(ledger)
  BY <1>1, <1>2, ListedUnsound
<1>4. LoadType'
  BY <1>1 DEF LoadType, Stages, Outcomes
<1> QED BY <1>1, <1>2, <1>3, <1>4 DEF LoadInv

\* Sorting lists the same blocks in another order.
LEMMA SortInv == LoadInv /\ Sort => LoadInv'
<1> SUFFICES ASSUME LoadInv, Sort PROVE LoadInv'
  OBVIOUS
<1>1. /\ ledger \in Ledger /\ LoadType /\ Headed(ledger) /\ active = {}
      /\ Lists(grouped, ledger, Len(ledger.owners))
      /\ \A i \in DOMAIN grouped : grouped[i].block \in Block
      /\ stage' = "sweep" /\ next' = 1 /\ ledger' = ledger /\ active' = active
  BY LoadAssumption DEF LoadInv, LoadType, Sort
<1>2. PICK f \in StableOrders(grouped) : grouped' = [i \in DOMAIN grouped |-> grouped[f[i]]]
  BY DEF Sort
<1>3. /\ f \in [DOMAIN grouped -> DOMAIN grouped]
      /\ \A i \in DOMAIN grouped : \E j \in DOMAIN grouped : f[j] = i
      /\ \A i, j \in DOMAIN grouped : i < j =>
           \/ grouped[f[i]].block[1] < grouped[f[j]].block[1]
           \/ grouped[f[i]].block[1] = grouped[f[j]].block[1]
  BY DEF StableOrders
<1>4. grouped \in Seq(Tagged) /\ DOMAIN grouped = 1..Len(grouped) /\ Len(grouped) \in Nat
  BY <1>1 DEF LoadType
<1>5. /\ DOMAIN grouped' = DOMAIN grouped
      /\ \A i \in DOMAIN grouped : f[i] \in DOMAIN grouped /\ grouped'[i] = grouped[f[i]]
  BY <1>2, <1>3
<1>6. grouped' \in Seq(Tagged)
  <2>1. grouped' \in [1..Len(grouped) -> Tagged]
    BY <1>2, <1>3, <1>4
  <2> QED BY <1>4, <2>1
<1>7. Len(grouped') \in Nat
  BY <1>6
<1>8. Lists(grouped', ledger, Len(ledger.owners))
  <2>1. ASSUME NEW i \in DOMAIN grouped'
        PROVE  /\ grouped'[i].owner \in 1..Len(ledger.owners)
               /\ grouped'[i].block \in BlocksOf(ledger.owners[grouped'[i].owner])
    BY <1>1, <1>5 DEF Lists
  <2>2. ASSUME NEW k \in 1..Len(ledger.owners), NEW b \in BlocksOf(ledger.owners[k])
        PROVE  \E i \in DOMAIN grouped' : grouped'[i] = [owner |-> k, block |-> b]
    <3>1. PICK j \in DOMAIN grouped : grouped[j] = [owner |-> k, block |-> b]
      BY <1>1, <2>2 DEF Lists
    <3>2. PICK i \in DOMAIN grouped : f[i] = j
      BY <1>3
    <3> QED BY <1>5, <3>1, <3>2
  <2> QED BY <2>1, <2>2 DEF Lists
<1>9. \A i \in DOMAIN grouped' : grouped'[i].block \in Block
  BY <1>1, <1>5
<1>10. InOrder(grouped')
  <2> SUFFICES ASSUME NEW i \in DOMAIN grouped', NEW j \in DOMAIN grouped', i < j
               PROVE  grouped'[i].block[1] <= grouped'[j].block[1]
    BY DEF InOrder
  <2>1. grouped'[i].block \in Block /\ grouped'[j].block \in Block
    BY <1>9
  <2>2. grouped'[i].block[1] \in Nat /\ grouped'[j].block[1] \in Nat
    BY <2>1, PortAssumption DEF Block
  <2>3. \/ grouped'[i].block[1] < grouped'[j].block[1]
        \/ grouped'[i].block[1] = grouped'[j].block[1]
    BY <1>3, <1>5
  <2> QED BY <2>2, <2>3
<1>11. Swept(grouped', 0, active')
  BY <1>1 DEF Swept
<1>12. next' \in 1..(Len(grouped') + 1) /\ next' - 1 = 0
  BY <1>1, <1>7
<1>13. LoadType'
  BY <1>1, <1>6 DEF LoadType, Stages
<1> QED BY <1>1, <1>8, <1>9, <1>10, <1>11, <1>12, <1>13 DEF LoadInv

\* The heart of the argument: with the blocks in order, a block can only meet
\* earlier ones that reach its start.  They end no later than the accumulator,
\* and those of other owners before it starts - so a clash shows up as a clash
\* with the accumulator, or not at all.
LEMMA SweepInv == LoadInv /\ Sweep => LoadInv'
<1> SUFFICES ASSUME LoadInv, Sweep PROVE LoadInv'
  OBVIOUS
<1> DEFINE t == grouped[next]
           hit == {a \in active : t.block[1] <= a.block[2]}
<1>1. /\ ledger \in Ledger /\ LoadType /\ Headed(ledger)
      /\ Lists(grouped, ledger, Len(ledger.owners))
      /\ \A i \in DOMAIN grouped : grouped[i].block \in Block
      /\ stage = "sweep" /\ UNCHANGED <<ledger, grouped>>
      /\ next \in DOMAIN grouped
      /\ InOrder(grouped) /\ Swept(grouped, next - 1, active)
  BY LoadAssumption DEF LoadInv, LoadType, Sweep
<1>2. /\ DOMAIN grouped = 1..Len(grouped) /\ Len(grouped) \in Nat
      /\ next \in 1..Len(grouped) /\ next - 1 \in Nat
  BY <1>1 DEF LoadType
<1>3. \A i \in DOMAIN grouped : /\ grouped[i].block[1] \in Nat
                                /\ grouped[i].block[2] \in Nat
                                /\ grouped[i].block[1] <= grouped[i].block[2]
  BY <1>1, PortAssumption DEF Block
<1>4. \A i \in 1..(next - 1) : i \in DOMAIN grouped /\ grouped[i].block[1] <= t.block[1]
  BY <1>1, <1>2 DEF InOrder
<1>5. CASE \E a \in hit : a.owner # t.owner
  <2>1. PICK a \in hit : a.owner # t.owner
    BY <1>5
  <2>2. PICK i \in 1..(next - 1) : grouped[i] = a
    BY <1>1 DEF Swept
  <2>3. Clash(grouped[i], grouped[next])
    BY <1>1, <1>3, <1>4, <2>1, <2>2 DEF Clash, Overlaps
  <2>4. ~Sound(ledger)
    BY <1>1, <1>4, <2>3, ListedUnsound
  <2>5. stage' = "corrupt" /\ UNCHANGED <<next, active>>
    BY <1>5 DEF Sweep
  <2>6. LoadType'
    BY <1>1, <2>5 DEF LoadType, Stages, Outcomes
  <2> QED BY <1>1, <2>4, <2>5, <2>6 DEF LoadInv
<1>6. CASE \A a \in hit : a.owner = t.owner
  <2>1. /\ active' = IF hit = {} THEN {t} ELSE {Widest(a, t) : a \in hit}
        /\ next' = next + 1 /\ stage' = stage
    BY <1>6 DEF Sweep
  <2>2. ASSUME NEW i \in 1..(next - 1), Clash(grouped[i], t) PROVE FALSE
    <3>1. active # {}
      BY <1>1, <1>2 DEF Swept
    <3>2. PICK a \in active : TRUE
      BY <3>1
    <3>3. PICK m \in 1..(next - 1) : grouped[m] = a
      BY <1>1, <3>2 DEF Swept
    <3>4. /\ grouped[i].block[2] <= a.block[2]
          /\ grouped[i].owner = a.owner \/ grouped[i].block[2] < a.block[1]
      BY <1>1, <3>2 DEF Swept
    <3>5. a.block[1] \in Nat /\ a.block[2] \in Nat /\ a.block[1] <= t.block[1]
      BY <1>3, <1>4, <3>3
    <3>6. t.block[1] <= grouped[i].block[2] /\ grouped[i].owner # t.owner
      BY <2>2 DEF Clash, Overlaps
    <3>7. grouped[i].block[2] \in Nat /\ t.block[1] \in Nat
      BY <1>1, <1>3, <1>4
    <3>8. a \in hit
      BY <3>4, <3>5, <3>6, <3>7
    <3>9. grouped[i].owner = a.owner
      BY <3>4, <3>5, <3>6, <3>7
    <3> QED BY <1>6, <3>6, <3>8, <3>9
  <2>3. \A i, j \in 1..next : ~Clash(grouped[i], grouped[j])
    <3>1. \A i \in 1..next : i = next \/ i \in 1..(next - 1)
      BY <1>2
    <3>2. \A i \in 1..(next - 1) : ~Clash(t, grouped[i])
      BY <2>2 DEF Clash, Overlaps
    <3>3. ~Clash(t, t)
      BY DEF Clash
    <3> QED BY <1>1, <2>2, <3>1, <3>2, <3>3 DEF Swept
  <2>4. active' # {} /\ \A a \in active' : \E i \in 1..next : grouped[i] = a
    <3>1. CASE hit = {}
      BY <1>2, <2>1, <3>1
    <3>2. CASE hit # {}
      <4>1. \A a \in hit : \E i \in 1..(next - 1) : grouped[i] = a
        BY <1>1 DEF Swept
      <4>2. \A a \in active' : a = t \/ a \in hit
        BY <2>1, <3>2 DEF Widest
      <4>3. active' # {}
        BY <2>1, <3>2
      <4>4. \A i \in 1..(next - 1) : i \in 1..next
        BY <1>2
      <4>5. next \in 1..next
        BY <1>2
      <4> QED BY <4>1, <4>2, <4>3, <4>4, <4>5
    <3> QED BY <3>1, <3>2
  <2>5. ASSUME NEW a \in active', NEW i \in 1..next
        PROVE  /\ grouped[i].block[2] <= a.block[2]
               /\ grouped[i].owner = a.owner \/ grouped[i].block[2] < a.block[1]
    <3>1. i = next \/ i \in 1..(next - 1)
      BY <1>2
    <3>2. CASE hit = {}
      <4>1. a = t
        BY <2>1, <3>2
      <4>2. CASE i = next
        BY <1>1, <1>3, <4>1, <4>2
      <4>3. CASE i \in 1..(next - 1)
        <5>1. PICK c \in active : TRUE
          BY <1>1, <1>2, <4>3 DEF Swept
        <5>2. PICK m \in 1..(next - 1) : grouped[m] = c
          BY <1>1, <5>1 DEF Swept
        <5>3. c.block[2] \in Nat /\ grouped[i].block[2] \in Nat /\ t.block[1] \in Nat
              /\ t.block[2] \in Nat /\ t.block[1] <= t.block[2]
          BY <1>1, <1>3, <1>4, <4>3, <5>2
        <5>4. c.block[2] < t.block[1]
          BY <3>2, <5>1, <5>3
        <5>5. grouped[i].block[2] <= c.block[2]
          BY <1>1, <4>3, <5>1 DEF Swept
        <5> QED BY <4>1, <5>3, <5>4, <5>5
      <4> QED BY <3>1, <4>2, <4>3
    <3>3. CASE hit # {}
      <4>1. PICK c \in hit : a = Widest(c, t)
        BY <2>1, <3>3
      <4>2. c.owner = t.owner /\ c \in active
        BY <1>6
      <4>3. PICK m \in 1..(next - 1) : grouped[m] = c
        BY <1>1, <4>2 DEF Swept
      <4>4. /\ c.block[1] \in Nat /\ c.block[2] \in Nat /\ c.block[1] <= t.block[1]
            /\ t.block[1] \in Nat /\ t.block[2] \in Nat
            /\ grouped[i].block[2] \in Nat
        <5>1. m \in DOMAIN grouped /\ grouped[m].block[1] <= t.block[1]
          BY <1>4
        <5>2. i \in DOMAIN grouped
          BY <1>2
        <5> QED BY <1>1, <1>3, <4>3, <5>1, <5>2
      <4>5. /\ a.owner = t.owner
            /\ a.block[1] \in Nat /\ c.block[1] <= a.block[1]
            /\ a.block[2] \in Nat /\ c.block[2] <= a.block[2] /\ t.block[2] <= a.block[2]
        BY <4>1, <4>2, <4>4 DEF Widest
      <4>6. CASE i = next
        BY <4>5, <4>6
      <4>7. CASE i \in 1..(next - 1)
        <5>1. /\ grouped[i].block[2] <= c.block[2]
              /\ grouped[i].owner = c.owner \/ grouped[i].block[2] < c.block[1]
          BY <1>1, <4>2, <4>7 DEF Swept
        <5> QED BY <4>2, <4>4, <4>5, <5>1
      <4> QED BY <3>1, <4>6, <4>7
    <3> QED BY <3>2, <3>3
  <2>6. Swept(grouped, next, active')
    BY <2>3, <2>4, <2>5 DEF Swept
  <2>7. active' \in SUBSET Tagged
    <3>1. \A i \in 1..next : grouped[i] \in Tagged
      BY <1>1, <1>2 DEF LoadType
    <3> QED BY <2>4, <3>1
  <2>8. next' \in 1..(Len(grouped) + 1) /\ next' - 1 = next /\ next' \in Nat \ {0}
    BY <1>2, <2>1
  <2>9. LoadType'
    BY <1>1, <2>1, <2>7, <2>8 DEF LoadType
  <2> QED BY <1>1, <2>1, <2>6, <2>8, <2>9 DEF LoadInv
<1> QED BY <1>5, <1>6

\* A sweep that reached the end met no clash.
LEMMA FinishInv == LoadInv /\ Finish => LoadInv'
<1> SUFFICES ASSUME LoadInv, Finish PROVE LoadInv'
  OBVIOUS
<1>1. /\ LoadType /\ Headed(ledger) /\ Lists(grouped, ledger, Len(ledger.owners))
      /\ \A i \in DOMAIN grouped : grouped[i].block \in Block
      /\ next \in 1..(Len(grouped) + 1) /\ next \notin DOMAIN grouped
      /\ Swept(grouped, next - 1, active)
      /\ stage' = "loaded" /\ UNCHANGED <<ledger, grouped, next, active>>
  BY DEF LoadInv, Finish
<1>2. DOMAIN grouped = 1..(next - 1)
  BY <1>1 DEF LoadType
<1>3. \A i, j \in DOMAIN grouped : ~Clash(grouped[i], grouped[j])
  BY <1>1, <1>2 DEF Swept
<1>4. LoadType'
  BY <1>1 DEF LoadType, Stages, Outcomes
<1> QED BY <1>1, <1>3, <1>4 DEF LoadInv

-----------------------------------------------------------------------------

\* A ledger is loaded only if its owners share no port, and refused as corrupt
\* only if two do or a header or a block is malformed - for ledgers of any
\* length: the sort and the single accumulator of Registry::validate lose
\* nothing against the comparison of all pairs they replaced.
THEOREM ValidateExact == LoadSpec => []VerdictExact
<1>1. LoadInit => LoadInv
  BY DEF LoadInit, LoadInv, LoadType, Stages
<1>2. LoadInv /\ [LoadNext]_loadVars => LoadInv'
  <2> SUFFICES ASSUME LoadInv, [LoadNext]_loadVars PROVE LoadInv'
    OBVIOUS
  <2>1. CASE UNCHANGED loadVars
    BY <2>1 DEF loadVars, LoadInv, LoadType
  <2> QED BY <2>1, FromJsonInv, GroupInv, CheckBlocksInv, SortInv, SweepInv, FinishInv
          DEF LoadNext
<1>3. LoadInv => VerdictExact
  <2> SUFFICES ASSUME LoadInv, stage = "loaded" PROVE Sound(ledger)
    BY DEF LoadInv, VerdictExact
  <2>1. ledger \in Ledger
    BY LoadAssumption DEF LoadInv, LoadType
  <2> QED BY <2>1, ListedSound DEF LoadInv
<1> QED BY <1>1, <1>2, <1>3, PTL DEF LoadSpec

-----------------------------------------------------------------------------
(* Allocating: PortAlloc.                                                  *)

Phases == {"measure", "fit", "prepare", "scan"} \cup Endings

\* Taken by somebody else, or found to be in use.
Rejected(b) == b \in refused \/ ~Apart({b}, Others)

AllocType ==
  /\ config \in Config
  /\ offsets \subseteq 0..MaxPort
  /\ occupied \subseteq Block
  /\ current \in {{}} \cup {{b} : b \in occupied}
  /\ unchanged \in BOOLEAN
  /\ phase \in Phases

\* The size is known and holds every offset.
Sized == size \in 1..MaxPort /\ \A o \in offsets : o < size

\* The own block, if there is one, is too small for a new manifest.
MustMove == \A b \in current : ~unchanged /\ size > Width(b)

\* The scan has a pool of slots and rejected those it has tried.
Scanning ==
  /\ config.first + size - 1 <= config.last
  /\ slots = NumSlots(config, size)
  /\ preferred \in 0..(slots - 1)
  /\ tried \in 0..slots
  /\ \A i \in 0..(tried - 1) : Rejected(Candidate(i))

\* The inductive invariant.
AllocInv ==
  /\ AllocType
  /\ phase \in {"fit", "prepare", "scan", "settled", "exhausted"} => Sized
  /\ phase \in {"prepare", "scan", "exhausted"} => MustMove
  /\ phase = "scan" => Scanning
  /\ phase \in {"measure", "fit", "prepare"} => tried = 0
  /\ phase # "settled" => result = {}
  /\ SettledRight
  /\ ExhaustedRight

-----------------------------------------------------------------------------
(* Arithmetic.                                                             *)

LEMMA Quotient ==
  ASSUME NEW n \in Nat, NEW d \in Nat \ {0}
  PROVE  /\ n \div d \in Nat
         /\ n % d \in 0..(d - 1)
         /\ n = d * (n \div d) + (n % d)
  BY Z3

LEMMA TimesMono ==
  ASSUME NEW a \in Nat, NEW m \in Nat, NEW n \in Nat, m <= n
  PROVE  a * m <= a * n /\ a * m \in Nat
  BY Z3

LEMMA Product ==
  ASSUME NEW a \in Nat, NEW m \in Nat
  PROVE  a * m \in Nat /\ a * m = m * a
  BY Z3

\* A quotient is what it is.
LEMMA QuotientUnique ==
  ASSUME NEW d \in Nat \ {0}, NEW q \in Nat, NEW r \in 0..(d - 1)
  PROVE  (d * q + r) \div d = q /\ (d * q + r) % d = r
  BY Z3

\* Rounding up to a multiple reaches at least the number rounded.
LEMMA RoundedUp ==
  ASSUME NEW n \in Nat \ {0}, NEW d \in Nat \ {0}
  PROVE  /\ ((n + d - 1) \div d) * d \in Nat
         /\ ((n + d - 1) \div d) * d >= n
  <1> DEFINE q == (n + d - 1) \div d
  <1>1. n + d - 1 \in Nat
    OBVIOUS
  <1>2. q \in Nat /\ (n + d - 1) % d \in 0..(d - 1) /\ n + d - 1 = d * q + ((n + d - 1) % d)
    BY <1>1, Quotient
  <1>3. d * q \in Nat /\ q * d = d * q
    BY <1>2, Product
  <1>4. d * q >= n
    BY <1>2, <1>3
  <1> QED BY <1>3, <1>4

\* A port survives the conversion to u16.
LEMMA PortUnchanged ==
  ASSUME NEW n \in 0..MaxPort
  PROVE  AsPort(n) = n
  <1>1. MaxPort + 1 \in Nat \ {0} /\ n \in 0..((MaxPort + 1) - 1)
    BY PortAssumption
  <1>2. ((MaxPort + 1) * 0 + n) % (MaxPort + 1) = n
    BY <1>1, QuotientUnique
  <1>3. (MaxPort + 1) * 0 + n = n
    BY <1>1
  <1> QED BY <1>2, <1>3 DEF AsPort

\* Every slot is met exactly when counting on from any other, modulo their
\* number.
LEMMA WrapAround ==
  ASSUME NEW n \in Nat \ {0}, NEW p \in 0..(n - 1), NEW k \in 0..(n - 1)
  PROVE  \E i \in 0..(n - 1) : (p + i) % n = k
  <1>1. CASE k >= p
    <2>1. (n * 0 + k) % n = k
      BY QuotientUnique
    <2>2. p + (k - p) = n * 0 + k /\ k - p \in 0..(n - 1)
      BY <1>1
    <2> QED BY <2>1, <2>2
  <1>2. CASE k < p
    <2>1. (n * 1 + k) % n = k
      BY QuotientUnique
    <2>2. p + (n + k - p) = n * 1 + k /\ n + k - p \in 0..(n - 1)
      BY <1>2
    <2> QED BY <2>1, <2>2
  <1> QED BY <1>1, <1>2

-----------------------------------------------------------------------------
(* The operators of the allocator.                                         *)

\* A set of offsets has a largest one.
LEMMA SpanRight ==
  ASSUME NEW S \in SUBSET (0..MaxPort), S # {}
  PROVE  /\ Span(S) \in 1..(MaxPort + 1)
         /\ \A o \in S : o < Span(S)
<1> DEFINE T == {n \in Nat : \A o \in S : o < n}
<1>1. MaxPort + 1 \in T
  BY PortAssumption
<1>2. PICK n \in T : \A m \in T : ~(<<m, n>> \in OpToRel(<, Nat))
  <2>1. T \subseteq Nat /\ T # {}
    BY <1>1
  <2> QED BY <2>1, NatLessThanWellFounded, WFMin
<1>3. \A m \in T : ~(m < n)
  BY <1>2 DEF OpToRel
<1>4. PICK o \in S : TRUE
  OBVIOUS
<1>5. n \in 1..(MaxPort + 1)
  BY <1>1, <1>3, <1>4, PortAssumption
<1>6. n - 1 \in Nat /\ n - 1 \notin T
  BY <1>3, <1>5
<1>7. PICK u \in S : ~(u < n - 1)
  BY <1>6
<1>8. u = n - 1
  BY <1>5, <1>7, PortAssumption
<1>9. \E m \in 1..(MaxPort + 1) : m - 1 \in S /\ \A v \in S : v < m
  BY <1>5, <1>7, <1>8
<1> QED BY <1>9 DEF Span

\* The size of a block is positive and holds every offset.
LEMMA BlockSizeRight ==
  ASSUME NEW c \in Config, NEW S \in SUBSET (0..MaxPort)
  PROVE  /\ BlockSize(c, S) \in Nat \ {0}
         /\ \A o \in S : o < BlockSize(c, S)
<1>1. c.align \in Nat \ {0}
  BY DEF Config
<1>2. CASE S = {}
  BY <1>1, <1>2 DEF BlockSize
<1>3. CASE S # {}
  <2>1. Span(S) \in 1..(MaxPort + 1) /\ \A o \in S : o < Span(S)
    BY <1>3, SpanRight
  <2>2. Span(S) \in Nat \ {0}
    BY <2>1, PortAssumption
  <2> DEFINE r == ((Span(S) + c.align - 1) \div c.align) * c.align
  <2>3. r \in Nat /\ r >= Span(S)
    BY <1>1, <2>2, RoundedUp
  <2>4. BlockSize(c, S) = r
    BY <1>3 DEF BlockSize
  <2> HIDE DEF r
  <2> QED BY <2>1, <2>2, <2>3, <2>4, PortAssumption
<1> QED BY <1>2, <1>3

\* A pool that holds the block has a slot.
LEMMA SlotsCount ==
  ASSUME NEW c \in Config, NEW n \in 1..MaxPort, c.first + n - 1 <= c.last
  PROVE  NumSlots(c, n) \in Nat \ {0}
<1>1. c.last - c.first + 1 - n \in Nat /\ c.align \in Nat \ {0}
  BY PortAssumption DEF Config
<1>2. (c.last - c.first + 1 - n) \div c.align \in Nat
  BY <1>1, Quotient
<1> QED BY <1>2 DEF NumSlots

\* The starts the scan visits are those of Slots: in one direction ...
LEMMA SlotFits ==
  ASSUME NEW c \in Config, NEW n \in 1..MaxPort, c.first + n - 1 <= c.last,
         NEW k \in 0..(NumSlots(c, n) - 1)
  PROVE  /\ NumSlots(c, n) \in Nat \ {0}
         /\ c.first + k * c.align \in Nat
         /\ <<c.first + k * c.align, c.first + k * c.align + n - 1>> \in Slots(c, n)
         /\ c.first + k * c.align + n - 1 <= MaxPort
<1> DEFINE d == c.align
           room == c.last - c.first + 1 - n
           q == room \div d
<1>1. /\ d \in Nat \ {0} /\ c.first \in 1..MaxPort /\ c.last \in 1..MaxPort
      /\ MaxPort \in Nat /\ c.first <= c.last /\ room \in Nat
  BY PortAssumption DEF Config
<1>2. q \in Nat /\ room % d \in 0..(d - 1) /\ room = d * q + (room % d)
  BY <1>1, Quotient
<1>3. NumSlots(c, n) = q + 1
  BY DEF NumSlots
<1>4. k \in Nat /\ k <= q
  BY <1>2, <1>3
<1> HIDE DEF d, q, room
<1>5. d * k <= d * q /\ d * k \in Nat /\ d * q \in Nat
  BY <1>1, <1>2, <1>4, TimesMono
<1>6. k * d = d * k
  BY <1>1, <1>4, Product
<1>7. (d * k) % d = 0
  <2>1. 0 \in 0..(d - 1)
    BY <1>1
  <2>2. (d * k + 0) % d = 0
    BY <1>1, <1>4, <2>1, QuotientUnique
  <2> QED BY <1>5, <2>2
<1>8. d * k <= room
  BY <1>1, <1>2, <1>5
<1> DEFINE t == c.first + d * k
<1>9. /\ t \in c.first..c.last /\ t - c.first = d * k
      /\ t + n - 1 <= c.last
  BY <1>1, <1>5, <1>8 DEF room
<1>10. <<t, t + n - 1>> \in Slots(c, n)
  BY <1>7, <1>9 DEF Slots, d
<1>11. c.first + k * c.align = t
  BY <1>6 DEF d
<1> QED BY <1>1, <1>2, <1>3, <1>9, <1>10, <1>11

\* ... and in the other.
LEMMA SlotReached ==
  ASSUME NEW c \in Config, NEW n \in 1..MaxPort, NEW b \in Slots(c, n)
  PROVE  /\ c.first + n - 1 <= c.last
         /\ \E k \in 0..(NumSlots(c, n) - 1) :
              b = <<c.first + k * c.align, c.first + k * c.align + n - 1>>
<1> DEFINE d == c.align
           room == c.last - c.first + 1 - n
           q == room \div d
<1>1. /\ d \in Nat \ {0} /\ c.first \in 1..MaxPort /\ c.last \in 1..MaxPort
      /\ MaxPort \in Nat /\ c.first <= c.last
  BY PortAssumption DEF Config
<1>2. PICK t \in c.first..c.last : /\ (t - c.first) % d = 0
                                   /\ t + n - 1 <= c.last
                                   /\ b = <<t, t + n - 1>>
  BY DEF Slots
<1> DEFINE k == (t - c.first) \div d
<1>3. t - c.first \in Nat /\ room \in Nat /\ t - c.first <= room
  BY <1>1, <1>2
<1>4. k \in Nat /\ t - c.first = d * k
  <2>1. k \in Nat /\ t - c.first = d * k + ((t - c.first) % d)
    BY <1>1, <1>3, Quotient
  <2>2. d * k \in Nat
    BY <1>1, <2>1, Product
  <2> HIDE DEF k
  <2> QED BY <1>2, <2>1, <2>2
<1>5. q \in Nat /\ room % d \in 0..(d - 1) /\ room = d * q + (room % d)
  BY <1>1, <1>3, Quotient
<1> HIDE DEF k, q, d
<1>6. k <= q
  <2> SUFFICES ASSUME q + 1 <= k PROVE FALSE
    BY <1>4, <1>5
  <2>1. d * (q + 1) <= d * k
    BY <1>1, <1>4, <1>5, TimesMono
  <2>2. d * (q + 1) = d * q + d /\ d * q \in Nat
    BY <1>1, <1>5, Z3
  <2> QED BY <1>1, <1>3, <1>4, <1>5, <2>1, <2>2
<1>7. NumSlots(c, n) = q + 1
  BY DEF NumSlots, q, d
<1>8. k * d = d * k
  BY <1>1, <1>4, Product
<1>9. t = c.first + k * d
  BY <1>1, <1>2, <1>4, <1>8
<1>10. k \in 0..(NumSlots(c, n) - 1)
  BY <1>4, <1>5, <1>6, <1>7
<1>11. c.first + n - 1 <= c.last
  BY <1>1, <1>2
<1> QED BY <1>2, <1>9, <1>10, <1>11 DEF d

-----------------------------------------------------------------------------
(* One lemma per action.                                                   *)

\* A request is made of ports and blocks.
LEMMA RequestTypes ==
  ASSUME AllocType
  PROVE  /\ MaxPort \in Nat
         /\ config.first \in 1..MaxPort /\ config.last \in 1..MaxPort
         /\ config.align \in Nat \ {0}
         /\ \A o \in offsets : o \in Nat
         /\ \A b \in current : /\ b[1] \in 1..MaxPort /\ b[2] \in 1..MaxPort
                               /\ b[1] <= b[2]
         /\ \A b \in current : current = {b}
BY PortAssumption DEF AllocType, Config, Block

\* The size is computed from the manifest.
LEMMA MeasureInv == AllocInv /\ Measure => AllocInv'
<1> SUFFICES ASSUME AllocInv, Measure PROVE AllocInv'
  OBVIOUS
<1>1. /\ AllocType /\ phase = "measure" /\ result = {} /\ tried = 0
      /\ UNCHANGED <<config, offsets, occupied, current, unchanged, slots, preferred, tried,
                     refused, result>>
  BY DEF AllocInv, Measure, request
<1>2. /\ BlockSize(config, offsets) \in Nat \ {0}
      /\ \A o \in offsets : o < BlockSize(config, offsets)
  BY <1>1, BlockSizeRight DEF AllocType
<1>3. phase' \in {"tooLarge", "prepare", "fit"}
  BY DEF Measure
<1>4. phase' # "tooLarge" => Sized'
  BY <1>1, <1>2, PortAssumption DEF Measure, Sized
<1>5. phase' = "prepare" => MustMove'
  BY <1>1 DEF Measure, MustMove
<1>6. AllocType'
  BY <1>1, <1>3 DEF AllocType, Phases, Endings
<1>7. SettledRight' /\ ExhaustedRight'
  BY <1>1, <1>3 DEF SettledRight, ExhaustedRight
<1> QED BY <1>1, <1>3, <1>4, <1>5, <1>6, <1>7 DEF AllocInv

\* Keeping the own block.
LEMMA KeepInv == AllocInv /\ Keep => AllocInv'
<1> SUFFICES ASSUME AllocInv, Keep PROVE AllocInv'
  OBVIOUS
<1>1. /\ AllocType /\ Sized
      /\ UNCHANGED <<config, offsets, occupied, current, unchanged, size, slots, preferred,
                     tried, refused>>
      /\ result = {}
  BY DEF AllocInv, Keep, request
<1>2. PICK b \in current :
        /\ unchanged \/ size <= Width(b)
        /\ IF unchanged /\ ~Renders(b)
           THEN phase' = "misfit" /\ UNCHANGED result
           ELSE Settle(b)
  BY DEF Keep
<1>3. phase' \in {"misfit", "settled"}
  BY <1>2 DEF Settle
<1>4. AllocType' /\ Sized' /\ ExhaustedRight'
  BY <1>1, <1>3 DEF AllocType, Phases, Endings, Sized, ExhaustedRight
<1>5. CASE unchanged /\ ~Renders(b)
  <2>1. phase' = "misfit" /\ result' = {}
    BY <1>1, <1>2, <1>5
  <2> QED BY <1>4, <2>1 DEF AllocInv, SettledRight
<1>6. CASE ~(unchanged /\ ~Renders(b))
  <2>1. phase' = "settled" /\ result' = {b}
    BY <1>2, <1>6 DEF Settle
  <2>2. b \in Choices
    BY <1>2 DEF Choices
  <2>3. Renders(b)
    BY <1>1, <1>2, <1>6, RequestTypes DEF Sized, Width, Renders
  <2>4. SettledRight'
    BY <1>1, <2>1, <2>2, <2>3 DEF SettledRight, Choices, Others, Renders
  <2> QED BY <1>4, <2>1, <2>4 DEF AllocInv
<1> QED BY <1>5, <1>6

\* Growing in place, or having to move.
LEMMA GrowInv == AllocInv /\ Grow => AllocInv'
<1> SUFFICES ASSUME AllocInv, Grow PROVE AllocInv'
  OBVIOUS
<1>1. /\ AllocType /\ Sized /\ phase = "fit" /\ result = {} /\ tried = 0
      /\ UNCHANGED <<config, offsets, occupied, current, unchanged, size, slots, preferred,
                     tried, refused>>
  BY DEF AllocInv, Grow, request
<1> DEFINE end(b) == b[1] + size - 1
           wider(b) == <<b[1], AsPort(end(b))>>
<1>2. PICK b \in current :
        /\ ~unchanged /\ size > Width(b)
        /\ \/ end(b) <= config.last /\ Apart({wider(b)}, Others) /\ Settle(wider(b))
           \/ phase' \in {"prepare", "listening"} /\ UNCHANGED result
  BY DEF Grow
<1>3. current = {b} /\ b[1] \in 1..MaxPort /\ MaxPort \in Nat /\ config.last \in 1..MaxPort
  BY <1>1, RequestTypes
<1>4. MustMove
  BY <1>2, <1>3 DEF MustMove
<1>5. Sized' /\ MustMove'
  BY <1>1, <1>4 DEF Sized, MustMove
<1>6. CASE end(b) <= config.last /\ Apart({wider(b)}, Others) /\ Settle(wider(b))
  <2>1. size \in 1..MaxPort /\ end(b) \in 0..MaxPort
    BY <1>1, <1>3, <1>6 DEF Sized
  <2>2. wider(b) = <<b[1], b[1] + size - 1>>
    BY <2>1, PortUnchanged
  <2>3. result' = {wider(b)} /\ phase' = "settled"
    BY <1>6 DEF Settle
  <2>4. wider(b) \in GrownInPlace(config, size, b, occupied)
    BY <1>3, <1>6, <2>2 DEF GrownInPlace, Others
  <2>5. {c \in current : unchanged \/ size <= Width(c)} = {}
    <3>1. Width(b) \in Int /\ size \in Int
      BY <1>1, <1>3, <2>1, RequestTypes DEF Width
    <3> QED BY <1>2, <1>3, <3>1
  <2>6. wider(b) \in Choices
    BY <1>3, <2>4, <2>5 DEF Choices
  <2>7. \A o \in offsets : wider(b)[1] + o <= wider(b)[2]
    BY <1>1, <1>3, <2>1, <2>2, RequestTypes DEF Sized
  <2>8. SettledRight'
    BY <1>1, <2>3, <2>6, <2>7 DEF SettledRight, Choices, Others, Renders
  <2>9. AllocType' /\ ExhaustedRight'
    BY <1>1, <2>3 DEF AllocType, Phases, Endings, ExhaustedRight
  <2> QED BY <1>5, <2>3, <2>8, <2>9 DEF AllocInv
<1>7. CASE phase' \in {"prepare", "listening"} /\ UNCHANGED result
  <2>1. AllocType' /\ ExhaustedRight' /\ SettledRight'
    BY <1>1, <1>7 DEF AllocType, Phases, Endings, ExhaustedRight, SettledRight
  <2> QED BY <1>1, <1>5, <1>7, <2>1 DEF AllocInv
<1> QED BY <1>2, <1>6, <1>7

\* A pool that is too small has no slots; otherwise the scan starts.
LEMMA PrepareInv == AllocInv /\ Prepare => AllocInv'
<1> SUFFICES ASSUME AllocInv, Prepare PROVE AllocInv'
  OBVIOUS
<1>1. /\ AllocType /\ Sized /\ MustMove /\ phase = "prepare" /\ result = {} /\ tried = 0
      /\ UNCHANGED <<config, offsets, occupied, current, unchanged, size, tried, refused, result>>
  BY DEF AllocInv, Prepare, request
<1>2. Sized' /\ MustMove' /\ SettledRight'
  BY <1>1 DEF Sized, MustMove, SettledRight
<1>3. CASE config.first + size - 1 > config.last
  <2>1. phase' = "exhausted"
    BY <1>3 DEF Prepare
  <2>2. Slots(config, size) = {}
    <3>1. config \in Config /\ size \in 1..MaxPort
      BY <1>1 DEF AllocType, Sized
    <3>2. \A b \in Slots(config, size) : config.first + size - 1 <= config.last
      BY <3>1, SlotReached
    <3>3. config.first \in Int /\ config.last \in Int /\ size \in Int
      BY <1>1, <3>1, RequestTypes
    <3> QED BY <1>3, <3>2, <3>3
  <2>3. ExhaustedRight'
    BY <1>1, <2>2 DEF ExhaustedRight
  <2>4. AllocType'
    BY <1>1, <2>1 DEF AllocType, Phases, Endings
  <2> QED BY <1>1, <1>2, <2>1, <2>3, <2>4 DEF AllocInv
<1>4. CASE ~(config.first + size - 1 > config.last)
  <2>1. /\ phase' = "scan" /\ slots' = NumSlots(config, size)
        /\ preferred' \in 0..(slots' - 1)
    BY <1>4 DEF Prepare
  <2>2. config.first + size - 1 <= config.last
    BY <1>1, <1>4, RequestTypes DEF Sized
  <2>3. NumSlots(config, size) \in Nat \ {0}
    BY <1>1, <2>2, SlotsCount DEF AllocType, Sized
  <2>4. Scanning'
    BY <1>1, <2>1, <2>2, <2>3 DEF Scanning
  <2>5. AllocType' /\ ExhaustedRight'
    BY <1>1, <2>1 DEF AllocType, Phases, ExhaustedRight
  <2> QED BY <1>1, <1>2, <2>1, <2>4, <2>5 DEF AllocInv
<1> QED BY <1>3, <1>4

\* A candidate is the slot its index leads to: nothing is cut off its ports.
LEMMA CandidateSlot ==
  ASSUME AllocType, Sized, Scanning, NEW i \in 0..(slots - 1)
  PROVE  LET k == (preferred + i) % slots
             start == config.first + k * config.align
         IN /\ k \in 0..(slots - 1)
            /\ Candidate(i) = <<start, start + size - 1>>
            /\ Candidate(i) \in Slots(config, size)
<1> DEFINE k == (preferred + i) % slots
           start == config.first + k * config.align
<1>1. config \in Config /\ size \in 1..MaxPort /\ MaxPort \in Nat
  BY RequestTypes DEF AllocType, Sized
<1>2. slots = NumSlots(config, size) /\ slots \in Nat \ {0}
      /\ config.first + size - 1 <= config.last
  BY <1>1, SlotsCount DEF Scanning
<1>3. preferred + i \in Nat
  BY <1>2 DEF Scanning
<1>4. k \in 0..(slots - 1)
  BY <1>2, <1>3, Quotient
<1> HIDE DEF k
<1>5. /\ start \in Nat
      /\ <<start, start + size - 1>> \in Slots(config, size)
      /\ start + size - 1 <= MaxPort
  BY <1>1, <1>2, <1>4, SlotFits
<1>6. Candidate(i) = <<AsPort(start), AsPort(start + size - 1)>>
  BY DEF Candidate, k
<1> HIDE DEF start
<1>7. start \in 0..MaxPort /\ start + size - 1 \in 0..MaxPort
  BY <1>1, <1>5
<1>8. Candidate(i) = <<start, start + size - 1>>
  BY <1>6, <1>7, PortUnchanged
<1> QED BY <1>4, <1>5, <1>8 DEF k, start

\* One more candidate: taken, bound, or refused.
LEMMA ProbeInv == AllocInv /\ Probe => AllocInv'
<1> SUFFICES ASSUME AllocInv, Probe PROVE AllocInv'
  OBVIOUS
<1> DEFINE b == Candidate(tried)
<1>1. /\ AllocType /\ Sized /\ MustMove /\ Scanning /\ phase = "scan" /\ result = {}
      /\ tried < slots
      /\ UNCHANGED <<config, offsets, occupied, current, unchanged, size, slots, preferred>>
      /\ \/ /\ ~Apart({b}, Others)
            /\ tried' = tried + 1
            /\ UNCHANGED <<phase, refused, result>>
         \/ Apart({b}, Others) /\ Settle(b) /\ UNCHANGED <<tried, refused>>
         \/ /\ refused' = refused \cup {b}
            /\ tried' = tried + 1
            /\ UNCHANGED <<phase, result>>
  BY DEF AllocInv, Probe, request
<1>2. /\ config \in Config /\ size \in 1..MaxPort
      /\ slots = NumSlots(config, size) /\ slots \in Nat \ {0}
      /\ tried \in 0..(slots - 1)
  BY <1>1, SlotsCount DEF AllocType, Sized, Scanning
<1>3. /\ b = <<b[1], b[1] + size - 1>> /\ b[2] = b[1] + size - 1
      /\ b \in Slots(config, size)
  BY <1>1, <1>2, CandidateSlot
<1> HIDE DEF b
<1>4. Sized' /\ MustMove' /\ Others' = Others
  BY <1>1 DEF Sized, MustMove, Others
<1>5. CASE Apart({b}, Others) /\ Settle(b) /\ UNCHANGED <<tried, refused>>
  <2>1. phase' = "settled" /\ result' = {b}
    BY <1>5 DEF Settle
  <2>2. b \in FreeSlots(config, size, Others)
    BY <1>3, <1>5 DEF FreeSlots
  <2>3. {c \in current : unchanged \/ size <= Width(c)} = {}
    <3>1. \A c \in current : Width(c) \in Int /\ size \in Int
      BY <1>1, <1>2, RequestTypes DEF Width
    <3> QED BY <1>1, <3>1 DEF MustMove
  <2>4. b \in Choices
    BY <2>2, <2>3 DEF Choices
  <2>5. \A o \in offsets : b[1] + o <= b[2]
    <3>1. b[1] \in Int
      BY <1>1, <1>3, RequestTypes DEF Slots
    <3> QED BY <1>1, <1>3, <3>1, RequestTypes DEF Sized
  <2>6. SettledRight'
    BY <1>1, <2>1, <2>4, <2>5 DEF SettledRight, Choices, Others, Renders
  <2>7. AllocType' /\ ExhaustedRight'
    BY <1>1, <2>1 DEF AllocType, Phases, Endings, ExhaustedRight
  <2> QED BY <1>4, <2>1, <2>6, <2>7 DEF AllocInv
<1>6. CASE /\ tried' = tried + 1
           /\ UNCHANGED <<phase, result>>
           /\ refused \subseteq refused'
           /\ b \in refused' \/ ~Apart({b}, Others)
  <2>1. \A i \in Int : Candidate(i)' = Candidate(i)
    BY <1>1 DEF Candidate, AsPort
  <2>2. tried' \in 0..slots
    BY <1>2, <1>6
  <2>3. ASSUME NEW i \in 0..(tried' - 1) PROVE Rejected(Candidate(i))'
    <3>1. i = tried \/ i \in 0..(tried - 1)
      BY <1>2, <1>6
    <3>2. CASE i = tried
      BY <1>4, <1>6, <2>1, <3>2 DEF Rejected, b
    <3>3. CASE i \in 0..(tried - 1)
      BY <1>1, <1>4, <1>6, <2>1, <3>3 DEF Rejected, Scanning
    <3> QED BY <3>1, <3>2, <3>3
  <2>4. Scanning'
    BY <1>1, <2>2, <2>3 DEF Scanning
  <2>5. AllocType' /\ SettledRight' /\ ExhaustedRight'
    BY <1>1, <1>6 DEF AllocType, Phases, SettledRight, ExhaustedRight
  <2> QED BY <1>1, <1>4, <1>6, <2>4, <2>5 DEF AllocInv
<1> QED BY <1>1, <1>5, <1>6

\* All candidates were tried, and they are all the slots there are.
LEMMA ExhaustInv == AllocInv /\ Exhaust => AllocInv'
<1> SUFFICES ASSUME AllocInv, Exhaust PROVE AllocInv'
  OBVIOUS
<1>1. /\ AllocType /\ Sized /\ MustMove /\ Scanning /\ result = {} /\ tried = slots
      /\ UNCHANGED <<config, offsets, occupied, current, unchanged, size, slots, preferred,
                     tried, refused, result>>
      /\ phase' = "exhausted"
  BY DEF AllocInv, Exhaust, request
<1>2. /\ config \in Config /\ size \in 1..MaxPort
      /\ slots = NumSlots(config, size) /\ slots \in Nat \ {0}
      /\ preferred \in 0..(slots - 1)
  BY <1>1, SlotsCount DEF AllocType, Sized, Scanning
<1>3. ASSUME NEW b \in Slots(config, size) PROVE Rejected(b)
  <2>1. PICK k \in 0..(slots - 1) :
          b = <<config.first + k * config.align, config.first + k * config.align + size - 1>>
    BY <1>2, SlotReached
  <2>2. PICK i \in 0..(slots - 1) : (preferred + i) % slots = k
    BY <1>2, WrapAround
  <2>3. Candidate(i) = b
    BY <1>1, <2>1, <2>2, CandidateSlot
  <2> QED BY <1>1, <2>3 DEF Scanning
<1>4. ExhaustedRight'
  BY <1>1, <1>3 DEF ExhaustedRight, Rejected, Others
<1>5. AllocType' /\ Sized' /\ MustMove' /\ SettledRight'
  BY <1>1 DEF AllocType, Phases, Endings, Sized, MustMove, SettledRight
<1> QED BY <1>1, <1>4, <1>5 DEF AllocInv

-----------------------------------------------------------------------------

\* Every execution satisfies the inductive invariant.
LEMMA AllocInvariant == Spec => []AllocInv
<1>1. Init => AllocInv
  BY AllocAssumption
     DEF Init, AllocInv, AllocType, Phases, SettledRight, ExhaustedRight
<1>2. AllocInv /\ [Next]_vars => AllocInv'
  <2> SUFFICES ASSUME AllocInv, [Next]_vars PROVE AllocInv'
    OBVIOUS
  <2>1. CASE UNCHANGED vars
    <3>1. UNCHANGED <<config, offsets, occupied, current, unchanged, phase, size, slots,
                      preferred, tried, refused, result>>
      BY <2>1 DEF vars, request
    <3> QED BY <3>1
            DEF AllocInv, AllocType, Sized, MustMove, Scanning, Rejected, Others,
                Candidate, AsPort, SettledRight, ExhaustedRight, Choices,
                Renders
  <2> QED BY <2>1, MeasureInv, KeepInv, GrowInv, PrepareInv, ProbeInv, ExhaustInv DEF Next
<1> QED BY <1>1, <1>2, PTL DEF Spec

\* The block sync settles on - kept, grown, or found by the wrapping scan - is
\* among those PortLedger lets it choose from, and large enough for every port
\* of the manifest; rounding and 16-bit conversions cannot spoil it.
THEOREM AllocatesFreeSlots == Spec => []SettledRight
<1>1. AllocInv => SettledRight
  BY DEF AllocInv
<1> QED BY <1>1, AllocInvariant, PTL

\* "Pool exhausted" is reported only when no slot of the pool is left.
THEOREM ScanIsComplete == Spec => []ExhaustedRight
<1>1. AllocInv => ExhaustedRight
  BY DEF AllocInv
<1> QED BY <1>1, AllocInvariant, PTL

-----------------------------------------------------------------------------
(* Both composed: PortPlacement.                                           *)

\* The request is well formed.
RequestType == config \in Config /\ offsets \subseteq 0..MaxPort

\* The worktree's entry, if there is one, was resolved; what may be kept or
\* widened is its block.
OwnRight ==
  /\ own \subseteq DOMAIN ledger.owners
  /\ \A k, m \in own : k = m
  /\ \A k \in own : ledger.owners[k].pending = {}
  /\ current = {} \/ \E k \in own : current = {ledger.owners[k].block}

\* What the allocator works on once the ledger is loaded.
TakenRight ==
  /\ stage = "loaded"
  /\ ledger \in Ledger
  /\ Sound(ledger)
  /\ occupied = AllBlocks(ledger.owners)
  /\ OwnRight
  /\ AllocInv

\* The inductive invariant.
PlacementInv ==
  /\ RequestType
  /\ phase = "load" => LoadInv /\ own = {} /\ size = 0 /\ tried = 0 /\ result = {}
  /\ phase # "load" => TakenRight

-----------------------------------------------------------------------------
(* Ledgers with one entry changed.                                         *)

\* A loaded ledger has only real blocks.
LEMMA SoundBlocks ==
  ASSUME NEW l \in Ledger, Sound(l)
  PROVE  AllBlocks(l.owners) \subseteq Block
BY DEF Sound, AllBlocks

\* An owner that gives up one of its two blocks leaves a sound ledger sound.
LEMMA ResolvedSound ==
  ASSUME ledger \in Ledger, Sound(ledger), NEW k \in DOMAIN ledger.owners,
         NEW b \in BlocksOf(ledger.owners[k])
  PROVE  /\ Resolved(k, b) \in Ledger
         /\ Sound(Resolved(k, b))
         /\ DOMAIN Resolved(k, b).owners = DOMAIN ledger.owners
         /\ Resolved(k, b).owners[k] = [block |-> b, pending |-> {}]
<1> DEFINE e == [block |-> b, pending |-> {}]
           r == Resolved(k, b)
<1>1. /\ ledger.owners \in Seq(Owner)
      /\ ledger = [parses |-> ledger.parses, version |-> ledger.version,
                   range |-> ledger.range, owners |-> ledger.owners]
  BY DEF Ledger
<1>2. b \in Pair
  BY OwnerBlocks DEF BlocksOf
<1>3. e \in Owner
  BY <1>2 DEF Owner
<1>4. r = [parses |-> ledger.parses, version |-> ledger.version, range |-> ledger.range,
           owners |-> [ledger.owners EXCEPT ![k] = e]]
  <2>1. r = [ledger EXCEPT !.owners = [ledger.owners EXCEPT ![k] = e]]
    BY DEF Resolved
  <2> HIDE DEF r, e
  <2>2. DOMAIN ledger = {"parses", "version", "range", "owners"}
    BY <1>1
  <2>3. ledger = [f \in {"parses", "version", "range", "owners"} |-> ledger[f]]
    BY <1>1
  <2> QED BY <2>1, <2>2, <2>3
<1> HIDE DEF r, e
<1>5. [ledger.owners EXCEPT ![k] = e] \in Seq(Owner)
  BY <1>1, <1>3
<1>6. r \in Ledger
  BY <1>4, <1>5 DEF Ledger
<1>7. DOMAIN r.owners = DOMAIN ledger.owners /\ r.owners[k] = e
  BY <1>4
<1>8. \A m \in DOMAIN ledger.owners : BlocksOf(r.owners[m]) \subseteq BlocksOf(ledger.owners[m])
  <2>1. BlocksOf(e) \subseteq BlocksOf(ledger.owners[k])
    BY DEF BlocksOf, e
  <2>2. \A m \in DOMAIN ledger.owners : m # k => r.owners[m] = ledger.owners[m]
    BY <1>4
  <2> QED BY <1>7, <2>1, <2>2
<1>9. Sound(r)
  <2>1. \A m \in DOMAIN r.owners : BlocksOf(r.owners[m]) \subseteq Block
    BY <1>7, <1>8 DEF Sound
  <2>2. \A m, n \in DOMAIN r.owners :
          m # n => Apart(BlocksOf(r.owners[m]), BlocksOf(r.owners[n]))
    BY <1>7, <1>8 DEF Sound, Apart
  <2>3. r.version = ledger.version /\ r.parses = ledger.parses /\ r.range = ledger.range
    BY <1>4
  <2> QED BY <2>1, <2>2, <2>3 DEF Sound
<1> QED BY <1>6, <1>7, <1>9 DEF r, e

\* Blocks that are apart from those of everybody else may be entered for the
\* worktree.
LEMMA EntrySound ==
  ASSUME ledger \in Ledger, Sound(ledger), own \subseteq DOMAIN ledger.owners,
         \A k, m \in own : k = m,
         NEW b \in Block, NEW P \in SUBSET Block, P = {} \/ \E c \in Block : P = {c},
         \A m \in DOMAIN ledger.owners \ own : Apart({b} \cup P, BlocksOf(ledger.owners[m]))
  PROVE  Sound(WithEntry(b, P))
<1> DEFINE e == [block |-> b, pending |-> P]
           w == WithEntry(b, P)
<1>1. /\ ledger.owners \in Seq(Owner)
      /\ ledger = [parses |-> ledger.parses, version |-> ledger.version,
                   range |-> ledger.range, owners |-> ledger.owners]
  BY DEF Ledger
<1>2. Block \subseteq Pair
  BY PortAssumption DEF Block, Pair
<1>3. e \in Owner
  BY <1>2 DEF Owner
<1>4. /\ w.parses = ledger.parses /\ w.version = ledger.version /\ w.range = ledger.range
      /\ w.owners = IF own = {} THEN Append(ledger.owners, e)
                    ELSE [k \in DOMAIN ledger.owners |-> IF k \in own THEN e ELSE ledger.owners[k]]
  BY <1>1 DEF WithEntry
<1> HIDE DEF w
<1>5. \A k \in DOMAIN w.owners :
        \/ w.owners[k] = e /\ \A m \in DOMAIN w.owners : m # k => m \in DOMAIN ledger.owners \ own
        \/ k \in DOMAIN ledger.owners \ own /\ w.owners[k] = ledger.owners[k]
  <2>1. CASE own = {}
    <3>1. /\ DOMAIN ledger.owners = 1..Len(ledger.owners) /\ Len(ledger.owners) \in Nat
          /\ DOMAIN w.owners = 1..(Len(ledger.owners) + 1)
          /\ \A i \in DOMAIN ledger.owners : w.owners[i] = ledger.owners[i]
          /\ w.owners[Len(ledger.owners) + 1] = e
      BY <1>1, <1>3, <1>4, <2>1
    <3> HIDE DEF e
    <3> QED BY <2>1, <3>1
  <2>2. CASE own # {}
    <3>1. w.owners = [k \in DOMAIN ledger.owners |-> IF k \in own THEN e ELSE ledger.owners[k]]
      BY <1>4, <2>2
    <3> HIDE DEF e
    <3> QED BY <3>1
  <2> QED BY <2>1, <2>2
<1>6. BlocksOf(e) = {b} \cup P
  BY DEF BlocksOf
<1> HIDE DEF e
<1>7. \A k \in DOMAIN w.owners : BlocksOf(w.owners[k]) \subseteq Block
  BY <1>5, <1>6 DEF Sound
<1>8. ASSUME NEW k \in DOMAIN w.owners, NEW m \in DOMAIN w.owners, k # m
      PROVE  Apart(BlocksOf(w.owners[k]), BlocksOf(w.owners[m]))
  <2>1. CASE k \in DOMAIN ledger.owners \ own /\ w.owners[k] = ledger.owners[k]
    <3>1. CASE m \in DOMAIN ledger.owners \ own /\ w.owners[m] = ledger.owners[m]
      BY <1>8, <2>1, <3>1 DEF Sound
    <3>2. CASE w.owners[m] = e
      BY <1>6, <2>1, <3>2 DEF Apart, Overlaps
    <3> QED BY <1>5, <3>1, <3>2
  <2>2. CASE /\ w.owners[k] = e
             /\ m \in DOMAIN ledger.owners \ own
    <3>1. CASE w.owners[m] = ledger.owners[m]
      BY <1>6, <2>2, <3>1
    <3>2. CASE w.owners[m] = e /\ k \in DOMAIN ledger.owners \ own
      <4>1. own # {} => w.owners[m] = ledger.owners[m]
        BY <1>4, <2>2
      <4>2. own = {} => w.owners[m] = ledger.owners[m]
        BY <1>1, <1>4, <2>2
      <4> QED BY <1>6, <2>2, <4>1, <4>2
    <3> QED BY <1>5, <1>8, <3>1, <3>2
  <2> QED BY <1>5, <1>8, <2>1, <2>2
<1> QED BY <1>4, <1>7, <1>8 DEF Sound, w

-----------------------------------------------------------------------------
(* One lemma per action.                                                   *)

\* Loading changes nothing else.
LEMMA LoadKeeps == PlacementInv /\ Load => PlacementInv'
<1> SUFFICES ASSUME PlacementInv, Load PROVE PlacementInv'
  OBVIOUS
<1>1. /\ LoadNext
      /\ UNCHANGED <<config, offsets, occupied, current, unchanged, phase, size, slots, preferred,
                     tried, refused, result, own>>
  BY DEF Load, vars, request
<1>2. phase = "load"
  <2> SUFFICES ASSUME stage = "loaded" PROVE FALSE
    BY DEF PlacementInv, TakenRight
  <2> QED BY <1>1 DEF LoadNext, FromJson, Group, CheckBlocks, Sort, Sweep, Finish
<1>3. LoadInv'
  BY <1>1, <1>2, FromJsonInv, GroupInv, CheckBlocksInv, SortInv, SweepInv, FinishInv
     DEF LoadNext, PlacementInv
<1> QED BY <1>1, <1>2, <1>3 DEF PlacementInv, RequestType

\* The entry is looked up, and an interrupted move resolved.
LEMMA TakeKeeps == PlacementInv /\ Take => PlacementInv'
<1> SUFFICES ASSUME PlacementInv, Take PROVE PlacementInv'
  OBVIOUS
<1>1. /\ RequestType /\ LoadInv /\ result = {} /\ tried = 0
      /\ stage = "loaded" /\ stage' = "loaded"
      /\ phase' = "measure" /\ occupied' = AllBlocks(ledger'.owners)
      /\ unchanged' \in BOOLEAN
      /\ UNCHANGED <<config, offsets, size, slots, preferred, tried, refused, result>>
  BY DEF PlacementInv, Take
<1>2. ledger \in Ledger
  BY <1>1, LoadAssumption DEF LoadInv, LoadType
<1>3. Sound(ledger)
  BY <1>1, <1>2, ListedSound DEF LoadInv
<1>4. /\ ledger' \in Ledger /\ Sound(ledger') /\ OwnRight'
      /\ current' \in {{}} \cup {{b} : b \in AllBlocks(ledger'.owners)}
  <2>1. CASE own' = {} /\ current' = {} /\ UNCHANGED ledger
    BY <1>2, <1>3, <2>1 DEF OwnRight
  <2>2. ASSUME NEW k \in DOMAIN ledger.owners, NEW b \in BlocksOf(ledger.owners[k]),
               own' = {k}, ledger' = Resolved(k, b), current' \in {{}, {b}}
        PROVE  <1>4!:
    <3>1. /\ ledger' \in Ledger /\ Sound(ledger')
          /\ k \in DOMAIN ledger'.owners
          /\ ledger'.owners[k] = [block |-> b, pending |-> {}]
      BY <1>2, <1>3, <2>2, ResolvedSound
    <3>2. OwnRight'
      BY <2>2, <3>1 DEF OwnRight
    <3>3. b \in AllBlocks(ledger'.owners)
      BY <3>1 DEF AllBlocks, BlocksOf
    <3> QED BY <2>2, <3>1, <3>2, <3>3
  <2> QED BY <2>1, <2>2 DEF Take
<1>5. AllBlocks(ledger'.owners) \subseteq Block
  BY <1>4, SoundBlocks
<1>6. AllocType'
  BY <1>1, <1>4, <1>5 DEF AllocType, RequestType, Phases
<1>7. AllocInv'
  BY <1>1, <1>6 DEF AllocInv, SettledRight, ExhaustedRight
<1> QED BY <1>1, <1>4, <1>7 DEF PlacementInv, TakenRight, RequestType

\* The allocator only reads the ledger.
LEMMA PlaceKeeps == PlacementInv /\ Place => PlacementInv'
<1> SUFFICES ASSUME PlacementInv, Place PROVE PlacementInv'
  OBVIOUS
<1>1. /\ Next
      /\ UNCHANGED <<ledger, stage, own>>
      /\ UNCHANGED <<config, offsets, occupied, current, unchanged>>
  BY DEF Place, loadVars, Next, Measure, Keep, Grow, Prepare, Probe, Exhaust, request
<1>2. phase # "load" /\ phase' # "load"
  BY <1>1 DEF Next, Measure, Keep, Grow, Prepare, Probe, Exhaust, Settle
<1>3. TakenRight
  BY <1>2 DEF PlacementInv
<1>4. AllocInv'
  BY <1>1, <1>3, MeasureInv, KeepInv, GrowInv, PrepareInv, ProbeInv, ExhaustInv
     DEF Next, TakenRight
<1> QED BY <1>1, <1>2, <1>3, <1>4 DEF PlacementInv, TakenRight, OwnRight, RequestType

\* Every execution satisfies the inductive invariant.
LEMMA PlacementInvariant == PlacementSpec => []PlacementInv
<1>1. PlacementInit => PlacementInv
  <2> SUFFICES ASSUME PlacementInit PROVE PlacementInv
    OBVIOUS
  <2>1. RequestType
    BY PlacementAssumption, AllocAssumption DEF PlacementInit, RequestType
  <2>2. LoadInv
    BY DEF PlacementInit, LoadInit, LoadInv, LoadType, Stages
  <2> QED BY <2>1, <2>2 DEF PlacementInit, PlacementInv
<1>2. PlacementInv /\ [PlacementNext]_placementVars => PlacementInv'
  <2> SUFFICES ASSUME PlacementInv, UNCHANGED placementVars PROVE PlacementInv'
    BY LoadKeeps, TakeKeeps, PlaceKeeps DEF PlacementNext
  <2>1. UNCHANGED <<ledger, stage, grouped, next, active, config, offsets, occupied, current, unchanged,
                    phase, size, slots, preferred, tried, refused, result, own>>
    BY DEF placementVars, loadVars, vars, request
  <2>2. LoadInv' = LoadInv
    BY <2>1 DEF LoadInv, LoadType
  <2>3. AllocInv' = AllocInv
    BY <2>1 DEF AllocInv, AllocType, Sized, MustMove, Scanning, Rejected, Others,
                Candidate, AsPort, SettledRight, ExhaustedRight, Choices,
                Renders
  <2> QED BY <2>1, <2>2, <2>3 DEF PlacementInv, TakenRight, OwnRight, RequestType
<1> QED BY <1>1, <1>2, PTL DEF PlacementSpec

-----------------------------------------------------------------------------

\* The block settled on is a block, and apart from those of everybody else:
\* of the occupied blocks only the worktree's own was left out, and nobody else
\* has an equal one.
LEMMA ResultApart ==
  ASSUME TakenRight, RequestType, NEW b \in result
  PROVE  /\ b \in Block
         /\ \A m \in DOMAIN ledger.owners \ own : Apart({b}, BlocksOf(ledger.owners[m]))
<1>1. phase = "settled" /\ Sized /\ AllocType /\ b \in Choices
  BY DEF TakenRight, AllocInv, SettledRight
<1>2. /\ size \in 1..MaxPort /\ MaxPort \in Nat
      /\ config.first \in 1..MaxPort /\ config.last \in 1..MaxPort
  BY <1>1, RequestTypes DEF Sized
<1>3. ASSUME NEW m \in DOMAIN ledger.owners \ own, NEW c \in current
      PROVE  /\ Apart({c}, BlocksOf(ledger.owners[m]))
             /\ c \notin BlocksOf(ledger.owners[m])
  <2>1. PICK k \in own : c = ledger.owners[k].block
    BY DEF TakenRight, OwnRight
  <2>2. k \in DOMAIN ledger.owners /\ k # m /\ c \in BlocksOf(ledger.owners[k])
    BY <2>1 DEF TakenRight, OwnRight, BlocksOf
  <2>3. Apart({c}, BlocksOf(ledger.owners[m]))
    BY <2>2 DEF TakenRight, Sound, Apart
  <2>4. Overlaps(c, c)
    BY <1>1, RequestTypes DEF Overlaps
  <2> QED BY <2>3, <2>4 DEF Apart
<1>4. \A m \in DOMAIN ledger.owners \ own : BlocksOf(ledger.owners[m]) \subseteq Others
  BY <1>3 DEF TakenRight, AllBlocks, Others
<1>5. CASE b \in current
  BY <1>1, <1>3, <1>5 DEF AllocType
<1>6. CASE b \in FreeSlots(config, size, Others)
  <2>1. b \in Slots(config, size) /\ Apart({b}, Others)
    BY <1>6 DEF FreeSlots
  <2>2. b \in Block
    BY <1>2, <2>1 DEF Slots, Block
  <2> QED BY <1>4, <2>1, <2>2 DEF Apart
<1>7. ASSUME NEW c \in current, b \in GrownInPlace(config, size, c, occupied)
      PROVE  b \in Block /\ Apart({b}, Others)
  <2>1. /\ c[1] \in 1..MaxPort /\ current = {c}
    BY <1>1, RequestTypes
  <2>2. b = <<c[1], c[1] + size - 1>> /\ b[2] <= config.last /\ Apart({b}, occupied \ {c})
    BY <1>7 DEF GrownInPlace
  <2>3. b \in Block
    BY <1>2, <2>1, <2>2 DEF Block
  <2> QED BY <2>1, <2>2, <2>3 DEF Others
<1> QED BY <1>1, <1>4, <1>5, <1>6, <1>7 DEF Choices, Apart

\* portool can load what it is about to save, whatever ledger it had loaded:
\* neither leaving the own block out of the occupied ones by value, nor keeping
\* old and new block side by side during a move, makes two owners clash.
THEOREM PlacementsStayLoadable == PlacementSpec => []SavedLedgerLoads
<1>1. PlacementInv => SavedLedgerLoads
  <2> SUFFICES ASSUME PlacementInv, NEW b \in result
               PROVE  /\ Sound(WithEntry(b, {}))
                      /\ \A k \in own : Sound(WithEntry(ledger.owners[k].block, {b}))
    BY DEF SavedLedgerLoads
  <2>1. TakenRight /\ RequestType
    BY DEF PlacementInv
  <2>2. /\ b \in Block
        /\ \A m \in DOMAIN ledger.owners \ own : Apart({b}, BlocksOf(ledger.owners[m]))
    BY <2>1, ResultApart
  <2>3. /\ ledger \in Ledger /\ Sound(ledger) /\ own \subseteq DOMAIN ledger.owners
        /\ \A k, m \in own : k = m
    BY <2>1 DEF TakenRight, OwnRight
  <2>4. Sound(WithEntry(b, {}))
    <3>1. {b} \cup {} = {b}
      OBVIOUS
    <3> QED BY <2>2, <2>3, <3>1, EntrySound
  <2>5. ASSUME NEW k \in own
        PROVE  Sound(WithEntry(ledger.owners[k].block, {b}))
    <3> DEFINE c == ledger.owners[k].block
    <3>1. c \in BlocksOf(ledger.owners[k]) /\ k \in DOMAIN ledger.owners
      BY <2>3 DEF BlocksOf
    <3>2. c \in Block
      BY <2>3, <3>1 DEF Sound
    <3>3. \A m \in DOMAIN ledger.owners \ own :
            Apart({c} \cup {b}, BlocksOf(ledger.owners[m]))
      BY <2>2, <2>3, <3>1 DEF Sound, Apart
    <3> HIDE DEF c
    <3>4. Sound(WithEntry(c, {b}))
      BY <2>2, <2>3, <3>2, <3>3, EntrySound
    <3> QED BY <3>4 DEF c
  <2> QED BY <2>4, <2>5
<1> QED BY <1>1, PlacementInvariant, PTL

\* Loading and allocating keep, put together, what each promises on its own.
THEOREM PlacementsSettleRight ==
  PlacementSpec => [](VerdictExact /\ SettledRight /\ ExhaustedRight)
<1>1. PlacementInv => VerdictExact /\ SettledRight /\ ExhaustedRight
  <2> SUFFICES ASSUME PlacementInv PROVE VerdictExact /\ SettledRight /\ ExhaustedRight
    OBVIOUS
  <2>1. CASE phase = "load"
    <3>1. LoadInv /\ result = {}
      BY <2>1 DEF PlacementInv
    <3>2. ledger \in Ledger
      BY <3>1, LoadAssumption DEF LoadInv, LoadType
    <3>3. VerdictExact
      BY <3>1, <3>2, ListedSound DEF LoadInv, VerdictExact
    <3> QED BY <2>1, <3>1, <3>3 DEF SettledRight, ExhaustedRight
  <2>2. CASE phase # "load"
    BY <2>2 DEF PlacementInv, TakenRight, AllocInv, VerdictExact
  <2> QED BY <2>1, <2>2
<1> QED BY <1>1, PlacementInvariant, PTL
=============================================================================
