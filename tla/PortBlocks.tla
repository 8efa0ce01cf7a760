----------------------------- MODULE PortBlocks -----------------------------
(***************************************************************************)
(* Port blocks: inclusive ranges <<first, last>> of TCP ports, the overlap *)
(* test every command of portool relies on, and the blocks the allocator   *)
(* may choose from.  State-free; shared by every other module.             *)
(***************************************************************************)
EXTENDS Integers

CONSTANT MaxPort   \* the largest port number (65535: ports are u16)

ASSUME PortAssumption == MaxPort \in Nat \ {0}

\* Ledger blocks never contain port 0 and are never reversed.
Block == {b \in (1..MaxPort) \X (1..MaxPort) : b[1] <= b[2]}

\* Whether two inclusive ranges share at least one port.
Overlaps(a, b) == a[1] <= b[2] /\ b[1] <= a[2]

Width(b) == b[2] - b[1] + 1

\* No block of A shares a port with a block of B.
Apart(A, B) == \A a \in A, b \in B : ~Overlaps(a, b)

\* A user configuration: the pool [first, last] and the alignment of starts.
Config == {c \in [first : 1..MaxPort, last : 1..MaxPort, align : Nat \ {0}] :
             c.first <= c.last}

\* Mutant of Slots: forgets that the whole block must fit the pool.
SlotsPastPool(c, size) ==
  {<<s, s + size - 1>> : s \in {t \in c.first..c.last : (t - c.first) % c.align = 0}}

\* The aligned candidates of `size` ports that lie wholly inside the pool.
Slots(c, size) ==
  {<<s, s + size - 1>> : s \in {t \in c.first..c.last :
      /\ (t - c.first) % c.align = 0
      /\ t + size - 1 <= c.last}}

\* What allocate_block can return: any candidate that overlaps nothing
\* occupied.  Which one depends on a hash of the names and on which ports can
\* be bound at that moment, so the choice (or none at all) is left open.
FreeSlots(c, size, occupied) == {b \in Slots(c, size) : Apart({b}, occupied)}

\* What try_grow_in_place can return: the current block widened to `size`,
\* if it stays inside the pool and clear of every other block.
GrownInPlace(c, size, current, occupied) ==
  {b \in {<<current[1], current[1] + size - 1>>} :
     b[2] <= c.last /\ Apart({b}, occupied \ {current})}
=============================================================================
