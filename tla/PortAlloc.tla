------------------------------ MODULE PortAlloc ------------------------------
(***************************************************************************)
(* How sync settles on a block: the size of a manifest, growth in place,   *)
(* and the scan of the pool from a preferred slot, with the 16-bit ports   *)
(* and wider intermediate results of the code.  PortLedger takes the       *)
(* outcome from the sets of PortBlocks; this module is where they come     *)
(* from.  One action is one iteration, or one straight-line part.          *)
(***************************************************************************)
EXTENDS PortBlocks

CONSTANTS
  Configs,       \* user configurations
  Offsets,       \* sets of port offsets a manifest may declare; {}: no manifest
  Occupations    \* sets of blocks the ledger may hold

ASSUME AllocAssumption ==
  /\ Configs \subseteq Config
  /\ Offsets \subseteq SUBSET (0..MaxPort)
  /\ Occupations \subseteq SUBSET Block

VARIABLES
  config, offsets,   \* the request
  occupied,          \* every block of the ledger
  current,           \* the worktree's own block, at most one
  unchanged,         \* its entry was written for this very manifest
  phase,             \* what comes next, or how it ended
  size,              \* the block size
  slots, preferred,  \* the number of candidates and the one to start from
  tried,             \* candidates tried so far
  refused,           \* blocks with a port that could not be bound
  result             \* the block settled on, at most one

request == <<config, offsets, occupied, current, unchanged>>
vars == <<request, phase, size, slots, preferred, tried, refused, result>>

Endings == {"settled", "exhausted", "tooLarge", "listening", "misfit"}

Init ==
  /\ config \in Configs
  /\ offsets \in Offsets
  /\ occupied \in Occupations
  /\ current \in {{}} \cup {{b} : b \in occupied}
  /\ unchanged \in BOOLEAN
  /\ phase = "measure"
  /\ size = 0
  /\ slots = 0
  /\ preferred = 0
  /\ tried = 0
  /\ refused = {}
  /\ result = {}

-----------------------------------------------------------------------------

\* A conversion to u16.
AsPort(n) == n % (MaxPort + 1)

\* One more than the largest offset; offsets are distinct, so this is at least
\* their number.
Span(S) == CHOOSE n \in 1..(MaxPort + 1) : n - 1 \in S /\ \A o \in S : o < n

\* Mutant of BlockSize: rounds down to the alignment.
BlockSizeDown(c, S) == IF S = {} THEN c.align ELSE (Span(S) \div c.align) * c.align

\* The span rounded up to the alignment; without a manifest, one alignment.
BlockSize(c, S) ==
  IF S = {} THEN c.align ELSE ((Span(S) + c.align - 1) \div c.align) * c.align

\* A size that is not a u16 is refused, not clamped.
Measure ==
  /\ phase = "measure"
  /\ IF BlockSize(config, offsets) > MaxPort
     THEN phase' = "tooLarge" /\ UNCHANGED size
     ELSE /\ size' = BlockSize(config, offsets)
          /\ phase' = IF current = {} THEN "prepare" ELSE "fit"
  /\ UNCHANGED <<request, slots, preferred, tried, refused, result>>

Settle(b) == phase' = "settled" /\ result' = {b}

\* The blocks of everybody else; the own one is left out by value.
Others == occupied \ current

\* The env file can be rendered: a port of b for every offset.
Renders(b) == \A o \in offsets : b[1] + o <= b[2]

\* The own block is large enough, or the manifest is not a new one: the block
\* stays then, whatever its size would be now, and if some offset is outside of
\* it, rendering fails.
Keep ==
  /\ phase = "fit"
  /\ \E b \in current :
       /\ unchanged \/ size <= Width(b)
       /\ IF unchanged /\ ~Renders(b)
          THEN phase' = "misfit" /\ UNCHANGED result
          ELSE Settle(b)
  /\ UNCHANGED <<request, size, slots, preferred, tried, refused>>

\* For a new manifest: the own block widened in place, if only its tail can be bound; otherwise
\* the worktree must move, unless something listens on the own block.
Grow ==
  /\ phase = "fit"
  /\ \E b \in current :
       LET end == b[1] + size - 1
           wider == <<b[1], AsPort(end)>>
       IN /\ ~unchanged /\ size > Width(b)
          /\ \/ end <= config.last /\ Apart({wider}, Others) /\ Settle(wider)
             \/ phase' \in {"prepare", "listening"} /\ UNCHANGED result
  /\ UNCHANGED <<request, size, slots, preferred, tried, refused>>

\* Mutant of NumSlots: forgets the slot at the very start.
NumSlotsLess1(c, n) == (c.last - c.first + 1 - n) \div c.align

\* The aligned starts at which n ports still fit the pool.
NumSlots(c, n) == (c.last - c.first + 1 - n) \div c.align + 1

\* allocate_block up to its loop; the preferred slot is a hash of the names.
Prepare ==
  /\ phase = "prepare"
  /\ IF config.first + size - 1 > config.last
     THEN phase' = "exhausted" /\ UNCHANGED <<slots, preferred>>
     ELSE /\ slots' = NumSlots(config, size)
          /\ preferred' \in 0..(slots' - 1)
          /\ phase' = "scan"
  /\ UNCHANGED <<request, size, tried, refused, result>>

Candidate(i) ==
  LET start == config.first + ((preferred + i) % slots) * config.align
  IN <<AsPort(start), AsPort(start + size - 1)>>

\* One iteration: an occupied candidate is skipped, a free one is bound.
Probe ==
  /\ phase = "scan"
  /\ tried < slots
  /\ LET b == Candidate(tried)
     IN \/ /\ ~Apart({b}, Others)
           /\ tried' = tried + 1
           /\ UNCHANGED <<phase, refused, result>>
        \/ Apart({b}, Others) /\ Settle(b) /\ UNCHANGED <<tried, refused>>
        \/ /\ Apart({b}, Others)
           /\ refused' = refused \cup {b}
           /\ tried' = tried + 1
           /\ UNCHANGED <<phase, result>>
  /\ UNCHANGED <<request, size, slots, preferred>>

Exhaust ==
  /\ phase = "scan"
  /\ tried = slots
  /\ phase' = "exhausted"
  /\ UNCHANGED <<request, size, slots, preferred, tried, refused, result>>

Next == Measure \/ Keep \/ Grow \/ Prepare \/ Probe \/ Exhaust

Spec == Init /\ [][Next]_vars

-----------------------------------------------------------------------------

\* What PortLedger lets sync choose from: the own block if it is large enough or
\* the manifest an old one, the own block grown, or a free slot of the pool.
Choices ==
  LET kept == {b \in current : unchanged \/ size <= Width(b)}
      grown == UNION {GrownInPlace(config, size, b, occupied) : b \in current}
  IN IF kept # {} THEN kept ELSE grown \cup FreeSlots(config, size, Others)

\* The block sync settles on is one of those, although it was computed with
\* rounding, wrap-around and 16-bit ports, and it has a port for every offset
\* of the manifest (alloc.rs allocate_block, sync.rs, manifest.rs block_size).
SettledRight == \A b \in result : b \in Choices /\ Renders(b)

\* The pool is reported exhausted only after every slot in it was tried: each
\* is taken by somebody else, or could not be bound (alloc.rs allocate_block).
ExhaustedRight ==
  phase = "exhausted" =>
    \A b \in Slots(config, size) : b \in refused \/ ~Apart({b}, Others)
=============================================================================
