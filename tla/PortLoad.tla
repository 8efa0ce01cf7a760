------------------------------ MODULE PortLoad ------------------------------
(***************************************************************************)
(* Loading the ledger: store::load parses registry.json, migrates an older *)
(* schema and validates the blocks with a sort and a single sweep.  One    *)
(* action is one phase, or one iteration of a loop.  PortLedger treats all *)
(* of this as the flag `corrupt`; this module shows what that flag means.  *)
(***************************************************************************)
EXTENDS PortBlocks, Sequences

CONSTANT Ledgers   \* possible contents of registry.json

\* What parsing accepts as a block: any pair of u16.
Pair == (0..MaxPort) \X (0..MaxPort)

\* A worktree entry with its block and perhaps a pending one, or a reservation.
Owner == [block : Pair, pending : {{}} \cup {{b} : b \in Pair}]

\* parses: the text fits the schema of its version; one without a version is
\* any version that does not parse.
Ledger == [parses : BOOLEAN, version : Nat, range : Pair, owners : Seq(Owner)]

ASSUME LoadAssumption == Ledgers \subseteq Ledger

Versions == 1..4

VARIABLES
  ledger,    \* the contents being loaded
  stage,     \* the part of `load` that comes next, or its outcome
  grouped,   \* the blocks tagged with their owners
  next,      \* the loop index: an owner while grouping, a block while sweeping
  active     \* the sweep's accumulator: at most one tagged block

loadVars == <<ledger, stage, grouped, next, active>>

Outcomes == {"loaded", "corrupt", "unsupported"}

Tagged == [owner : Nat \ {0}, block : Pair]

BlocksOf(o) == {o.block} \cup o.pending

LoadInit ==
  /\ ledger \in Ledgers
  /\ stage = "parse"
  /\ grouped = <<>>
  /\ next = 1
  /\ active = {}

-----------------------------------------------------------------------------

\* An unknown version is told apart before anything else is parsed; a known
\* one is converted to the current schema with every block kept verbatim.
FromJson ==
  /\ stage = "parse"
  /\ stage' = IF ledger.version \notin Versions THEN "unsupported"
              ELSE IF ~ledger.parses \/ ledger.range[1] > ledger.range[2] THEN "corrupt"
              ELSE "group"
  /\ UNCHANGED <<ledger, grouped, next, active>>

\* One owner after the other, its pending block behind its own.
Group ==
  /\ stage = "group"
  /\ next \in DOMAIN ledger.owners
  /\ LET o == ledger.owners[next]
         own == Append(grouped, [owner |-> next, block |-> o.block])
     IN \/ o.pending = {} /\ grouped' = own
        \/ \E b \in o.pending : grouped' = Append(own, [owner |-> next, block |-> b])
  /\ next' = next + 1
  /\ UNCHANGED <<ledger, stage, active>>

\* Every block must be ordered and clear of port 0.
CheckBlocks ==
  /\ stage = "group"
  /\ next \notin DOMAIN ledger.owners
  /\ stage' = IF \A i \in DOMAIN grouped : grouped[i].block \in Block
              THEN "sort" ELSE "corrupt"
  /\ UNCHANGED <<ledger, grouped, next, active>>

\* The permutation of a stable sort by first port.
StableOrders(g) ==
  {f \in [DOMAIN g -> DOMAIN g] :
     /\ \A i \in DOMAIN g : \E j \in DOMAIN g : f[j] = i
     /\ \A i, j \in DOMAIN g : i < j =>
          \/ g[f[i]].block[1] < g[f[j]].block[1]
          \/ g[f[i]].block[1] = g[f[j]].block[1] /\ f[i] < f[j]}

Sort ==
  /\ stage = "sort"
  /\ \E f \in StableOrders(grouped) : grouped' = [i \in DOMAIN grouped |-> grouped[f[i]]]
  /\ stage' = "sweep"
  /\ next' = 1
  /\ UNCHANGED <<ledger, active>>

\* Mutant of Widest: the accumulator forgets a block that reaches further.
Latest(a, t) == t

\* Of two blocks of one owner that touch, the one that reaches further.
Widest(a, t) == IF t.block[2] > a.block[2] THEN t ELSE a

\* The next block starts inside the accumulated one, or after it.
Sweep ==
  /\ stage = "sweep"
  /\ next \in DOMAIN grouped
  /\ LET t == grouped[next]
         hit == {a \in active : t.block[1] <= a.block[2]}
     IN IF \E a \in hit : a.owner # t.owner
        THEN stage' = "corrupt" /\ UNCHANGED <<next, active>>
        ELSE /\ active' = IF hit = {} THEN {t} ELSE {Widest(a, t) : a \in hit}
             /\ next' = next + 1
             /\ UNCHANGED stage
  /\ UNCHANGED <<ledger, grouped>>

Finish ==
  /\ stage = "sweep"
  /\ next \notin DOMAIN grouped
  /\ stage' = "loaded"
  /\ UNCHANGED <<ledger, grouped, next, active>>

LoadNext == FromJson \/ Group \/ CheckBlocks \/ Sort \/ Sweep \/ Finish

LoadSpec == LoadInit /\ [][LoadNext]_loadVars

-----------------------------------------------------------------------------

\* What a loaded ledger is relied on for: real blocks, and no port that two
\* owners share; an owner's block and its pending one may overlap.
Sound(l) ==
  /\ l.version \in Versions /\ l.parses /\ l.range[1] <= l.range[2]
  /\ \A k \in DOMAIN l.owners : BlocksOf(l.owners[k]) \subseteq Block
  /\ \A k, m \in DOMAIN l.owners :
       k # m => Apart(BlocksOf(l.owners[k]), BlocksOf(l.owners[m]))

\* The sort and the sweep with one accumulator decide what comparing every
\* pair of blocks would: a ledger is loaded only if it is sound, and refused
\* as corrupt only if it is not (registry.rs validate).
VerdictExact ==
  /\ stage = "loaded" => Sound(ledger)
  /\ stage = "corrupt" => ~Sound(ledger)
=============================================================================
