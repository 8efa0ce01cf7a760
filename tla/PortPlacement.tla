---------------------------- MODULE PortPlacement ----------------------------
(***************************************************************************)
(* sync and reallocate between taking the lock and their first write, for  *)
(* one worktree: the ledger is loaded (PortLoad), an interrupted move of   *)
(* the worktree is resolved, and a block is settled on among all blocks    *)
(* the ledger holds (PortAlloc).                                           *)
(***************************************************************************)
EXTENDS PortLoad, PortAlloc

CONSTANT Requests   \* ledgers, with the configuration and manifest they meet

ASSUME PlacementAssumption ==
  Requests \subseteq [ledger : Ledgers, config : Configs, offsets : Offsets]

VARIABLE own   \* the worktree's entry in the ledger, at most one

placementVars == <<loadVars, vars, own>>

PlacementInit ==
  \E r \in Requests :
    /\ ledger = r.ledger
    /\ config = r.config
    /\ offsets = r.offsets
    /\ LoadInit
    /\ own = {}
    /\ occupied = {} /\ current = {} /\ unchanged = FALSE /\ phase = "load"
    /\ size = 0 /\ slots = 0 /\ preferred = 0 /\ tried = 0
    /\ refused = {} /\ result = {}

-----------------------------------------------------------------------------

\* Mutant of AllBlocks: a block that is only pending looks free.
AllBlocksButPending(owners) == {owners[k].block : k \in DOMAIN owners}

AllBlocks(owners) == UNION {BlocksOf(owners[k]) : k \in DOMAIN owners}

\* Its env file says which of its two blocks an interrupted move ended at.
Resolved(k, b) == [ledger EXCEPT !.owners[k] = [block |-> b, pending |-> {}]]

\* A worktree without an entry; or with one, which sync may keep or widen and
\* reallocate may not.  The entry of an interrupted move may be of a manifest
\* that asked for more than the block has.
Take ==
  /\ stage = "loaded"
  /\ phase = "load"
  /\ \/ own' = {} /\ current' = {} /\ UNCHANGED ledger
     \/ \E k \in DOMAIN ledger.owners : \E b \in BlocksOf(ledger.owners[k]) :
          /\ own' = {k}
          /\ ledger' = Resolved(k, b)
          /\ current' \in {{}, {b}}
  /\ occupied' = AllBlocks(ledger'.owners)
  /\ unchanged' \in BOOLEAN /\ (unchanged' => current' # {})
  /\ phase' = "measure"
  /\ UNCHANGED <<stage, grouped, next, active, config, offsets>>
  /\ UNCHANGED <<size, slots, preferred, tried, refused, result>>

Load == LoadNext /\ UNCHANGED <<vars, own>>
Place == Next /\ UNCHANGED <<loadVars, own>>

PlacementNext == Load \/ Take \/ Place

PlacementSpec == PlacementInit /\ [][PlacementNext]_placementVars

-----------------------------------------------------------------------------

\* The ledger with block b and pending blocks P for the worktree.
WithEntry(b, P) ==
  [ledger EXCEPT !.owners =
     IF own = {} THEN Append(@, [block |-> b, pending |-> P])
     ELSE [k \in DOMAIN @ |-> IF k \in own THEN [block |-> b, pending |-> P] ELSE @[k]]]

\* portool can load what it is about to save: with the block it settled on, as
\* the entry's own or first as the target of a move, the ledger still passes
\* `validate`, although growth and search leave the own block out of the
\* occupied ones by value and know nothing of owners (sync.rs slow_path,
\* reallocate; registry.rs validate).
SavedLedgerLoads ==
  \A b \in result :
    /\ Sound(WithEntry(b, {}))
    /\ \A k \in own : Sound(WithEntry(ledger.owners[k].block, {b}))
=============================================================================
