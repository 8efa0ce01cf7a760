----------------------------- MODULE PortLeases -----------------------------
(***************************************************************************)
(* What portool promises, without files, locks or processes: worktrees and *)
(* reservations hold leases on port blocks, a worktree uses only a block   *)
(* it holds, and no lease is taken away while it is in use.                *)
(***************************************************************************)
EXTENDS PortBlocks

CONSTANT Worktrees

VARIABLES
  held,       \* the blocks each worktree holds: one, or two during a move
  reserved,   \* the blocks reserved for nobody
  used        \* the block each worktree hands out to its programs, if any

vars == <<held, reserved, used>>

\* No port is leased to two holders.
Exclusive(h, r) ==
  /\ \A v, w \in Worktrees : v # w => Apart(h[v], h[w])
  /\ \A w \in Worktrees : Apart(h[w], r)
  /\ \A a, b \in r : a # b => ~Overlaps(a, b)

Init ==
  /\ held = [w \in Worktrees |-> {}]
  /\ reserved = {}
  /\ used = [w \in Worktrees |-> {}]

\* Leases are granted and given up, for several holders at once if need be
\* (a sync collects stale entries as it allocates), but never one in use.
Renew ==
  /\ Exclusive(held', reserved')
  /\ \A w \in Worktrees : used[w] \subseteq held'[w]
  /\ UNCHANGED used

Use(w) ==
  /\ \E b \in held[w] : used' = [used EXCEPT ![w] = {b}]
  /\ UNCHANGED <<held, reserved>>

StopUsing(W) ==
  /\ used' = [w \in Worktrees |-> IF w \in W THEN {} ELSE used[w]]
  /\ UNCHANGED <<held, reserved>>

Next ==
  \/ Renew
  \/ \E w \in Worktrees : Use(w)
  \/ \E W \in SUBSET Worktrees : StopUsing(W)

Spec == Init /\ [][Next]_vars
=============================================================================
