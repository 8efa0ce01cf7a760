---------------------------- MODULE MCPortLedger ----------------------------
(* Small instances of the port ledger for TLC.                             *)
EXTENDS PortLedgerProps, TLC

CONSTANTS p1, p2, w1, w2, j1, small, large

OneProject == w1 :> j1 @@ w2 :> j1

\* A manifest of one port and one of two.
Sizes == [m \in Manifests |-> IF m = small THEN 1 ELSE 2]

\* Pools of the first two or three ports.
Pool2 == {[first |-> 1, last |-> 2, align |-> 1]}
Pool3 == {[first |-> 1, last |-> 3, align |-> 1]}

ReservedRanges == {<<2, 3>>}

Symmetry == Permutations({p1, p2})
=============================================================================
