----------------------------- MODULE MCRefStore -----------------------------
(* Instances of RefStore for TLC. *)
EXTENDS RefStore, TLC

CONSTANTS p1, p2

Symmetry == Permutations(Procs)

\* Two siblings, the first with a child: drill-downs that nest and that do not.
TwoBranches == 1 .. 3
TwoBranchesLast == [n \in TwoBranches |-> IF n = 1 THEN 2 ELSE n]

\* One node, enough for a snapshot to be drilled and so modified again.
OneNode == {1}
OneNodeLast == [n \in OneNode |-> n]
=============================================================================
