--------------------------- MODULE MCFactReplica ----------------------------
(* Model values of FactReplica for TLC. *)
EXTENDS FactReplica, TLC
CONSTANTS r1, r2, f1, f2, x1, e1, b1

Symmetry == Permutations(Replicas) \union Permutations({f1, f2})
=============================================================================
