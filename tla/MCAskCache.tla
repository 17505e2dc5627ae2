----------------------------- MODULE MCAskCache -----------------------------
(* Model values of AskCache for TLC. *)
EXTENDS AskCache, TLC
CONSTANTS r1, r2, q1, q2, f1, f2, x1, b1

Symmetry == Permutations(Replicas) \union Permutations(Requests) \union Permutations({f1, f2})
=============================================================================
