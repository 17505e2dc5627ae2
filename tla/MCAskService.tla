---------------------------- MODULE MCAskService ----------------------------
(* Requests at one replica, and a readiness probe at another.              *)
EXTENDS AskService, TLC
CONSTANTS r1, r2, p1, t1, t2

Threads_at == [t \in Threads |-> IF t = p1 THEN r2 ELSE r1]

Symmetry == Permutations(Requests) \union Permutations(Traces)
=============================================================================
