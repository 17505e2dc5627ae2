--------------------------- MODULE MCRateLimiter ----------------------------
(* Two replicas; three requests of one caller and one of another.          *)
EXTENDS RateLimiter, TLC
CONSTANTS r1, r2, c1, c2, q1, q2, q3, q4

Requests_at == [t \in Threads |-> IF t = q3 THEN r2 ELSE r1]
Callers_of == [q \in Requests |-> IF q = q4 THEN c2 ELSE c1]
Symmetry == Permutations({q1, q2})
=============================================================================
