---------------------------- MODULE MCRiskEngine ----------------------------
(***************************************************************************)
(* Short histories of few values, so that days tie, the longest with a     *)
(* loss at the end.  A request asks for 6 days, or for 2, and then its     *)
(* history may be too short for the backtest.  Five simulated paths, in    *)
(* three blocks, with a thin tail.  Acme and Bolt are of one sector, Corp  *)
(* and Dyne of another; Xeno is restricted.                                *)
(***************************************************************************)
EXTENDS PreTrade, TLC
CONSTANTS main, t1, t2, acme, bolt, corp, dyne, xeno

\* Nothing tells two threads of the pool apart.
Symmetry == Permutations(Others)

Values == {-1, 0, 1}
Lasting(n) == [1..n -> Values]
Some == Lasting(3) \union Lasting(4) \union Lasting(6) \union {Append(s, -1) : s \in Lasting(6)}

\* Paths tie within a block and across blocks.
Drawn(n, j) == ((3 * n + 5 * j) % 7) - 3

Sector == [t \in {acme, bolt, corp, dyne, xeno} |-> IF t \in {acme, bolt} THEN "one" ELSE "other"]

\* At the limits of a sector and of the gross exposure, at the latter alone,
\* beyond one limit each, a short one, and one with the restricted name.
Proposed ==
  {acme :> 6 @@ bolt :> 6 @@ corp :> 4 @@ dyne :> 4,
   acme :> 5 @@ bolt :> 6 @@ corp :> 4 @@ dyne :> 5,
   acme :> 6 @@ bolt :> 7 @@ corp :> 4,
   acme :> 5 @@ bolt :> 6 @@ corp :> 5 @@ dyne :> 5,
   acme :> 6 @@ bolt :> -7 @@ dyne :> 4,
   acme :> 8,
   acme :> 5 @@ xeno :> 2}
=============================================================================
