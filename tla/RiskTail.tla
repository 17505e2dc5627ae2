------------------------------ MODULE RiskTail ------------------------------
(***************************************************************************)
(* The empirical tail of riskcore (cpp/riskcore/src/riskcore.cpp): how     *)
(* many scenarios belong to it, which ones tail_stats selects, and the     *)
(* window a backtest keeps sorted; and what the reference implementation   *)
(* (src/risk/reference.py) says of the same.                               *)
(***************************************************************************)
EXTENDS Integers, Sequences, FiniteSets, FiniteSetsExt

CONSTANTS
  Alpha, Den,  \* 1 - confidence is Alpha / Den
  Grain,       \* a double is exact to one in Grain of 1 / Den ...
  Guard,       \* ... of which 1e-9 is so many
  Slip,        \* how many of them (1.0 - confidence) * n is off
  Sample,      \* kSample
  Thin         \* a tail is thin below one scenario in so many

ASSUME TailAssumption ==
  /\ Alpha \in Nat \ {0} /\ Den \in Nat /\ Alpha < Den
  /\ Grain \in Nat \ {0} /\ Guard \in Nat /\ Slip \in Nat
  /\ Slip < Guard /\ Guard + Slip < Grain
  /\ Sample \in Nat \ {0} /\ Thin \in Nat \ {0}

Slips == -Slip..Slip

\* The integer q with q * d at x or the first above it.
Ceiling(x, d) == -((-x) \div d)

Clamp(k, lo, hi) == IF k < lo THEN lo ELSE IF k > hi THEN hi ELSE k

-----------------------------------------------------------------------------
(* Mutated forms, none of which is used elsewhere.                         *)

Raw_unguarded(n, err) == Ceiling(Alpha * n * Grain + err, Den * Grain)
-----------------------------------------------------------------------------
\* tail_count: std::ceil((1.0 - confidence) * n - 1e-9), kept within 1..n.
Raw(n, err) == Ceiling(Alpha * n * Grain + err - Guard, Den * Grain)
TailCount(n, err) == Clamp(Raw(n, err), 1, n)

\* The sum of the values of p at some places.
Total(p, S) == MapThenSumSet(LAMBDA i : p[i], S)

\* std::nth_element on the scenarios I of p: any k of them none of which is
\* above one that is left.
Tails(p, I, k) == {T \in kSubset(k, I) : \A i \in T, j \in I \ T : p[i] <= p[j]}

\* tail_of: the largest of the tail, and its sum.
TailOf(p, I, k) == {[var |-> -Max({p[i] : i \in T}), loss |-> -Total(p, T)] : T \in Tails(p, I, k)}

\* tail_stats: of a thin tail of many scenarios, the candidates are those up to
\* a threshold taken from every n / kSample-th scenario.  Its rank in the sample
\* only decides speed; it is left open.
IsThin(n, k) == n > 4 * Sample /\ k * Thin < n
Sampled(lo, n) == {lo + i * (n \div Sample) : i \in 0..Sample - 1}
Candidates(p, threshold) == {i \in DOMAIN p : p[i] <= threshold}

TailStats(p, lo, n, k) ==
  LET full == TailOf(p, DOMAIN p, k)
  IN IF ~IsThin(n, k) THEN full
     ELSE UNION {LET C == Candidates(p, p[s]) IN IF Cardinality(C) >= k THEN TailOf(p, C, k) ELSE full :
                   s \in Sampled(lo, n)}
-----------------------------------------------------------------------------
\* SortedWindow: slide drops the first of the values that are not below out,
\* and puts in behind the last that is not above it.
Dropped(v, out) == CHOOSE i \in DOMAIN v : v[i] >= out /\ \A j \in 1..i - 1 : v[j] < out
Without(v, i) == SubSeq(v, 1, i - 1) \o SubSeq(v, i + 1, Len(v))
Place(v, in) == Cardinality({i \in DOMAIN v : v[i] <= in})
With(v, k, in) == SubSeq(v, 1, k) \o <<in>> \o SubSeq(v, k + 1, Len(v))

Slide(v, out, in) ==
  LET w == Without(v, Dropped(v, out)) IN With(w, Place(w, in), in)
-----------------------------------------------------------------------------
(* The reference, with the exact product in place of its double.           *)

RefTailCount(n) == Ceiling(Alpha * n, Den)

\* The k-th smallest of the values of p, each as often as it occurs.
RefKth(p, k) ==
  CHOOSE x \in {p[i] : i \in DOMAIN p} :
    /\ Cardinality({i \in DOMAIN p : p[i] <= x}) >= k
    /\ Cardinality({i \in DOMAIN p : p[i] < x}) < k

Sorted(s) == [i \in 1..Len(s) |-> RefKth(s, i)]

\* The k smallest: all below the k-th, and as many like it as are missing.
RefTail(p, k) ==
  LET x == RefKth(p, k)
      below == {i \in DOMAIN p : p[i] < x}
  IN [var  |-> -x,
      loss |-> -(Total(p, below) + x * (k - Cardinality(below)))]
=============================================================================
