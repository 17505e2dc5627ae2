-------------------------- MODULE RiskEngineProofs --------------------------
(* What the simulation of riskcore computes for any number of threads,     *)
(* blocks and paths, and what its selection of a tail may rely on.         *)
EXTENDS PreTrade, FiniteSetTheorems, SequenceTheorems, TLAPS

\* Division with a remainder.
LEMMA DivMod ==
  ASSUME NEW a \in Int, NEW b \in Nat \ {0}
  PROVE  /\ a \div b \in Int
         /\ b * (a \div b) <= a /\ a < b * (a \div b) + b
         /\ a % b = a - b * (a \div b)
         /\ a % b \in 0..b - 1
<1>1. a \div b \in Int
  OBVIOUS
<1>2. b * (a \div b) <= a /\ a < b * (a \div b) + b
  BY Z3
<1>3. a - b * (a \div b) = a % b
  BY SMTT(60)
<1>4. a % b \in 0..b - 1
  OBVIOUS
<1> QED BY <1>1, <1>2, <1>3, <1>4

\* What Ceiling is.
LEMMA CeilingBounds ==
  ASSUME NEW x \in Int, NEW d \in Nat \ {0}
  PROVE  /\ Ceiling(x, d) \in Int
         /\ x <= d * Ceiling(x, d) /\ d * Ceiling(x, d) < x + d
<1> DEFINE q == (-x) \div d
<1>1. q \in Int /\ d * q <= -x /\ -x < d * q + d
  BY DivMod
<1> HIDE DEF q
<1>2. d * (-q) = -(d * q) /\ d * q \in Int
  BY <1>1
<1>3. Ceiling(x, d) = -q
  BY DEF Ceiling, q
<1> QED BY <1>1, <1>2, <1>3

\* The guard of 1e-9 absorbs what the doubles are off, for every sample size: the
\* tail has as many scenarios as exact arithmetic gives it.
THEOREM RoundingHarmless ==
  ASSUME NEW n \in Nat \ {0}, NEW err \in Slips
  PROVE  TailCount(n, err) = RefTailCount(n)
<1> USE TailAssumption
<1> DEFINE a == Alpha * n
           q == Ceiling(a, Den)
           x == a * Grain + err - Guard
           r == Ceiling(x, Den * Grain)
<1>1. /\ a \in Nat \ {0} /\ a < Den * n /\ err \in Int /\ -Slip <= err /\ err <= Slip
      /\ a * Grain \in Nat /\ x \in Int /\ Den * Grain \in Nat \ {0}
  <2>1. err \in Int /\ -Slip <= err /\ err <= Slip
    BY DEF Slips
  <2>2. a \in Nat \ {0} /\ Den * Grain \in Nat \ {0}
    OBVIOUS
  <2>3. a < Den * n
    OBVIOUS
  <2>4. a * Grain \in Nat
    BY <2>2
  <2> QED BY <2>1, <2>2, <2>3, <2>4
<1>2. q \in Int /\ a <= Den * q /\ Den * q < a + Den
  BY <1>1, CeilingBounds
<1>3. r \in Int /\ x <= (Den * Grain) * r /\ (Den * Grain) * r < x + Den * Grain
  BY <1>1, CeilingBounds
<1>4. x = a * Grain + err - Guard
  OBVIOUS
<1> HIDE DEF a, q, x, r
<1>5. /\ a * Grain <= (Den * q) * Grain /\ (Den * q) * Grain \in Int
      /\ (Den * q) * Grain - Den * Grain + Grain <= a * Grain
  <2>1. Den * q \in Int /\ Den * q - Den + 1 <= a
    BY <1>1, <1>2
  <2>2. (Den * q - Den + 1) * Grain <= a * Grain
    BY <1>1, <2>1
  <2>3. (Den * q - Den + 1) * Grain = (Den * q) * Grain - Den * Grain + Grain
    BY <2>1
  <2>4. a * Grain <= (Den * q) * Grain /\ (Den * q) * Grain \in Int
    BY <1>1, <1>2, <2>1
  <2> QED BY <2>2, <2>3, <2>4
<1>6. (Den * q) * Grain = (Den * Grain) * q /\ (Den * Grain) * q \in Int /\ (Den * Grain) * r \in Int
  BY <1>2, <1>3
<1>7. ~(r < q)
  <2>1. r < q => (Den * Grain) * r <= (Den * Grain) * q - Den * Grain
    <3>1. r < q => (Den * Grain) * r <= (Den * Grain) * (q - 1)
      BY <1>1, <1>2, <1>3
    <3>2. (Den * Grain) * (q - 1) = (Den * Grain) * q - Den * Grain
      BY <1>1, <1>2
    <3> QED BY <3>1, <3>2
  <2> QED BY <1>1, <1>3, <1>4, <1>5, <1>6, <2>1
<1>8. ~(r > q)
  <2>1. r > q => (Den * Grain) * q + Den * Grain <= (Den * Grain) * r
    <3>1. r > q => (Den * Grain) * (q + 1) <= (Den * Grain) * r
      BY <1>1, <1>2, <1>3
    <3>2. (Den * Grain) * (q + 1) = (Den * Grain) * q + Den * Grain
      BY <1>1, <1>2
    <3> QED BY <3>1, <3>2
  <2> QED BY <1>1, <1>3, <1>4, <1>5, <1>6, <2>1
<1>9. 1 <= q /\ q <= n
  <2>1. q <= 0 => Den * q <= 0
    BY <1>2
  <2>2. q > n => Den * q >= Den * n + Den
    <3>1. q > n => Den * q >= Den * (n + 1)
      BY <1>2
    <3> QED BY <3>1
  <2> QED BY <1>1, <1>2, <2>1, <2>2
<1>10. r = q
  BY <1>2, <1>3, <1>7, <1>8
<1>11. Raw(n, err) = r /\ RefTailCount(n) = q
  BY DEF Raw, RefTailCount, a, q, x, r
<1> QED BY <1>2, <1>9, <1>10, <1>11 DEF TailCount, Clamp

\* The sample only decides speed: a tail of enough candidates, whatever the
\* threshold, is a tail of all scenarios.
THEOREM SampleHarmless ==
  ASSUME NEW I, NEW p \in [I -> Int], NEW threshold \in Int, NEW n \in Nat,
         NEW T \in Tails(p, Candidates(p, threshold), n)
  PROVE  T \in Tails(p, I, n)
<1> DEFINE C == Candidates(p, threshold)
<1>1. C \subseteq I /\ \A i \in I : i \in C <=> p[i] <= threshold
  BY DEF Candidates
<1>2. T \in kSubset(n, C) /\ \A i \in T, j \in C \ T : p[i] <= p[j]
  BY DEF Tails
<1>3. T \subseteq C /\ Cardinality(T) = n
  BY <1>2 DEF kSubset
<1>4. T \in kSubset(n, I)
  BY <1>1, <1>3 DEF kSubset
<1>5. ASSUME NEW i \in T, NEW j \in I \ T PROVE p[i] <= p[j]
  <2>1. p[i] \in Int /\ p[j] \in Int /\ p[i] <= threshold
    BY <1>1, <1>3
  <2> QED BY <1>1, <1>2, <2>1
<1> QED BY <1>4, <1>5 DEF Tails

-----------------------------------------------------------------------------
(* The order of values                                                     *)

\* The places of a function whose value is at most, or below, x.
AtMost(f, x) == {i \in DOMAIN f : f[i] <= x}
Below(f, x) == {i \in DOMAIN f : f[i] < x}

\* A set of naturals that is not empty has a least one.
LEMMA LeastNatural ==
  ASSUME NEW T, T \subseteq Nat, T # {}
  PROVE  \E x \in T : \A y \in T : x <= y
<1>1. IsWellFoundedOn(OpToRel(<, Nat), Nat)
  BY NatLessThanWellFounded, Zenon
<1>2. PICK x \in T : \A y \in T : ~(<<y, x>> \in OpToRel(<, Nat))
  BY <1>1, WFMin, Zenon
<1>3. \A y \in T : ~(y < x)
  BY <1>2, Zenon DEF OpToRel
<1> QED BY <1>3

\* A subset that leaves something out has fewer elements.
LEMMA Fewer ==
  ASSUME NEW S, IsFiniteSet(S), NEW T, T \subseteq S, NEW x \in S, x \notin T
  PROVE  /\ IsFiniteSet(T) /\ Cardinality(T) \in Nat /\ Cardinality(S) \in Nat
         /\ Cardinality(T) < Cardinality(S)
<1>1. IsFiniteSet(T) /\ Cardinality(T) <= Cardinality(S) /\ (Cardinality(S) = Cardinality(T) => S = T)
  BY FS_Subset
<1>2. Cardinality(T) \in Nat /\ Cardinality(S) \in Nat
  BY <1>1, FS_CardinalityType
<1>3. S # T
  OBVIOUS
<1> QED BY <1>1, <1>2, <1>3

\* Of finitely many places one has the greatest value and one the smallest.
LEMMA Extremes ==
  ASSUME NEW D, NEW f \in [D -> Int], NEW S \in SUBSET D, IsFiniteSet(S), S # {}
  PROVE  /\ \E i \in S : \A j \in S : f[j] <= f[i]
         /\ \E i \in S : \A j \in S : f[i] <= f[j]
<1> DEFINE Up(i) == {j \in S : f[j] > f[i]}
           Down(i) == {j \in S : f[j] < f[i]}
<1>1. \A i \in S : Cardinality(Up(i)) \in Nat /\ Cardinality(Down(i)) \in Nat
  <2> TAKE i \in S
  <2>1. IsFiniteSet(Up(i)) /\ IsFiniteSet(Down(i))
    BY FS_Subset
  <2> QED BY <2>1, FS_CardinalityType
<1>2. \E i \in S : \A j \in S : f[j] <= f[i]
  <2> DEFINE N == {Cardinality(Up(i)) : i \in S}
  <2>1. N \subseteq Nat /\ N # {}
    BY <1>1
  <2>2. PICK n \in N : \A m \in N : n <= m
    <3> HIDE DEF N
    <3> QED BY <2>1, LeastNatural
  <2>3. PICK i \in S : n = Cardinality(Up(i))
    BY <2>2
  <2>4. ASSUME NEW j \in S, ~(f[j] <= f[i]) PROVE FALSE
    <3>1. f[i] \in Int /\ f[j] \in Int /\ \A m \in S : f[m] \in Int
      OBVIOUS
    <3>2. Up(j) \subseteq Up(i) /\ j \in Up(i) /\ j \notin Up(j) /\ IsFiniteSet(Up(i))
      BY <2>4, <3>1, FS_Subset
    <3>3. Cardinality(Up(j)) < Cardinality(Up(i))
      <4> HIDE DEF Up
      <4> QED BY <3>2, Fewer
    <3>4. n <= Cardinality(Up(j))
      BY <2>2
    <3>5. Cardinality(Up(i)) \in Nat /\ Cardinality(Up(j)) \in Nat
      BY <1>1
    <3> HIDE DEF Up, N
    <3> QED BY <2>3, <3>3, <3>4, <3>5
  <2> QED BY <2>4
<1>3. \E i \in S : \A j \in S : f[i] <= f[j]
  <2> DEFINE N == {Cardinality(Down(i)) : i \in S}
  <2>1. N \subseteq Nat /\ N # {}
    BY <1>1
  <2>2. PICK n \in N : \A m \in N : n <= m
    <3> HIDE DEF N
    <3> QED BY <2>1, LeastNatural
  <2>3. PICK i \in S : n = Cardinality(Down(i))
    BY <2>2
  <2>4. ASSUME NEW j \in S, ~(f[i] <= f[j]) PROVE FALSE
    <3>1. f[i] \in Int /\ f[j] \in Int /\ \A m \in S : f[m] \in Int
      OBVIOUS
    <3>2. Down(j) \subseteq Down(i) /\ j \in Down(i) /\ j \notin Down(j) /\ IsFiniteSet(Down(i))
      BY <2>4, <3>1, FS_Subset
    <3>3. Cardinality(Down(j)) < Cardinality(Down(i))
      <4> HIDE DEF Down
      <4> QED BY <3>2, Fewer
    <3>4. n <= Cardinality(Down(j))
      BY <2>2
    <3>5. Cardinality(Down(i)) \in Nat /\ Cardinality(Down(j)) \in Nat
      BY <1>1
    <3> HIDE DEF Down, N
    <3> QED BY <2>3, <3>3, <3>4, <3>5
  <2> QED BY <2>4
<1> QED BY <1>2, <1>3

\* How the two counts of a value move with it.
LEMMA Counts ==
  ASSUME NEW D, IsFiniteSet(D), NEW f \in [D -> Int], NEW x \in Int
  PROVE  /\ IsFiniteSet(AtMost(f, x)) /\ Cardinality(AtMost(f, x)) \in 0..Cardinality(D)
         /\ IsFiniteSet(Below(f, x)) /\ Cardinality(Below(f, x)) \in Nat
         /\ Cardinality(Below(f, x)) <= Cardinality(AtMost(f, x))
         /\ Below(f, x) = AtMost(f, x - 1)
         /\ \A y \in Int : x < y => Cardinality(AtMost(f, x)) <= Cardinality(Below(f, y))
<1>1. /\ AtMost(f, x) \subseteq D /\ Below(f, x) \subseteq AtMost(f, x)
      /\ \A y \in Int : x < y => AtMost(f, x) \subseteq Below(f, y)
      /\ \A y \in Int : Below(f, y) \subseteq D
  BY DEF AtMost, Below
<1>2. IsFiniteSet(AtMost(f, x)) /\ Cardinality(AtMost(f, x)) \in 0..Cardinality(D)
  BY <1>1, FS_Subset, FS_CardinalityType
<1>3. \A y \in Int : IsFiniteSet(Below(f, y)) /\ Cardinality(Below(f, y)) \in Nat
  BY <1>1, FS_Subset, FS_CardinalityType
<1>4. Cardinality(Below(f, x)) <= Cardinality(AtMost(f, x))
  BY <1>1, <1>2, FS_Subset
<1>5. \A y \in Int : x < y => Cardinality(AtMost(f, x)) <= Cardinality(Below(f, y))
  BY <1>1, <1>3, FS_Subset
<1>6. Below(f, x) = AtMost(f, x - 1)
  <2>1. \A i \in D : f[i] \in Int /\ (f[i] < x <=> f[i] <= x - 1)
    OBVIOUS
  <2> QED BY <2>1, Zenon DEF AtMost, Below
<1> QED BY <1>2, <1>3, <1>4, <1>5, <1>6

\* The r-th smallest value exists ...
LEMMA KthSmallest ==
  ASSUME NEW D, IsFiniteSet(D), NEW f \in [D -> Int], NEW r \in 1..Cardinality(D)
  PROVE  /\ RefKth(f, r) \in Int /\ \E i \in D : RefKth(f, r) = f[i]
         /\ Cardinality(AtMost(f, RefKth(f, r))) >= r
         /\ Cardinality(Below(f, RefKth(f, r))) < r
<1>0. Cardinality(D) \in Nat /\ DOMAIN f = D /\ r \in Nat \ {0}
  BY FS_CardinalityType
<1> DEFINE V == {i \in D : Cardinality(AtMost(f, f[i])) >= r}
<1>1. V # {}
  <2>1. D # {}
    BY <1>0, FS_EmptySet
  <2>2. PICK i \in D : \A j \in D : f[j] <= f[i]
    BY <2>1, Extremes
  <2>3. AtMost(f, f[i]) = D
    BY <2>2 DEF AtMost
  <2> QED BY <1>0, <2>3
<1>2. IsFiniteSet(V)
  BY FS_Subset
<1>3. PICK i \in V : \A j \in V : f[i] <= f[j]
  <2> HIDE DEF V
  <2>1. V \subseteq D
    BY DEF V
  <2> QED BY <1>1, <1>2, <2>1, Extremes
<1>4. f[i] \in Int /\ Cardinality(Below(f, f[i])) \in Nat /\ IsFiniteSet(Below(f, f[i]))
  BY Counts
<1>5. ASSUME ~(Cardinality(Below(f, f[i])) < r) PROVE FALSE
  <2>1. Below(f, f[i]) # {}
    BY <1>0, <1>5, FS_EmptySet
  <2>2. PICK j \in Below(f, f[i]) : \A m \in Below(f, f[i]) : f[m] <= f[j]
    <3>1. Below(f, f[i]) \in SUBSET D
      BY DEF Below
    <3> QED BY <1>4, <2>1, <3>1, Extremes
  <2>3. Below(f, f[i]) \subseteq AtMost(f, f[j])
    BY <2>2 DEF Below, AtMost
  <2>4. j \in D /\ f[j] < f[i] /\ f[j] \in Int
    BY DEF Below
  <2>5. IsFiniteSet(AtMost(f, f[j])) /\ Cardinality(AtMost(f, f[j])) \in Nat
    BY <2>4, Counts
  <2>6. Cardinality(AtMost(f, f[j])) >= r
    BY <1>0, <1>4, <1>5, <2>3, <2>5, FS_Subset
  <2> QED BY <1>3, <1>4, <2>4, <2>6
<1> DEFINE X == {f[m] : m \in DOMAIN f}
           P(x) == /\ Cardinality({m \in DOMAIN f : f[m] <= x}) >= r
                   /\ Cardinality({m \in DOMAIN f : f[m] < x}) < r
<1>6. f[i] \in X /\ P(f[i])
  BY <1>0, <1>3, <1>5 DEF AtMost, Below
<1>7. RefKth(f, r) = CHOOSE x \in X : P(x)
  BY DEF RefKth
<1>8. RefKth(f, r) \in X /\ P(RefKth(f, r))
  <2> HIDE DEF X, P
  <2> QED BY <1>6, <1>7, Zenon
<1> QED BY <1>0, <1>8 DEF AtMost, Below

\* ... is at most x just where r places are, ...
LEMMA KthAtMost ==
  ASSUME NEW D, IsFiniteSet(D), NEW f \in [D -> Int], NEW r \in 1..Cardinality(D), NEW x \in Int
  PROVE  RefKth(f, r) <= x <=> r <= Cardinality(AtMost(f, x))
<1> DEFINE y == RefKth(f, r)
<1>1. y \in Int /\ Cardinality(AtMost(f, y)) >= r /\ Cardinality(Below(f, y)) < r
  BY KthSmallest
<1> HIDE DEF y
<1>2. /\ Cardinality(D) \in Nat
      /\ Cardinality(AtMost(f, x)) \in Nat /\ Cardinality(Below(f, x)) \in Nat
      /\ Cardinality(AtMost(f, y)) \in Nat /\ Cardinality(Below(f, y)) \in Nat
      /\ Cardinality(Below(f, x)) <= Cardinality(AtMost(f, x))
  BY <1>1, Counts, FS_CardinalityType
<1>3. y < x => Cardinality(AtMost(f, y)) <= Cardinality(Below(f, x))
  BY <1>1, Counts
<1>4. x < y => Cardinality(AtMost(f, x)) <= Cardinality(Below(f, y))
  BY <1>1, Counts
<1> QED BY <1>1, <1>2, <1>3, <1>4 DEF y

\* ... and is the only value with that property.
LEMMA KthIs ==
  ASSUME NEW D, IsFiniteSet(D), NEW f \in [D -> Int], NEW r \in 1..Cardinality(D), NEW x \in Int,
         r <= Cardinality(AtMost(f, x)), ~(r <= Cardinality(AtMost(f, x - 1)))
  PROVE  RefKth(f, r) = x
<1>1. RefKth(f, r) \in Int
  BY KthSmallest
<1>2. RefKth(f, r) <= x /\ ~(RefKth(f, r) <= x - 1)
  BY KthAtMost
<1> QED BY <1>1, <1>2

-----------------------------------------------------------------------------
(* Sums                                                                    *)

\* The recursion behind a sum: f gives every set of places its sum.
Chosen(S) == CHOOSE i \in S : TRUE
Sums(p, f, S) ==
  IF S = {} THEN 0 ELSE p[CHOOSE i \in S : TRUE] + f[S \ {CHOOSE i \in S : TRUE}]
IsSum(p, T, f) == f = [S \in SUBSET T |-> Sums(p, f, S)]

LEMMA ChosenIsOne ==
  ASSUME NEW S, S # {}
  PROVE  Chosen(S) \in S
BY DEF Chosen

\* A set without one of its elements.
LEMMA OneLess ==
  ASSUME NEW S, IsFiniteSet(S), NEW i \in S
  PROVE  /\ IsFiniteSet(S \ {i}) /\ Cardinality(S \ {i}) \in Nat /\ Cardinality(S) \in Nat
         /\ Cardinality(S \ {i}) = Cardinality(S) - 1 /\ Cardinality(S) > 0
<1>1. IsFiniteSet(S \ {i}) /\ Cardinality(S \ {i}) = Cardinality(S) - 1
  BY FS_RemoveElement
<1>2. Cardinality(S \ {i}) \in Nat /\ Cardinality(S) \in Nat
  BY <1>1, FS_CardinalityType
<1> QED BY <1>1, <1>2

LEMMA SumExists ==
  ASSUME NEW D, NEW p \in [D -> Int], NEW T \in SUBSET D, IsFiniteSet(T)
  PROVE  \E f \in [SUBSET T -> Int] : IsSum(p, T, f)
<1> DEFINE Upto(n, f) == \A S \in SUBSET T : Cardinality(S) <= n => f[S] = Sums(p, f, S)
           Bad == {n \in Nat : ~\E f \in [SUBSET T -> Int] : Upto(n, f)}
<1>0. \A S \in SUBSET T : IsFiniteSet(S) /\ Cardinality(S) \in Nat
  BY FS_Subset, FS_CardinalityType
<1>1. Bad = {}
  <2> SUFFICES ASSUME Bad # {} PROVE FALSE
    OBVIOUS
  <2>1. PICK n \in Bad : \A m \in Bad : n <= m
    <3>1. Bad \subseteq Nat
      OBVIOUS
    <3> HIDE DEF Bad
    <3> QED BY <3>1, LeastNatural
  <2>2. n \in Nat /\ \A m \in Nat : m < n => \E f \in [SUBSET T -> Int] : Upto(m, f)
    <3>1. n \in Nat /\ \A m \in Nat : m \notin Bad => \E f \in [SUBSET T -> Int] : Upto(m, f)
      <4> HIDE DEF Upto
      <4> QED BY <2>1
    <3> HIDE DEF Bad, Upto
    <3>2. ASSUME NEW m \in Nat, m < n PROVE m \notin Bad
      BY <2>1, <3>1, <3>2
    <3> QED BY <3>1, <3>2
  <2>3. PICK g \in [SUBSET T -> Int] : n # 0 => Upto(n - 1, g)
    <3>1. CASE n = 0
      <4>1. [S \in SUBSET T |-> 0] \in [SUBSET T -> Int]
        OBVIOUS
      <4> QED BY <3>1, <4>1
    <3>2. CASE n # 0
      <4>1. n - 1 \in Nat /\ n - 1 < n
        BY <2>2, <3>2
      <4> HIDE DEF Upto
      <4> QED BY <2>2, <4>1
    <3> QED BY <3>1, <3>2
  <2> DEFINE f == [S \in SUBSET T |-> Sums(p, g, S)]
  <2>4. f \in [SUBSET T -> Int]
    <3>1. ASSUME NEW S \in SUBSET T PROVE Sums(p, g, S) \in Int
      <4>1. CASE S = {}
        BY <4>1 DEF Sums
      <4>2. CASE S # {}
        <5>1. Chosen(S) \in S
          BY <4>2, ChosenIsOne
        <5>2. p[Chosen(S)] \in Int /\ g[S \ {Chosen(S)}] \in Int
          BY <5>1
        <5> QED BY <4>2, <5>2 DEF Sums, Chosen
      <4> QED BY <4>1, <4>2
    <3> QED BY <3>1
  <2>5. ASSUME NEW S \in SUBSET T, Cardinality(S) <= n PROVE f[S] = Sums(p, f, S)
    <3>1. CASE S = {}
      BY <3>1 DEF Sums
    <3>2. CASE S # {}
      <4> DEFINE R == S \ {Chosen(S)}
      <4>1. Chosen(S) \in S
        BY <3>2, ChosenIsOne
      <4>2. R \in SUBSET T /\ Cardinality(R) <= n - 1 /\ n # 0
        <5>1. Cardinality(R) \in Nat /\ Cardinality(S) \in Nat /\ Cardinality(R) = Cardinality(S) - 1
          BY <1>0, <4>1, OneLess
        <5> QED BY <2>2, <2>5, <5>1
      <4>3. g[R] = f[R]
        <5>1. g[R] = Sums(p, g, R)
          BY <2>3, <4>2
        <5> QED BY <4>2, <5>1
      <4>4. f[S] = Sums(p, g, S)
        OBVIOUS
      <4>5. Sums(p, g, S) = p[Chosen(S)] + g[R] /\ Sums(p, f, S) = p[Chosen(S)] + f[R]
        <5> HIDE DEF f
        <5> QED BY <3>2 DEF Sums, Chosen
      <4> QED BY <4>3, <4>4, <4>5
    <3> QED BY <3>1, <3>2
  <2>6. Upto(n, f)
    <3> HIDE DEF f
    <3> QED BY <2>5
  <2>7. n \notin Bad
    <3> HIDE DEF Upto, f
    <3> QED BY <2>4, <2>6
  <2> QED BY <2>1, <2>7
<1>2. PICK f \in [SUBSET T -> Int] : Upto(Cardinality(T), f)
  <2>1. Cardinality(T) \in Nat
    BY <1>0
  <2> HIDE DEF Upto
  <2> QED BY <1>1, <2>1
<1>3. \A S \in SUBSET T : Cardinality(S) <= Cardinality(T)
  BY FS_Subset
<1>4. \A S \in SUBSET T : f[S] = Sums(p, f, S)
  BY <1>2, <1>3
<1> QED BY <1>4 DEF IsSum

\* It is the only one, on a set as on any larger set.
LEMMA SumUnique ==
  ASSUME NEW p, NEW T, IsFiniteSet(T), NEW U \in SUBSET T,
         NEW f, IsSum(p, T, f), NEW g, IsSum(p, U, g), NEW S \in SUBSET U
  PROVE  f[S] = g[S]
<1> DEFINE Bad == {n \in Nat : \E R \in SUBSET U : Cardinality(R) = n /\ f[R] # g[R]}
<1>0. \A R \in SUBSET U : IsFiniteSet(R) /\ Cardinality(R) \in Nat
  BY FS_Subset, FS_CardinalityType
<1>1. Bad = {}
  <2> SUFFICES ASSUME Bad # {} PROVE FALSE
    OBVIOUS
  <2>1. PICK n \in Bad : \A m \in Bad : n <= m
    <3>1. Bad \subseteq Nat
      OBVIOUS
    <3> HIDE DEF Bad
    <3> QED BY <3>1, LeastNatural
  <2>2. PICK R \in SUBSET U : Cardinality(R) = n /\ f[R] # g[R]
    BY <2>1
  <2>3. f[R] = Sums(p, f, R) /\ g[R] = Sums(p, g, R)
    BY DEF IsSum
  <2>4. R # {}
    BY <2>2, <2>3 DEF Sums
  <2> DEFINE Q == R \ {Chosen(R)}
  <2>5. Chosen(R) \in R
    BY <2>4, ChosenIsOne
  <2>6. Cardinality(Q) \in Nat /\ Cardinality(Q) < n /\ Q \in SUBSET U
    <3>1. Cardinality(Q) \in Nat /\ Cardinality(R) \in Nat /\ Cardinality(Q) = Cardinality(R) - 1
      BY <1>0, <2>5, OneLess
    <3> QED BY <2>2, <3>1
  <2>7. f[Q] # g[Q]
    BY <2>2, <2>3, <2>4 DEF Sums, Chosen
  <2>8. Cardinality(Q) \in Bad
    <3> HIDE DEF Q
    <3> QED BY <2>6, <2>7
  <2>9. n \in Nat
    BY <2>1
  <2> HIDE DEF Bad, Q
  <2> QED BY <2>1, <2>6, <2>8, <2>9
<1> QED BY <1>0, <1>1

\* So a sum is what adding its members one by one gives, beginning with whichever.
LEMMA TotalIs ==
  ASSUME NEW D, NEW p \in [D -> Int], NEW T \in SUBSET D, IsFiniteSet(T)
  PROVE  \E f \in [SUBSET T -> Int] : IsSum(p, T, f) /\ Total(p, T) = f[T]
<1>1. PICK f \in [SUBSET T -> Int] : IsSum(p, T, f)
  BY SumExists
<1> DEFINE F == CHOOSE g : g = [S \in SUBSET T |->
                  IF S = {} THEN 0 ELSE p[CHOOSE i \in S : TRUE] + g[S \ {CHOOSE i \in S : TRUE}]]
           G == CHOOSE g : IsSum(p, T, g)
<1>2. Total(p, T) = F[T]
  BY DEF Total, MapThenSumSet, MapThenFoldSet
<1>3. F = G
  BY DEF IsSum, Sums
<1>4. IsSum(p, T, G)
  BY <1>1
<1>5. G[T] = f[T]
  <2> HIDE DEF G
  <2> QED BY <1>1, <1>4, SumUnique
<1> QED BY <1>1, <1>2, <1>3, <1>5

LEMMA TotalStep ==
  ASSUME NEW D, NEW p \in [D -> Int], NEW T \in SUBSET D, IsFiniteSet(T)
  PROVE  /\ Total(p, T) \in Int
         /\ T = {} => Total(p, T) = 0
         /\ T # {} => Total(p, T) = p[Chosen(T)] + Total(p, T \ {Chosen(T)})
<1>0. ASSUME NEW V \in SUBSET D, IsFiniteSet(V)
      PROVE  \E g \in [SUBSET V -> Int] : IsSum(p, V, g) /\ Total(p, V) = g[V]
  BY <1>0, TotalIs, SMTT(30)
<1>1. PICK f \in [SUBSET T -> Int] : IsSum(p, T, f) /\ Total(p, T) = f[T]
  BY TotalIs
<1>2. f[T] = Sums(p, f, T) /\ f[T] \in Int
  BY <1>1 DEF IsSum
<1>3. T = {} => Total(p, T) = 0
  BY <1>1, <1>2 DEF Sums
<1>4. ASSUME T # {} PROVE Total(p, T) = p[Chosen(T)] + Total(p, T \ {Chosen(T)})
  <2> DEFINE U == T \ {Chosen(T)}
  <2>1. U \in SUBSET T /\ IsFiniteSet(U) /\ U \in SUBSET D
    BY FS_Subset
  <2> HIDE DEF U
  <2>2. PICK g \in [SUBSET U -> Int] : IsSum(p, U, g) /\ Total(p, U) = g[U]
    BY <1>0, <2>1
  <2>3. U \in SUBSET U
    OBVIOUS
  <2>4. f[U] = g[U]
    BY <1>1, <2>1, <2>2, <2>3, SumUnique
  <2>5. f[T] = p[Chosen(T)] + f[U]
    BY <1>2, <1>4 DEF Sums, Chosen, U
  <2> QED BY <1>1, <2>2, <2>4, <2>5 DEF U
<1> QED BY <1>1, <1>2, <1>3, <1>4

LEMMA TotalRemove ==
  ASSUME NEW D, NEW p \in [D -> Int], NEW T \in SUBSET D, IsFiniteSet(T), NEW i \in T
  PROVE  Total(p, T) = p[i] + Total(p, T \ {i})
<1> DEFINE Fine(S) == \A j \in S : Total(p, S) = p[j] + Total(p, S \ {j})
           Bad == {n \in Nat : \E S \in SUBSET T : Cardinality(S) = n /\ ~Fine(S)}
<1>0. \A S \in SUBSET T : IsFiniteSet(S) /\ Cardinality(S) \in Nat /\ S \in SUBSET D
  BY FS_Subset, FS_CardinalityType
<1>1. Bad = {}
  <2> SUFFICES ASSUME Bad # {} PROVE FALSE
    OBVIOUS
  <2>1. PICK n \in Bad : \A m \in Bad : n <= m
    <3>1. Bad \subseteq Nat
      OBVIOUS
    <3> HIDE DEF Bad
    <3> QED BY <3>1, LeastNatural
  <2>2. PICK S \in SUBSET T : Cardinality(S) = n /\ ~Fine(S)
    BY <2>1
  <2>3. n \in Nat /\ \A R \in SUBSET T : Cardinality(R) < n => Fine(R)
    <3> HIDE DEF Fine
    <3>1. n \in Nat
      BY <2>1
    <3>2. ASSUME NEW R \in SUBSET T, Cardinality(R) < n, ~Fine(R) PROVE FALSE
      <4>1. Cardinality(R) \in Nat
        BY <1>0
      <4>2. Cardinality(R) \in Bad
        BY <3>2, <4>1
      <4> HIDE DEF Bad
      <4> QED BY <2>1, <3>1, <3>2, <4>1, <4>2
    <3> QED BY <3>1, <3>2
  <2>4. PICK j \in S : Total(p, S) # p[j] + Total(p, S \ {j})
    BY <2>2
  <2> DEFINE c == Chosen(S)
  <2>5. c \in S /\ Total(p, S) = p[c] + Total(p, S \ {c})
    BY <1>0, <2>4, ChosenIsOne, TotalStep
  <2> HIDE DEF c
  <2>6. c # j
    BY <2>4, <2>5
  <2>7. Fine(S \ {c}) /\ Fine(S \ {j})
    <3>1. Cardinality(S \ {c}) < n /\ Cardinality(S \ {j}) < n
      <4>1. Cardinality(S \ {c}) = n - 1 /\ Cardinality(S \ {j}) = n - 1
        BY <1>0, <2>2, <2>5, OneLess
      <4> QED BY <2>3, <4>1
    <3> HIDE DEF Fine
    <3> QED BY <2>3, <3>1
  <2>8. Total(p, S \ {c}) = p[j] + Total(p, (S \ {c}) \ {j})
    BY <2>6, <2>7
  <2>9. Total(p, S \ {j}) = p[c] + Total(p, (S \ {j}) \ {c})
    BY <2>5, <2>6, <2>7
  <2>10. (S \ {c}) \ {j} = (S \ {j}) \ {c}
    OBVIOUS
  <2>11. p[j] \in Int /\ p[c] \in Int /\ Total(p, (S \ {j}) \ {c}) \in Int
    <3>1. (S \ {j}) \ {c} \in SUBSET T
      OBVIOUS
    <3> QED BY <1>0, <2>5, <3>1, TotalStep
  <2> QED BY <2>4, <2>5, <2>8, <2>9, <2>10, <2>11
<1>2. T \in SUBSET T /\ Cardinality(T) \in Nat
  BY <1>0
<1>3. Fine(T)
  <2> HIDE DEF Fine
  <2> QED BY <1>1, <1>2
<1> QED BY <1>3

\* Places that all have the value x add x each.
LEMMA TotalOfEqual ==
  ASSUME NEW D, NEW p \in [D -> Int], NEW A \in SUBSET D, NEW E \in SUBSET D,
         IsFiniteSet(A), IsFiniteSet(E), A \intersect E = {}, NEW x \in Int, \A i \in E : p[i] = x
  PROVE  Total(p, A \union E) = Total(p, A) + x * Cardinality(E)
<1> DEFINE Fine(S) == Total(p, A \union S) = Total(p, A) + x * Cardinality(S)
           Bad == {n \in Nat : \E S \in SUBSET E : Cardinality(S) = n /\ ~Fine(S)}
<1>0. \A S \in SUBSET E : IsFiniteSet(S) /\ Cardinality(S) \in Nat
  BY FS_Subset, FS_CardinalityType
<1>1. Bad = {}
  <2> SUFFICES ASSUME Bad # {} PROVE FALSE
    OBVIOUS
  <2>1. PICK n \in Bad : \A m \in Bad : n <= m
    <3>1. Bad \subseteq Nat
      OBVIOUS
    <3> HIDE DEF Bad
    <3> QED BY <3>1, LeastNatural
  <2>2. PICK S \in SUBSET E : Cardinality(S) = n /\ ~Fine(S)
    BY <2>1
  <2>3. n \in Nat
    BY <2>1
  <2>4. Total(p, A) \in Int
    BY TotalStep
  <2>5. S # {}
    <3>1. A \union {} = A /\ x * Cardinality({}) = 0
      BY FS_EmptySet
    <3>2. Total(p, A) = Total(p, A) + 0
      BY <2>4
    <3>3. Fine({})
      BY <3>1, <3>2
    <3> HIDE DEF Fine
    <3> QED BY <2>2, <3>3
  <2>6. PICK i \in S : TRUE
    BY <2>5
  <2>7. Cardinality(S \ {i}) \in Nat /\ Cardinality(S \ {i}) = n - 1
    BY <1>0, <2>2, OneLess
  <2>8. Fine(S \ {i})
    <3>1. n - 1 \notin Bad
      <4> HIDE DEF Bad
      <4> QED BY <2>1, <2>3
    <3> HIDE DEF Fine
    <3> QED BY <2>7, <3>1
  <2>9. Total(p, A \union S) = p[i] + Total(p, (A \union S) \ {i})
    <3>1. IsFiniteSet(A \union S) /\ A \union S \in SUBSET D /\ i \in A \union S
      BY <1>0, FS_Union
    <3> QED BY <3>1, TotalRemove
  <2>10. (A \union S) \ {i} = A \union (S \ {i})
    OBVIOUS
  <2>11. x * (n - 1) = x * n - x /\ x * n \in Int /\ p[i] = x
    BY <2>3
  <2>12. Total(p, A \union (S \ {i})) = Total(p, A) + x * (n - 1)
    BY <2>7, <2>8
  <2>13. Total(p, A \union S) # Total(p, A) + x * n
    BY <2>2
  <2>14. Total(p, A \union S) = x + (Total(p, A) + (x * n - x))
    BY <2>9, <2>10, <2>11, <2>12
  <2> HIDE DEF Fine, Bad
  <2> QED BY <2>4, <2>11, <2>13, <2>14
<1>2. E \in SUBSET E /\ Cardinality(E) \in Nat
  BY <1>0
<1>3. Fine(E)
  <2> HIDE DEF Fine
  <2> QED BY <1>1, <1>2
<1> QED BY <1>3
\* Whatever tail is selected, its largest value is the k-th smallest of all, and
\* its sum the one of the reference.
LEMMA TailIsReference ==
  ASSUME NEW D, IsFiniteSet(D), NEW p \in [D -> Int], NEW n \in 1..Cardinality(D), NEW T \in Tails(p, D, n)
  PROVE  RefTail(p, n) = [var |-> -Max({p[i] : i \in T}), loss |-> -Total(p, T)]
<1> DEFINE x == RefKth(p, n)
           B == Below(p, x)
           A == AtMost(p, x)
<1>1. /\ T \in SUBSET D /\ Cardinality(T) = n /\ IsFiniteSet(T) /\ n \in Nat \ {0}
      /\ \A i \in T, j \in D \ T : p[i] <= p[j]
  <2>1. T \in SUBSET D /\ Cardinality(T) = n /\ \A i \in T, j \in D \ T : p[i] <= p[j]
    BY DEF Tails, kSubset
  <2> QED BY <2>1, FS_Subset, FS_CardinalityType
<1>2. x \in Int /\ Cardinality(A) >= n /\ Cardinality(B) < n
  BY KthSmallest
<1> HIDE DEF x
<1>3. /\ A = {i \in D : p[i] <= x} /\ B = {i \in D : p[i] < x}
      /\ IsFiniteSet(A) /\ IsFiniteSet(B) /\ Cardinality(A) \in Nat /\ Cardinality(B) \in Nat
  <2>1. A = {i \in D : p[i] <= x} /\ B = {i \in D : p[i] < x}
    BY DEF AtMost, Below
  <2> QED BY <2>1, FS_Subset, FS_CardinalityType
<1> HIDE DEF A, B
<1>4. B \subseteq T
  <2> SUFFICES ASSUME NEW j \in B, j \notin T PROVE FALSE
    OBVIOUS
  <2>1. T \subseteq B
    <3> SUFFICES ASSUME NEW i \in T PROVE i \in B
      OBVIOUS
    <3>1. p[i] <= p[j] /\ p[i] \in Int /\ p[j] \in Int /\ p[j] < x
      BY <1>1, <1>3
    <3> QED BY <1>1, <1>2, <1>3, <3>1
  <2>2. Cardinality(T) < Cardinality(B)
    BY <1>3, <2>1, Fewer
  <2> QED BY <1>1, <1>2, <1>3, <2>2
<1>5. T \subseteq A
  <2> SUFFICES ASSUME NEW i \in T, i \notin A PROVE FALSE
    OBVIOUS
  <2>1. A \subseteq T
    <3> SUFFICES ASSUME NEW j \in A, j \notin T PROVE FALSE
      OBVIOUS
    <3>1. p[i] <= p[j] /\ p[i] \in Int /\ p[j] \in Int /\ p[j] <= x /\ ~(p[i] <= x)
      BY <1>1, <1>3
    <3> QED BY <1>2, <3>1
  <2>2. Cardinality(A) < Cardinality(T)
    BY <1>1, <2>1, Fewer
  <2> QED BY <1>1, <1>2, <1>3, <2>2
<1> DEFINE E == T \ B
<1>6. IsFiniteSet(E) /\ Cardinality(E) = n - Cardinality(B) /\ E # {} /\ E \in SUBSET D
  <2>1. IsFiniteSet(E) /\ Cardinality(E) = Cardinality(T) - Cardinality(T \intersect B)
    BY <1>1, FS_Difference
  <2>2. T \intersect B = B
    BY <1>4
  <2>3. Cardinality(E) = n - Cardinality(B)
    BY <1>1, <2>1, <2>2
  <2>4. Cardinality(E) # 0
    BY <1>1, <1>2, <1>3, <2>3
  <2> QED BY <1>1, <2>1, <2>3, <2>4, FS_EmptySet
<1>7. \A i \in E : p[i] = x
  <2> TAKE i \in E
  <2>1. p[i] \in Int /\ p[i] <= x /\ ~(p[i] < x)
    BY <1>1, <1>3, <1>5
  <2> QED BY <1>2, <2>1
<1>8. T = B \union E /\ B \intersect E = {} /\ B \in SUBSET D
  BY <1>3, <1>4
<1> HIDE DEF E
<1>9. Total(p, T) = Total(p, B) + x * (n - Cardinality(B))
  BY <1>2, <1>3, <1>6, <1>7, <1>8, TotalOfEqual
<1>10. Max({p[i] : i \in T}) = x
  <2> DEFINE V == {p[i] : i \in T}
  <2>1. x \in V
    BY <1>6, <1>7, <1>8
  <2>2. \A y \in V : y \in Int /\ x >= y
    BY <1>1, <1>2, <1>3, <1>5
  <2>3. Max(V) = CHOOSE v \in V : \A y \in V : v >= y
    BY DEF Max
  <2> HIDE DEF V
  <2>4. Max(V) \in V /\ \A y \in V : Max(V) >= y
    BY <2>1, <2>2, <2>3
  <2>5. Max(V) \in Int /\ x >= Max(V)
    BY <2>2, <2>4
  <2>6. Max(V) >= x
    BY <2>1, <2>4
  <2>7. Max(V) = x
    BY <1>2, <2>5, <2>6
  <2> QED BY <2>7 DEF V
<1>11. RefTail(p, n) = [var |-> -x, loss |-> -(Total(p, B) + x * (n - Cardinality(B)))]
  BY DEF RefTail, x, B, Below
<1> QED BY <1>9, <1>10, <1>11

\* What tail_stats returns is the tail of the reference, whether or not it took a
\* sample, and whichever of tied scenarios it selected.
LEMMA TailStatsAgree ==
  ASSUME NEW n \in Nat \ {0}, NEW lo \in Int, NEW p \in [lo..lo + n - 1 -> Int], NEW m \in 1..n,
         NEW r \in TailStats(p, lo, n, m)
  PROVE  r = RefTail(p, m)
<1> DEFINE D == lo..lo + n - 1
<1>1. IsFiniteSet(D) /\ Cardinality(D) = n /\ DOMAIN p = D
  <2>1. lo + n - 1 \in Int /\ ~(lo > lo + n - 1) /\ lo + n - 1 - lo + 1 = n
    OBVIOUS
  <2> QED BY <2>1, FS_Interval
<1> HIDE DEF D
<1>2. \E T \in Tails(p, D, m) : r = [var |-> -Max({p[i] : i \in T}), loss |-> -Total(p, T)]
  <2>1. CASE r \in TailOf(p, D, m)
    BY <2>1 DEF TailOf
  <2>2. CASE r \notin TailOf(p, D, m)
    <3>1. IsThin(n, m) /\ r \in UNION {LET C == Candidates(p, p[s])
                                       IN IF Cardinality(C) >= m THEN TailOf(p, C, m) ELSE TailOf(p, D, m) :
                                          s \in Sampled(lo, n)}
      BY <1>1, <2>2 DEF TailStats
    <3>2. PICK s \in Sampled(lo, n) : r \in TailOf(p, Candidates(p, p[s]), m)
      BY <2>2, <3>1
    <3>3. s \in D
      <4> DEFINE q == n \div Sample
      <4>1. q \in Int /\ Sample * q <= n /\ n < Sample * q + Sample /\ Sample \in Nat \ {0}
        BY TailAssumption, DivMod
      <4>2. PICK i \in 0..Sample - 1 : s = lo + i * q
        BY DEF Sampled
      <4> HIDE DEF q
      <4>3. q >= 0
        <5>1. q < 0 => Sample * q <= -Sample
          BY <4>1
        <5> QED BY <4>1, <5>1
      <4>4. i * q >= 0 /\ i * q <= (Sample - 1) * q /\ (Sample - 1) * q = Sample * q - q
        BY <4>1, <4>2, <4>3
      <4>5. i * q <= n - 1 /\ i * q \in Int
        <5>1. CASE q = 0
          BY <4>2, <5>1
        <5>2. CASE q # 0
          <6>1. Sample * q \in Int /\ i * q \in Int
            BY <4>1, <4>2
          <6> QED BY <4>1, <4>3, <4>4, <5>2, <6>1
        <5> QED BY <5>1, <5>2
      <4> QED BY <4>2, <4>4, <4>5 DEF D
    <3>4. PICK T \in Tails(p, Candidates(p, p[s]), m) :
            r = [var |-> -Max({p[i] : i \in T}), loss |-> -Total(p, T)]
      BY <3>2 DEF TailOf
    <3>5. T \in Tails(p, D, m)
      <4>1. p \in [D -> Int] /\ p[s] \in Int /\ m \in Nat
        BY <1>1, <3>3
      <4> QED BY <4>1, SampleHarmless
    <3> QED BY <3>4, <3>5
  <2> QED BY <2>1, <2>2
<1>3. p \in [D -> Int]
  BY DEF D
<1> QED BY <1>1, <1>2, <1>3, TailIsReference

\* A tail has at least one scenario and at most all of them.
LEMMA TailRank ==
  ASSUME NEW n \in Nat \ {0}
  PROVE  RefTailCount(n) \in 1..n
<1>1. 0 \in Slips
  BY TailAssumption DEF Slips
<1>2. RefTailCount(n) = TailCount(n, 0)
  BY <1>1, RoundingHarmless
<1>3. Raw(n, 0) \in Int
  <2>1. Alpha * n * Grain + 0 - Guard \in Int /\ Den * Grain \in Nat \ {0}
    BY TailAssumption
  <2> QED BY <2>1, CeilingBounds DEF Raw
<1> QED BY <1>2, <1>3 DEF TailCount, Clamp

-----------------------------------------------------------------------------
(* The sorted window of the backtest                                       *)

LEMMA UpTo == \A n \in Nat : IsFiniteSet(1..n) /\ Cardinality(1..n) = n
<1> TAKE n \in Nat
<1>1. /\ IsFiniteSet(1..n)
      /\ Cardinality(1..n) = IF 1 > n THEN 0 ELSE n - 1 + 1
  BY FS_Interval
<1> QED BY <1>1

\* A sequence of numbers is a function on 1 to its length, and the reverse.
LEMMA SequenceOf ==
  ASSUME NEW s \in Seq(Int)
  PROVE  /\ Len(s) \in Nat /\ s \in [1..Len(s) -> Int] /\ DOMAIN s = 1..Len(s)
         /\ IsFiniteSet(1..Len(s)) /\ Cardinality(1..Len(s)) = Len(s)
<1>1. Len(s) \in Nat /\ s \in [1..Len(s) -> Int] /\ DOMAIN s = 1..Len(s)
  BY LenProperties
<1>2. IsFiniteSet(1..Len(s)) /\ Cardinality(1..Len(s)) = Len(s)
  BY <1>1, UpTo
<1> QED BY <1>1, <1>2

LEMMA FunctionIsSequence ==
  ASSUME NEW n \in Nat, NEW s \in [1..n -> Int]
  PROVE  s \in Seq(Int) /\ Len(s) = n
<1>1. s \in Seq(Int)
  BY SeqDef
<1>2. Len(s) \in Nat /\ 1..Len(s) = 1..n
  BY <1>1, LenProperties
<1>3. Cardinality(1..Len(s)) = Len(s) /\ Cardinality(1..n) = n
  BY <1>2, UpTo
<1> QED BY <1>1, <1>2, <1>3

\* The smallest values in order: the i-th is at most x just where i places are.
LEMMA SortedOrders ==
  ASSUME NEW s \in Seq(Int)
  PROVE  /\ Sorted(s) \in [1..Len(s) -> Int]
         /\ \A i \in 1..Len(s), x \in Int : Sorted(s)[i] <= x <=> i <= Cardinality(AtMost(s, x))
<1>1. /\ IsFiniteSet(1..Len(s)) /\ Cardinality(1..Len(s)) = Len(s)
      /\ s \in [1..Len(s) -> Int] /\ Len(s) \in Nat
  BY SequenceOf
<1>2. \A i \in 1..Len(s) : RefKth(s, i) \in Int
  BY <1>1, KthSmallest
<1>3. Sorted(s) \in [1..Len(s) -> Int] /\ \A i \in 1..Len(s) : Sorted(s)[i] = RefKth(s, i)
  BY <1>2 DEF Sorted
<1>4. ASSUME NEW i \in 1..Len(s), NEW x \in Int
      PROVE  Sorted(s)[i] <= x <=> i <= Cardinality(AtMost(s, x))
  BY <1>1, <1>3, KthAtMost
<1> QED BY <1>3, <1>4

\* A sequence with that property is the sorted copy.
LEMMA SortedIs ==
  ASSUME NEW s \in Seq(Int), NEW z \in [1..Len(s) -> Int],
         \A i \in 1..Len(s), x \in Int : z[i] <= x <=> i <= Cardinality(AtMost(s, x))
  PROVE  z = Sorted(s)
<1>1. /\ IsFiniteSet(1..Len(s)) /\ Cardinality(1..Len(s)) = Len(s)
      /\ s \in [1..Len(s) -> Int] /\ Len(s) \in Nat
  BY SequenceOf
<1>2. ASSUME NEW i \in 1..Len(s) PROVE RefKth(s, i) = z[i]
  <2>1. z[i] \in Int /\ z[i] <= z[i] /\ ~(z[i] <= z[i] - 1) /\ z[i] - 1 \in Int
    OBVIOUS
  <2>2. i <= Cardinality(AtMost(s, z[i])) /\ ~(i <= Cardinality(AtMost(s, z[i] - 1)))
    BY <2>1
  <2> QED BY <1>1, <2>1, <2>2, KthIs
<1> QED BY <1>2 DEF Sorted

\* t is s a day later: the first day of s has left, the last day of t has come.
DayLater(s, t) ==
  /\ s \in Seq(Int) /\ t \in Seq(Int) /\ Len(t) = Len(s) /\ Len(s) > 0
  /\ \A i \in 1..Len(s) - 1 : t[i] = s[i + 1]

\* What that does to the number of days at most x.
LEMMA CountsSlide ==
  ASSUME NEW s, NEW t, DayLater(s, t), NEW x \in Int
  PROVE  Cardinality(AtMost(t, x)) =
           Cardinality(AtMost(s, x)) - (IF s[1] <= x THEN 1 ELSE 0) + (IF t[Len(s)] <= x THEN 1 ELSE 0)
<1> DEFINE n == Len(s)
           a == t[n]
           S == AtMost(s, x) \ {1}
           T == AtMost(t, x) \ {n}
           g == [i \in S |-> i - 1]
<1>1. /\ n \in Nat \ {0} /\ s \in [1..n -> Int] /\ t \in [1..n -> Int]
      /\ \A i \in 1..n - 1 : t[i] = s[i + 1]
  BY SequenceOf DEF DayLater
<1>2. IsFiniteSet(1..n) /\ Cardinality(1..n) \in Nat
  BY SequenceOf DEF DayLater
<1> HIDE DEF n
<1>3. /\ IsFiniteSet(AtMost(s, x)) /\ Cardinality(AtMost(s, x)) \in Nat
      /\ IsFiniteSet(AtMost(t, x)) /\ Cardinality(AtMost(t, x)) \in Nat
  <2>1. /\ IsFiniteSet(AtMost(s, x)) /\ Cardinality(AtMost(s, x)) \in 0..Cardinality(1..n)
        /\ IsFiniteSet(AtMost(t, x)) /\ Cardinality(AtMost(t, x)) \in 0..Cardinality(1..n)
    BY <1>1, <1>2, Counts
  <2> QED BY <1>2, <2>1
<1>4. /\ AtMost(s, x) = {i \in 1..n : s[i] <= x} /\ AtMost(t, x) = {i \in 1..n : t[i] <= x}
      /\ (1 \in AtMost(s, x) <=> s[1] <= x) /\ (n \in AtMost(t, x) <=> a <= x)
  BY <1>1 DEF AtMost
<1>5. Cardinality(S) = Cardinality(AtMost(s, x)) - (IF s[1] <= x THEN 1 ELSE 0)
  <2>1. Cardinality(S) = IF 1 \in AtMost(s, x) THEN Cardinality(AtMost(s, x)) - 1 ELSE Cardinality(AtMost(s, x))
    BY <1>3, FS_RemoveElement
  <2> QED BY <1>3, <1>4, <2>1
<1>6. Cardinality(T) = Cardinality(AtMost(t, x)) - (IF a <= x THEN 1 ELSE 0)
  <2>1. Cardinality(T) = IF n \in AtMost(t, x) THEN Cardinality(AtMost(t, x)) - 1 ELSE Cardinality(AtMost(t, x))
    BY <1>3, FS_RemoveElement
  <2> QED BY <1>3, <1>4, <2>1
<1>7. g \in Bijection(S, T)
  <2>1. ASSUME NEW i \in S PROVE i - 1 \in T
    BY <1>1, <1>4, SMTT(30)
  <2>2. ASSUME NEW j \in T PROVE j + 1 \in S /\ g[j + 1] = j
    BY <1>1, <1>4
  <2>3. \A i, j \in S : g[i] = g[j] => i = j
    BY <1>1, <1>4
  <2>4. g \in [S -> T]
    BY <2>1
  <2>5. \A j \in T : \E i \in S : g[i] = j
    BY <2>2
  <2> HIDE DEF g, S, T
  <2> QED BY <2>3, <2>4, <2>5 DEF Bijection, Injection, Surjection, IsInjective
<1>8. IsFiniteSet(S) /\ IsFiniteSet(T)
  BY <1>3, FS_RemoveElement
<1>9. Cardinality(T) = Cardinality(S)
  BY <1>7, <1>8, FS_Bijection DEF ExistsBijection
<1> QED BY <1>3, <1>5, <1>6, <1>9 DEF n

\* SortedWindow.slide: as the value that leaves is one of those in the window,
\* ties and all, the window stays sorted and holds the days of a day later.
THEOREM SlideSorts ==
  ASSUME NEW s, NEW t, DayLater(s, t)
  PROVE  Slide(Sorted(s), s[1], t[Len(s)]) = Sorted(t)
<1> DEFINE n == Len(s)
           v == Sorted(s)
           out == s[1]
           a == t[n]
           C(x) == Cardinality(AtMost(s, x))
           L == C(out - 1)
<1>1. /\ n \in Nat \ {0} /\ s \in [1..n -> Int] /\ t \in Seq(Int) /\ Len(t) = n
      /\ out \in Int /\ a \in Int /\ out - 1 \in Int
  BY SequenceOf DEF DayLater
<1>2. IsFiniteSet(1..n) /\ Cardinality(1..n) = n
  BY SequenceOf DEF DayLater
<1>3. v \in [1..n -> Int] /\ \A i \in 1..n, x \in Int : v[i] <= x <=> i <= C(x)
  BY SortedOrders DEF DayLater
<1>4. \A x \in Int : C(x) \in 0..n
  BY <1>2, <1>1, Counts
<1>5. L \in Nat /\ L < C(out) /\ C(out) \in 0..n
  <2>1. AtMost(s, out - 1) \subseteq AtMost(s, out) /\ 1 \in AtMost(s, out) /\ 1 \notin AtMost(s, out - 1)
    BY <1>1 DEF AtMost
  <2>2. IsFiniteSet(AtMost(s, out))
    BY <1>2, <1>1, Counts
  <2> QED BY <1>1, <1>4, <2>1, <2>2, Fewer
<1>6. \A x \in Int : (out <= x => L < C(x)) /\ (~(out <= x) => C(x) <= L)
  <2> TAKE x \in Int
  <2>1. \A y, z \in Int : y < z => C(y) <= C(z)
    <3> TAKE y \in Int, z \in Int
    <3>1. C(y) \in 0..n /\ C(z) \in 0..n
      BY <1>4
    <3>2. Cardinality(Below(s, z)) \in Nat /\ Cardinality(Below(s, z)) <= C(z)
      BY <1>2, <1>1, Counts
    <3>3. y < z => C(y) <= Cardinality(Below(s, z))
      BY <1>2, <1>1, Counts
    <3> QED BY <1>1, <3>1, <3>2, <3>3
  <2> HIDE DEF C, out, n
  <2>2. out < x => C(out) <= C(x)
    BY <1>1, <2>1
  <2>3. x < out - 1 => C(x) <= L
    BY <1>1, <2>1
  <2>4. C(x) \in 0..n
    BY <1>4
  <2>5. x = out \/ out < x \/ x = out - 1 \/ x < out - 1
    BY <1>1
  <2> QED BY <1>1, <1>5, <2>2, <2>3, <2>4, <2>5
<1>7. \A x \in Int : Cardinality(AtMost(t, x)) = C(x) - (IF out <= x THEN 1 ELSE 0) + (IF a <= x THEN 1 ELSE 0)
  BY CountsSlide
<1> DEFINE d == Dropped(v, out)
<1> HIDE DEF n, v, out, a, C, L
<1>8. d = L + 1 /\ d \in 1..n
  <2> DEFINE e == L + 1
             P(i) == v[i] >= out /\ \A j \in 1..i - 1 : v[j] < out
  <2>1. e \in 1..n
    BY <1>1, <1>5
  <2>2. \A i \in 1..n : v[i] \in Int /\ (v[i] < out <=> i < e)
    <3> TAKE i \in 1..n
    <3>1. v[i] \in Int /\ (v[i] <= out - 1 <=> i <= L)
      BY <1>1, <1>3 DEF L
    <3> QED BY <1>1, <1>5, <3>1, SMTT(30)
  <2>3. P(e)
    <3> HIDE DEF e
    <3>1. v[e] \in Int /\ ~(v[e] < out) /\ \A j \in 1..e - 1 : j \in 1..n /\ j < e
      BY <1>1, <2>1, <2>2
    <3> QED BY <1>1, <2>2, <3>1
  <2>4. d = CHOOSE i \in 1..n : P(i)
    BY <1>3 DEF Dropped
  <2>5. d \in 1..n /\ P(d)
    <3> HIDE DEF P, d, e
    <3> QED BY <2>1, <2>3, <2>4, Zenon
  <2> HIDE DEF d
  <2>6. ~(d < e)
    BY <1>1, <2>2, <2>5
  <2>7. ~(e < d)
    <3> HIDE DEF e
    <3>1. ASSUME e < d PROVE FALSE
      <4>1. e \in 1..d - 1 /\ ~(e < e)
        BY <1>1, <2>1, <2>5, <3>1
      <4>2. v[e] < out
        BY <2>5, <4>1
      <4> QED BY <2>1, <2>2, <4>1, <4>2
    <3> QED BY <3>1
  <2> QED BY <1>1, <1>5, <2>1, <2>5, <2>6, <2>7
<1> DEFINE w == Without(v, d)
           c(x) == C(x) - (IF out <= x THEN 1 ELSE 0)
<1> HIDE DEF d
<1>9. w \in [1..n - 1 -> Int] /\ \A i \in 1..n - 1 : w[i] = IF i < d THEN v[i] ELSE v[i + 1]
  <2> DEFINE l == SubSeq(v, 1, d - 1)
             r == SubSeq(v, d + 1, Len(v))
  <2>1. v \in Seq(Int) /\ Len(v) = n
    BY <1>1, <1>3, FunctionIsSequence
  <2>2. l \in Seq(Int) /\ Len(l) = d - 1 /\ \A i \in 1..d - 1 : l[i] = v[i]
    <3>1. \A i \in 1..d - 1 : v[i] \in Int
      BY <1>1, <1>3, <1>8
    <3>2. d - 1 \in Int /\ 1 \in Int /\ d - 1 - 1 + 1 = d - 1
      BY <1>8
    <3>3. /\ l \in Seq(Int) /\ Len(l) = IF 1 <= d - 1 THEN d - 1 - 1 + 1 ELSE 0
          /\ \A i \in 1..d - 1 - 1 + 1 : l[i] = v[1 + i - 1]
      BY <3>1, <3>2, SubSeqProperties
    <3> HIDE DEF l
    <3> QED BY <1>8, <3>2, <3>3
  <2>3. r \in Seq(Int) /\ Len(r) = n - d /\ \A i \in 1..n - d : r[i] = v[d + i]
    <3>1. \A i \in d + 1..n : v[i] \in Int
      BY <1>1, <1>3, <1>8
    <3>2. d + 1 \in Int /\ n \in Int /\ n - (d + 1) + 1 = n - d
      BY <1>1, <1>8
    <3>3. /\ r \in Seq(Int) /\ Len(r) = IF d + 1 <= n THEN n - (d + 1) + 1 ELSE 0
          /\ \A i \in 1..n - (d + 1) + 1 : r[i] = v[d + 1 + i - 1]
      BY <2>1, <3>1, <3>2, SubSeqProperties
    <3> HIDE DEF r
    <3>4. Len(r) = n - d
      BY <1>1, <1>8, <3>3
    <3>5. ASSUME NEW i \in 1..n - d PROVE r[i] = v[d + i]
      <4>1. i \in 1..n - (d + 1) + 1 /\ d + 1 + i - 1 = d + i
        BY <1>1, <1>8, SMTT(30)
      <4> QED BY <3>3, <4>1
    <3> QED BY <3>3, <3>4, <3>5
  <2>4. w = l \o r
    BY DEF Without
  <2> HIDE DEF l, r
  <2>5. /\ w \in Seq(Int) /\ Len(w) = Len(l) + Len(r)
        /\ \A i \in 1..Len(l) + Len(r) : w[i] = IF i <= Len(l) THEN l[i] ELSE r[i - Len(l)]
    BY <2>2, <2>3, <2>4, ConcatProperties
  <2>6. Len(l) + Len(r) = n - 1
    BY <1>1, <1>8, <2>2, <2>3
  <2> HIDE DEF w
  <2>7. w \in [1..n - 1 -> Int]
    BY <2>5, <2>6, LenProperties
  <2>8. ASSUME NEW i \in 1..n - 1 PROVE w[i] = IF i < d THEN v[i] ELSE v[i + 1]
    <3>1. w[i] = IF i <= Len(l) THEN l[i] ELSE r[i - Len(l)]
      BY <2>5, <2>6
    <3>2. CASE i < d
      BY <1>1, <1>8, <2>2, <3>1, <3>2, SMTT(30)
    <3>3. CASE ~(i < d)
      <4>0. Len(l) = d - 1 /\ n \in Int /\ d \in Int /\ i \in Int /\ d <= i /\ i <= n - 1
        BY <1>1, <1>8, <2>2, <3>3
      <4>1. i - Len(l) \in 1..n - d /\ d + (i - Len(l)) = i + 1 /\ ~(i <= Len(l))
        BY <4>0
      <4> QED BY <2>3, <3>1, <3>3, <4>1
    <3> QED BY <3>2, <3>3
  <2> QED BY <2>7, <2>8
<1> HIDE DEF w
<1>10. \A x \in Int : /\ C(x) \in 0..n /\ c(x) \in 0..n - 1
                     /\ (out <= x => d <= C(x)) /\ (~(out <= x) => C(x) < d)
  <2> TAKE x \in Int
  <2>1. C(x) \in 0..n /\ (out <= x => L < C(x)) /\ (~(out <= x) => C(x) <= L)
    BY <1>4, <1>6
  <2> QED BY <1>1, <1>5, <1>8, <2>1, SMTT(30)
<1>11. \A i \in 1..n - 1, x \in Int : w[i] <= x <=> i <= c(x)
  <2> TAKE i \in 1..n - 1, x \in Int
  <2>0. i \in 1..n /\ i + 1 \in 1..n
    BY <1>1
  <2>1. C(x) \in 0..n /\ (out <= x => d <= C(x)) /\ (~(out <= x) => C(x) < d)
    BY <1>10
  <2>2. CASE i < d
    <3>1. w[i] <= x <=> i <= C(x)
      BY <1>3, <1>9, <2>0, <2>2
    <3> QED BY <1>8, <2>1, <2>2, <3>1
  <2>3. CASE ~(i < d)
    <3>1. w[i] <= x <=> i + 1 <= C(x)
      BY <1>3, <1>9, <2>0, <2>3
    <3> QED BY <1>8, <2>1, <2>3, <3>1
  <2> QED BY <2>2, <2>3
<1> DEFINE p == Place(w, a)
<1>12. p = c(a) /\ p \in 0..n - 1
  <2>1. c(a) \in 0..n - 1 /\ DOMAIN w = 1..n - 1
    BY <1>1, <1>9, <1>10
  <2>2. \A i \in 1..n - 1 : w[i] <= a <=> i <= c(a)
    BY <1>1, <1>11
  <2> HIDE DEF c
  <2>3. {i \in DOMAIN w : w[i] <= a} = 1..c(a)
    BY <1>1, <2>1, <2>2
  <2>4. Cardinality(1..c(a)) = c(a)
    BY <2>1, FS_Interval
  <2> QED BY <2>1, <2>3, <2>4 DEF Place
<1>13. p \in 0..n - 1
  BY <1>12
<1> HIDE DEF p
<1> DEFINE z == With(w, p, a)
<1>14. /\ z \in [1..n -> Int]
       /\ \A i \in 1..n : z[i] = IF i <= p THEN w[i] ELSE IF i = p + 1 THEN a ELSE w[i - 1]
  <2> DEFINE l == SubSeq(w, 1, p)
             r == SubSeq(w, p + 1, Len(w))
             m == l \o <<a>>
  <2>0. n - 1 \in Nat
    BY <1>1
  <2>1. w \in Seq(Int) /\ Len(w) = n - 1
    BY <1>9, <2>0, FunctionIsSequence
  <2>2. l \in Seq(Int) /\ Len(l) = p /\ \A i \in 1..p : l[i] = w[i]
    <3>1. \A i \in 1..p : w[i] \in Int
      BY <1>1, <1>9, <1>13
    <3>2. p \in Int /\ 1 \in Int /\ p - 1 + 1 = p
      BY <1>13
    <3>3. /\ l \in Seq(Int) /\ Len(l) = IF 1 <= p THEN p - 1 + 1 ELSE 0
          /\ \A i \in 1..p - 1 + 1 : l[i] = w[1 + i - 1]
      BY <3>1, <3>2, SubSeqProperties
    <3> HIDE DEF l
    <3> QED BY <1>13, <3>2, <3>3
  <2>3. r \in Seq(Int) /\ Len(r) = n - 1 - p /\ \A i \in 1..n - 1 - p : r[i] = w[p + i]
    <3>1. \A i \in p + 1..n - 1 : w[i] \in Int
      BY <1>1, <1>9, <1>13
    <3>2. p + 1 \in Int /\ n - 1 \in Int /\ n - 1 - (p + 1) + 1 = n - 1 - p
      BY <1>1, <1>13
    <3>3. /\ r \in Seq(Int) /\ Len(r) = IF p + 1 <= n - 1 THEN n - 1 - (p + 1) + 1 ELSE 0
          /\ \A i \in 1..n - 1 - (p + 1) + 1 : r[i] = w[p + 1 + i - 1]
      BY <2>1, <3>1, <3>2, SubSeqProperties
    <3> HIDE DEF r
    <3>0. p \in Int
      BY <1>13
    <3>4. Len(r) = n - 1 - p
      BY <1>1, <1>13, <3>3
    <3>5. ASSUME NEW i \in 1..n - 1 - p PROVE r[i] = w[p + i]
      <4>1. i \in 1..n - 1 - (p + 1) + 1 /\ p + 1 + i - 1 = p + i
        BY <1>1, <3>0
      <4> QED BY <3>3, <4>1
    <3> QED BY <3>3, <3>4, <3>5
  <2>4. z = m \o r
    BY DEF With
  <2>5. <<a>> \in Seq(Int) /\ Len(<<a>>) = 1 /\ <<a>>[1] = a
    BY <1>1
  <2> HIDE DEF l, r, z
  <2>6. /\ m \in Seq(Int) /\ Len(m) = p + 1
        /\ \A i \in 1..p + 1 : m[i] = IF i <= p THEN l[i] ELSE <<a>>[i - p]
    BY <2>2, <2>5, ConcatProperties
  <2>7. \A i \in 1..p + 1 : m[i] = IF i <= p THEN w[i] ELSE a
    <3> TAKE i \in 1..p + 1
    <3>1. i <= p \/ i - p = 1
      BY <1>13
    <3>2. i <= p => i \in 1..p
      BY <1>13
    <3> HIDE DEF m
    <3> QED BY <2>2, <2>5, <2>6, <3>1, <3>2
  <2> HIDE DEF m
  <2>8. /\ z \in Seq(Int) /\ Len(z) = Len(m) + Len(r)
        /\ \A i \in 1..Len(m) + Len(r) : z[i] = IF i <= Len(m) THEN m[i] ELSE r[i - Len(m)]
    BY <2>3, <2>4, <2>6, ConcatProperties
  <2>9. Len(m) + Len(r) = n
    BY <1>1, <1>13, <2>3, <2>6
  <2>10. z \in [1..n -> Int]
    BY <2>8, <2>9, LenProperties
  <2>11. ASSUME NEW i \in 1..n
         PROVE  z[i] = IF i <= p THEN w[i] ELSE IF i = p + 1 THEN a ELSE w[i - 1]
    <3>1. z[i] = IF i <= p + 1 THEN m[i] ELSE r[i - (p + 1)]
      BY <2>6, <2>8, <2>9
    <3>2. CASE i <= p + 1
      <4>1. i \in 1..p + 1 /\ (i <= p \/ i = p + 1) /\ ~(p + 1 <= p)
        BY <1>13, <3>2
      <4> QED BY <2>7, <3>1, <3>2, <4>1
    <3>3. CASE ~(i <= p + 1)
      <4>1. i - (p + 1) \in 1..n - 1 - p /\ p + (i - (p + 1)) = i - 1 /\ ~(i <= p) /\ i # p + 1
        BY <1>1, <1>13, <3>3
      <4> QED BY <2>3, <3>1, <3>3, <4>1
    <3> QED BY <3>2, <3>3
  <2> QED BY <2>10, <2>11
<1> HIDE DEF z
<1>15. ASSUME NEW i \in 1..n, NEW x \in Int
       PROVE  z[i] <= x <=> i <= Cardinality(AtMost(t, x))
  <2>1. Cardinality(AtMost(t, x)) = c(x) + (IF a <= x THEN 1 ELSE 0) /\ c(x) \in 0..n - 1
    BY <1>7, <1>10
  <2>2. \A j \in 1..n - 1 : w[j] \in Int /\ (w[j] <= x <=> j <= c(x)) /\ (w[j] <= a <=> j <= p)
    BY <1>1, <1>9, <1>11, <1>12
  <2> HIDE DEF c
  <2>3. CASE i <= p
    <3>1. i \in 1..n - 1 /\ z[i] = w[i]
      BY <1>1, <1>13, <1>14, <2>3
    <3>2. w[i] \in Int /\ (w[i] <= x <=> i <= c(x)) /\ w[i] <= a
      BY <2>2, <2>3, <3>1
    <3> QED BY <1>1, <2>1, <3>1, <3>2, SMTT(30)
  <2>4. CASE i = p + 1
    <3>1. z[i] = a
      BY <1>13, <1>14, <2>4
    <3>2. CASE a <= x
      <4>1. p <= c(x)
        <5>1. CASE p = 0
          BY <2>1, <5>1
        <5>2. CASE p # 0
          <6>1. p \in 1..n - 1
            BY <1>1, <1>13, <5>2
          <6>2. w[p] \in Int /\ w[p] <= a /\ (w[p] <= x <=> p <= c(x))
            BY <1>13, <2>2, <6>1
          <6> QED BY <1>1, <3>2, <6>2
        <5> QED BY <5>1, <5>2
      <4> QED BY <1>13, <2>1, <2>4, <3>1, <3>2, <4>1
    <3>3. CASE ~(a <= x)
      <4>1. ~(p + 1 <= c(x))
        <5>1. ASSUME p + 1 <= c(x) PROVE FALSE
          <6>1. p + 1 \in 1..n - 1 /\ ~(p + 1 <= p)
            BY <1>1, <1>13, <2>1, <5>1
          <6>2. w[p + 1] \in Int /\ ~(w[p + 1] <= a) /\ w[p + 1] <= x
            BY <2>2, <5>1, <6>1
          <6> QED BY <1>1, <3>3, <6>2
        <5> QED BY <5>1
      <4> QED BY <1>13, <2>1, <2>4, <3>1, <3>3, <4>1
    <3> QED BY <3>2, <3>3
  <2>5. CASE ~(i <= p) /\ i # p + 1
    <3>1. z[i] = w[i - 1] /\ i - 1 \in 1..n - 1 /\ ~(i - 1 <= p)
      BY <1>1, <1>13, <1>14, <2>5
    <3>2. w[i - 1] \in Int /\ (w[i - 1] <= x <=> i - 1 <= c(x)) /\ ~(w[i - 1] <= a)
      BY <2>2, <3>1
    <3>3. i - 1 <= c(x) <=> i <= c(x) + 1
      BY <1>1, <2>1
    <3>4. CASE a <= x
      BY <2>1, <3>1, <3>2, <3>3, <3>4
    <3>5. CASE ~(a <= x)
      <4>1. ~(w[i - 1] <= x)
        BY <1>1, <2>1, <3>2, <3>5
      <4>2. ~(i <= c(x))
        BY <1>1, <2>1, <3>2, <3>3, <4>1, SMTT(30)
      <4> QED BY <2>1, <3>1, <3>5, <4>1, <4>2
    <3> QED BY <3>4, <3>5
  <2> QED BY <2>3, <2>4, <2>5
<1>16. z = Sorted(t)
  BY <1>1, <1>14, <1>15, SortedIs
<1>17. Slide(v, out, a) = z
  BY DEF Slide, d, w, p, z
<1> QED BY <1>16, <1>17 DEF v, out, a, n

-----------------------------------------------------------------------------
(* The simulation                                                          *)

\* A path belongs to the block it is numbered into.
LEMMA BlockOfPath ==
  ASSUME NEW p \in AllPaths
  PROVE  /\ Blocks \in Int
         /\ p \div Block \in 0..Blocks - 1
         /\ p \in Of(p \div Block)
         /\ p % Block = p - (p \div Block) * Block
<1> USE SimAssumption, DrawAssumption
<1> DEFINE q == p \div Block
           n == Paths + Block - 1
<1>1. p \in Int /\ 0 <= p /\ p < Paths /\ n \in Int
  BY DEF AllPaths
<1>2. q \in Int /\ Block * q <= p /\ p < Block * q + Block /\ p % Block = p - Block * q
  BY <1>1, DivMod
<1>3. Blocks \in Int /\ n < Block * Blocks + Block
  BY <1>1, DivMod DEF Blocks
<1> HIDE DEF q, n
<1>4. q >= 0
  <2>1. q < 0 => Block * q + Block <= 0
    BY <1>2
  <2> QED BY <1>1, <1>2, <2>1
<1>5. q < Blocks
  <2>1. Blocks <= q => Block * Blocks <= Block * q
    BY <1>2, <1>3
  <2>2. n = Paths + Block - 1
    BY DEF n
  <2> QED BY <1>1, <1>2, <1>3, <2>1, <2>2
<1>6. q * Block <= p /\ p < (q + 1) * Block /\ p % Block = p - q * Block
  <2>1. q * Block = Block * q /\ (q + 1) * Block = Block * q + Block
    BY <1>2
  <2> QED BY <1>1, <1>2, <2>1
<1>7. q \in 0..Blocks - 1 /\ p \in Of(q)
  BY <1>2, <1>3, <1>4, <1>5, <1>6 DEF Of
<1> QED BY <1>3, <1>6, <1>7 DEF q

LEMMA BlocksInt == Blocks \in Int
BY DivMod, SimAssumption DEF Blocks

\* Blocks are not empty, and end within the paths.
LEMMA BlockBounds ==
  ASSUME NEW b \in Nat, b < Blocks
  PROVE  /\ b * Block \in Nat /\ (b + 1) * Block \in Nat
         /\ (b + 1) * Block = b * Block + Block
         /\ EndOf(b) \in Nat /\ b * Block < EndOf(b)
         /\ EndOf(b) <= Paths /\ EndOf(b) <= (b + 1) * Block
         /\ EndOf(b) = Paths \/ EndOf(b) = (b + 1) * Block
<1> USE SimAssumption, DrawAssumption
<1> DEFINE n == Paths + Block - 1
<1>1. Blocks \in Int /\ Block * Blocks <= n
  BY DivMod DEF Blocks
<1>2. b * Block \in Nat /\ (b + 1) * Block \in Nat /\ (b + 1) * Block = b * Block + Block
  OBVIOUS
<1>3. b * Block < Paths
  <2>1. (b + 1) * Block <= Block * Blocks
    BY <1>1
  <2> QED BY <1>1, <1>2, <2>1
<1> QED BY <1>2, <1>3 DEF EndOf

\* No path belongs to two blocks.
LEMMA BlocksDisjoint ==
  ASSUME NEW b \in Nat, NEW c \in Nat, NEW p \in Nat,
         b * Block <= p, p < (b + 1) * Block, c * Block <= p, p < (c + 1) * Block
  PROVE  b = c
<1> USE SimAssumption, DrawAssumption
<1>1. b < c => (b + 1) * Block <= c * Block
  OBVIOUS
<1>2. c < b => (c + 1) * Block <= b * Block
  OBVIOUS
<1>3. b * Block \in Nat /\ (b + 1) * Block \in Nat /\ c * Block \in Nat /\ (c + 1) * Block \in Nat
  OBVIOUS
<1> QED BY <1>1, <1>2, <1>3

-----------------------------------------------------------------------------
\* Past the simulation, the threads are joined.
EngineInv == SimInv /\ (phase \in {"backtest", "done"} => Joined)

\* The parts of SimInv.
Separate ==
  \A t, u \in Threads :
    t # u /\ stage[t] = "block" /\ stage[u] = "block" => rng[t].stream # rng[u].stream

Stations ==
  \A t \in Threads :
    /\ stage[t] = "block" => InItsBlock(t)
    /\ stage[t] = "left" => next_block >= Blocks

Behind ==
  \A b \in 0..Blocks - 1 : b < next_block =>
    \A p \in Of(b) :
      \/ pnl[p] = Draw(b, p - b * Block)
      \/ \E t \in Threads : Holds(t, b) /\ at[t] <= p

LEMMA SimParts == SimInv <=> SimTypeOK /\ Stations /\ Separate /\ Behind
BY DEF SimInv, Stations, Separate, Behind

LEMMA SimInitInv == SimInit => SimInv
<1> USE SimAssumption, DrawAssumption
<1> SUFFICES ASSUME SimInit PROVE SimTypeOK /\ Stations /\ Separate /\ Behind
  BY SimParts
<1>1. SimTypeOK
  BY DEF SimInit, SimTypeOK, Stages
<1>2. \A t \in Threads : stage[t] # "block" /\ stage[t] # "left"
  BY DEF SimInit
<1>3. Behind
  BY DEF SimInit, Behind
<1> QED BY <1>1, <1>2, <1>3 DEF Stations, Separate

LEMMA LaunchInv == SimInv /\ Launch => SimInv'
<1> USE SimAssumption, DrawAssumption
<1> SUFFICES ASSUME SimInv, Launch PROVE (SimTypeOK /\ Stations /\ Separate /\ Behind)'
  BY SimParts DEF SimInv, SimTypeOK, Stations, Separate, Behind, InItsBlock, Holds
<1> USE SimParts
<1>1. PICK t \in Threads : /\ stage[t] \in {"none", "launch"}
                           /\ stage' = [stage EXCEPT ![t] = "pull"]
  BY DEF Launch, Threads
<1>2. UNCHANGED <<next_block, at, end, rng, pnl>>
  BY DEF Launch
<1>3. SimTypeOK'
  BY <1>1, <1>2 DEF SimTypeOK, Stages
<1>4. \A u \in Threads : (stage'[u] = "block" <=> stage[u] = "block")
                         /\ (stage'[u] = "left" <=> stage[u] = "left")
  BY <1>1 DEF SimTypeOK
<1>5. Stations'
  BY <1>2, <1>4 DEF Stations, InItsBlock, Holds
<1>6. Separate'
  BY <1>2, <1>4 DEF Separate
<1>7. Behind'
  BY <1>2, <1>4 DEF Behind, Holds
<1> QED BY <1>3, <1>5, <1>6, <1>7

LEMMA PullInv == ASSUME NEW t \in Threads PROVE SimInv /\ Pull(t) => SimInv'
<1> USE SimAssumption, DrawAssumption
<1> SUFFICES ASSUME SimInv, Pull(t) PROVE (SimTypeOK /\ Stations /\ Separate /\ Behind)'
  BY DEF SimInv, Stations, Separate, Behind
<1> USE SimParts
<1>1. stage[t] = "pull" /\ next_block' = next_block + 1 /\ pnl' = pnl
  BY DEF Pull
<1>2. SimTypeOK /\ next_block \in Nat
  BY DEF SimTypeOK
<1>3. CASE next_block < Blocks
  <2> DEFINE b == next_block
  <2>1. /\ stage' = [stage EXCEPT ![t] = "block"]
        /\ at' = [at EXCEPT ![t] = b * Block]
        /\ end' = [end EXCEPT ![t] = EndOf(b)]
        /\ rng' = [rng EXCEPT ![t] = [stream |-> b, drawn |-> 0]]
    BY <1>3 DEF Pull, Seeded
  <2>2. /\ b * Block \in Nat /\ EndOf(b) \in Nat /\ b * Block < EndOf(b)
    BY <1>2, <1>3, BlockBounds
  <2>3. SimTypeOK'
    BY <1>1, <1>2, <2>1, <2>2 DEF SimTypeOK, Stages
  <2>4. /\ stage'[t] = "block" /\ at'[t] = b * Block /\ end'[t] = EndOf(b)
        /\ rng'[t].stream = b /\ rng'[t].drawn = 0
    BY <1>2, <2>1 DEF SimTypeOK
  <2>5. \A u \in Threads : u # t => /\ stage'[u] = stage[u] /\ at'[u] = at[u]
                                    /\ end'[u] = end[u] /\ rng'[u] = rng[u]
    BY <1>2, <2>1 DEF SimTypeOK
  <2>6. \A u \in Threads : u # t /\ stage[u] = "block" => rng[u].stream < b
    BY DEF Stations, InItsBlock
  <2>7. Stations'
    <3>1. InItsBlock(t)'
      BY <1>1, <1>2, <1>3, <2>2, <2>4 DEF InItsBlock, Holds, EndOf
    <3>2. ASSUME NEW u \in Threads, u # t
          PROVE  /\ stage'[u] = "block" => InItsBlock(u)'
                 /\ stage'[u] = "left" => next_block' >= Blocks
      <4>1. stage[u] = "left" => next_block >= Blocks
        BY DEF Stations
      <4>2. stage[u] = "block" => InItsBlock(u)
        BY DEF Stations
      <4>3. rng[u].stream \in Nat /\ Blocks \in Int
        BY <1>2, BlocksInt DEF SimTypeOK
      <4>4. stage'[u] = "block" => InItsBlock(u)'
        BY <1>1, <1>2, <2>5, <3>2, <4>2, <4>3 DEF InItsBlock, Holds, EndOf
      <4>5. stage'[u] = "left" => next_block' >= Blocks
        BY <1>1, <1>2, <2>5, <3>2, <4>1, <4>3
      <4> QED BY <4>4, <4>5
    <3> QED BY <2>4, <3>1, <3>2 DEF Stations
  <2>8. Separate'
    BY <1>2, <2>4, <2>5, <2>6 DEF Separate
  <2>9. Behind'
    <3> SUFFICES ASSUME NEW c \in 0..Blocks - 1, c < next_block', NEW p \in Of(c)
                 PROVE  \/ pnl'[p] = Draw(c, p - c * Block)
                        \/ \E u \in Threads : Holds(u, c)' /\ at'[u] <= p
      BY DEF Behind, Of
    <3>1. CASE c = next_block
      <4>1. at'[t] <= p
        BY <2>4, <3>1 DEF Of
      <4>2. Holds(t, c)'
        BY <2>2, <2>4, <3>1 DEF Holds
      <4> QED BY <4>1, <4>2
    <3>2. CASE c < next_block
      <4>1. CASE pnl[p] = Draw(c, p - c * Block)
        BY <1>1, <4>1
      <4>2. ASSUME NEW u \in Threads, Holds(u, c), at[u] <= p
            PROVE  Holds(u, c)' /\ at'[u] <= p
        BY <1>1, <2>5, <4>2 DEF Holds
      <4> QED BY <3>2, <4>1, <4>2 DEF Behind
    <3> QED BY <1>1, <1>2, <3>1, <3>2 DEF Blocks
  <2> QED BY <2>3, <2>7, <2>8, <2>9
<1>4. CASE ~(next_block < Blocks)
  <2>1. stage' = [stage EXCEPT ![t] = "left"] /\ UNCHANGED <<at, end, rng>>
    BY <1>4 DEF Pull
  <2>2. SimTypeOK'
    BY <1>1, <1>2, <2>1 DEF SimTypeOK, Stages
  <2>3. stage'[t] = "left" /\ \A u \in Threads : u # t => stage'[u] = stage[u]
    BY <1>2, <2>1 DEF SimTypeOK
  <2>4. Blocks \in Int
    BY BlocksInt
  <2>5. Stations'
    <3> SUFFICES ASSUME NEW u \in Threads
                 PROVE  /\ stage'[u] = "block" => InItsBlock(u)'
                        /\ stage'[u] = "left" => next_block' >= Blocks
      BY DEF Stations
    <3>1. CASE u = t
      BY <1>1, <1>2, <1>4, <2>3, <2>4, <3>1
    <3>2. CASE u # t
      <4>1. /\ stage[u] = "block" => InItsBlock(u)
            /\ stage[u] = "left" => next_block >= Blocks
        BY DEF Stations
      <4>2. rng[u].stream \in Nat
        BY <1>2 DEF SimTypeOK
      <4>3. stage'[u] = "block" => InItsBlock(u)'
        BY <1>1, <1>2, <2>1, <2>3, <3>2, <4>1, <4>2 DEF InItsBlock, Holds, EndOf
      <4> QED BY <1>1, <1>2, <2>3, <2>4, <3>2, <4>1, <4>3
    <3> QED BY <3>1, <3>2
  <2>6. Separate'
    BY <2>1, <2>3 DEF Separate
  <2>7. Behind'
    <3> SUFFICES ASSUME NEW c \in 0..Blocks - 1, c < next_block', NEW p \in Of(c)
                 PROVE  \/ pnl'[p] = Draw(c, p - c * Block)
                        \/ \E u \in Threads : Holds(u, c)' /\ at'[u] <= p
      BY DEF Behind, Of
    <3>1. c < next_block
      BY <1>2, <1>4, <2>4
    <3>2. CASE pnl[p] = Draw(c, p - c * Block)
      BY <1>1, <3>2
    <3>3. ASSUME NEW u \in Threads, Holds(u, c), at[u] <= p
          PROVE  Holds(u, c)' /\ at'[u] <= p
      BY <1>1, <2>1, <2>3, <3>3 DEF Holds
    <3> QED BY <3>1, <3>2, <3>3 DEF Behind
  <2> QED BY <2>2, <2>5, <2>6, <2>7
<1> QED BY <1>3, <1>4

LEMMA SimulateInv == ASSUME NEW t \in Threads PROVE SimInv /\ Simulate(t) => SimInv'
<1> USE SimAssumption, DrawAssumption
<1> SUFFICES ASSUME SimInv, Simulate(t) PROVE (SimTypeOK /\ Stations /\ Separate /\ Behind)'
  BY DEF SimInv, Stations, Separate, Behind
<1> USE SimParts
<1> DEFINE b == rng[t].stream
           p0 == at[t]
<1>1. /\ SimTypeOK /\ next_block \in Nat /\ Blocks \in Int
      /\ b \in Nat /\ p0 \in Nat /\ rng[t].drawn \in Nat /\ end[t] \in Nat
  BY BlocksInt DEF SimTypeOK
<1>2. /\ stage[t] = "block" /\ InItsBlock(t)
      /\ pnl' = [pnl EXCEPT ![p0] = Draw(b, rng[t].drawn)]
      /\ rng' = [rng EXCEPT ![t].drawn = @ + 1]
      /\ at' = [at EXCEPT ![t] = @ + 1]
      /\ stage' = [stage EXCEPT ![t] = IF p0 + 1 < end[t] THEN "block" ELSE "pull"]
      /\ next_block' = next_block /\ end' = end
  BY DEF Simulate, Stations
<1>3. /\ rng[t].drawn = p0 - b * Block /\ b < next_block /\ b < Blocks
      /\ b * Block <= p0 /\ p0 < end[t] /\ end[t] = EndOf(b)
  BY <1>2 DEF InItsBlock, Holds
<1>4. /\ b * Block \in Nat /\ (b + 1) * Block \in Nat /\ (b + 1) * Block = b * Block + Block
      /\ end[t] <= Paths /\ end[t] <= (b + 1) * Block
      /\ end[t] = Paths \/ end[t] = (b + 1) * Block
  BY <1>1, <1>3, BlockBounds
<1>5. p0 \in AllPaths /\ Draw(b, p0 - b * Block) \in Int
  <2>1. p0 \in AllPaths
    BY <1>1, <1>3, <1>4 DEF AllPaths
  <2>2. b \in 0..Blocks - 1 /\ p0 - b * Block \in 0..Block - 1
    BY <1>1, <1>3, <1>4
  <2> QED BY <2>1, <2>2
<1>6. /\ stage'[t] = IF p0 + 1 < end[t] THEN "block" ELSE "pull"
      /\ at'[t] = p0 + 1 /\ rng'[t].stream = b /\ rng'[t].drawn = p0 - b * Block + 1
      /\ pnl'[p0] = Draw(b, p0 - b * Block)
  BY <1>1, <1>2, <1>3, <1>5 DEF SimTypeOK
<1>7. /\ \A u \in Threads : u # t => stage'[u] = stage[u] /\ at'[u] = at[u] /\ rng'[u] = rng[u]
      /\ \A p \in AllPaths : p # p0 => pnl'[p] = pnl[p]
  BY <1>1, <1>2 DEF SimTypeOK
<1>8. SimTypeOK'
  <2>1. stage' \in [Threads -> Stages] /\ at' \in [Threads -> Nat] /\ end' \in [Threads -> Nat]
    BY <1>1, <1>2 DEF SimTypeOK, Stages
  <2>2. rng' \in [Threads -> [stream: Nat, drawn: Nat]]
    BY <1>1, <1>2 DEF SimTypeOK
  <2>3. pnl' \in [AllPaths -> Int]
    BY <1>1, <1>2, <1>3, <1>5 DEF SimTypeOK
  <2> QED BY <1>1, <1>2, <2>1, <2>2, <2>3 DEF SimTypeOK
<1>9. Stations'
  <2> SUFFICES ASSUME NEW u \in Threads
               PROVE  /\ stage'[u] = "block" => InItsBlock(u)'
                      /\ stage'[u] = "left" => next_block' >= Blocks
    BY DEF Stations
  <2>1. CASE u = t
    <3>1. stage'[t] # "left"
      BY <1>6
    <3>2. stage'[t] = "block" => InItsBlock(t)'
      BY <1>1, <1>2, <1>3, <1>4, <1>6 DEF InItsBlock, Holds, EndOf
    <3> QED BY <2>1, <3>1, <3>2
  <2>2. CASE u # t
    <3>1. /\ stage[u] = "block" => InItsBlock(u)
          /\ stage[u] = "left" => next_block >= Blocks
      BY DEF Stations
    <3>2. stage'[u] = "block" => InItsBlock(u)'
      BY <1>2, <1>7, <2>2, <3>1 DEF InItsBlock, Holds, EndOf
    <3> QED BY <1>2, <1>7, <2>2, <3>1, <3>2
  <2> QED BY <2>1, <2>2
<1>10. Separate'
  <2>1. \A u \in Threads : rng'[u].stream = rng[u].stream
                          /\ (stage'[u] = "block" => stage[u] = "block")
    BY <1>2, <1>6, <1>7
  <2> QED BY <2>1 DEF Separate
<1>11. Behind'
  <2> SUFFICES ASSUME NEW c \in 0..Blocks - 1, c < next_block', NEW p \in Of(c)
               PROVE  \/ pnl'[p] = Draw(c, p - c * Block)
                      \/ \E u \in Threads : Holds(u, c)' /\ at'[u] <= p
    BY DEF Behind, Of
  <2>1. /\ c \in Nat /\ c < next_block /\ p \in AllPaths /\ p \in Nat /\ p < Paths
        /\ c * Block <= p /\ p < (c + 1) * Block
    BY <1>1, <1>2 DEF Of, AllPaths
  <2>2. CASE p = p0
    <3>1. p0 < (b + 1) * Block
      BY <1>1, <1>3, <1>4
    <3>2. c = b
      BY <1>1, <1>3, <2>1, <2>2, <3>1, BlocksDisjoint
    <3> QED BY <1>6, <2>2, <3>2
  <2>3. CASE p # p0 /\ pnl[p] = Draw(c, p - c * Block)
    BY <1>7, <2>1, <2>3
  <2>4. ASSUME p # p0, NEW u \in Threads, Holds(u, c), at[u] <= p
        PROVE  Holds(u, c)' /\ at'[u] <= p
    <3>1. CASE u # t
      BY <1>7, <2>4, <3>1 DEF Holds
    <3>2. CASE u = t
      <4>1. c = b
        BY <2>4, <3>2 DEF Holds
      <4>2. p0 + 1 <= p
        BY <1>1, <2>1, <2>4, <3>2
      <4>3. p0 + 1 < end[t]
        BY <1>1, <1>4, <2>1, <4>1, <4>2
      <4>4. stage'[t] = "block"
        BY <1>6, <4>3
      <4>5. rng'[t].drawn = at'[t] - b * Block
        BY <1>1, <1>4, <1>6
      <4> QED BY <1>6, <3>2, <4>1, <4>2, <4>4, <4>5 DEF Holds
    <3> QED BY <3>1, <3>2
  <2> QED BY <2>1, <2>2, <2>3, <2>4 DEF Behind
<1> QED BY <1>8, <1>9, <1>10, <1>11

LEMMA SimUnchanged == SimInv /\ UNCHANGED simVars => SimInv'
<1> USE SimAssumption, DrawAssumption
<1> SUFFICES ASSUME SimInv, UNCHANGED simVars PROVE SimInv'
  OBVIOUS
<1> QED BY DEF SimInv, SimTypeOK, InItsBlock, Holds, simVars

-----------------------------------------------------------------------------
\* The invariant of the simulation holds at every step of a request, and what
\* follows the simulation finds its threads joined.
THEOREM Simulation == Spec => []EngineInv
<1> USE SimAssumption, DrawAssumption
<1>1. Init => EngineInv
  BY SimInitInv DEF Init, EngineInv
<1>2. EngineInv /\ [Next]_vars => EngineInv'
  <2> SUFFICES ASSUME EngineInv, [Next]_vars PROVE EngineInv'
    OBVIOUS
  <2>1. CASE SimulationStep
    <3>1. SimInv'
      BY <2>1, LaunchInv, PullInv, SimulateInv DEF EngineInv, SimulationStep, SimStep
    <3>2. phase' = "simulate"
      BY <2>1 DEF SimulationStep, engineVars
    <3> QED BY <3>1, <3>2 DEF EngineInv
  <2>2. CASE Backtest
    <3>1. SimInv' /\ Joined'
      BY <2>2, SimUnchanged DEF EngineInv, Backtest, Simulated, simVars, Joined
    <3> QED BY <3>1 DEF EngineInv
  <2>3. CASE Historical \/ Raise \/ BacktestRaises \/ Forecast \/ Report \/ UNCHANGED vars
    <3>1. UNCHANGED simVars
      BY <2>3 DEF Historical, Raise, BacktestRaises, Forecast, Report, vars
    <3>2. SimInv' /\ (Joined => Joined')
      BY <3>1, SimUnchanged DEF EngineInv, simVars, Joined
    <3>3. phase' \in {"backtest", "done"} => phase \in {"backtest", "done"}
      BY <2>3 DEF Historical, Raise, BacktestRaises, Forecast, Report, vars, engineVars
    <3> QED BY <3>2, <3>3 DEF EngineInv
  <2> QED BY <2>1, <2>2, <2>3 DEF Next
<1> QED BY <1>1, <1>2, PTL DEF Spec

\* No two threads write the same entry of the P&L, for any number of threads,
\* blocks and paths (riskcore.cpp locks nothing but the counter).
THEOREM RaceFree == Spec => []NoSharedPath
<1> USE SimAssumption, DrawAssumption
<1>1. SimInv => NoSharedPath
  <2> SUFFICES ASSUME SimInv, NEW t \in Threads, NEW u \in Threads, t # u,
                      stage[t] = "block", stage[u] = "block", at[t] = at[u]
               PROVE  FALSE
    BY DEF NoSharedPath
  <2> DEFINE b == rng[t].stream
             c == rng[u].stream
  <2>1. /\ b \in Nat /\ c \in Nat /\ at[t] \in Nat /\ b # c
        /\ InItsBlock(t) /\ InItsBlock(u) /\ end[t] \in Nat /\ end[u] \in Nat
    BY DEF SimInv, SimTypeOK
  <2>2. /\ b * Block <= at[t] /\ at[t] < end[t] /\ end[t] <= (b + 1) * Block /\ b * Block \in Nat
        /\ (b + 1) * Block \in Nat
    <3>1. b < Blocks /\ b * Block <= at[t] /\ at[t] < end[t] /\ end[t] = EndOf(b)
      BY <2>1 DEF InItsBlock
    <3> QED BY <2>1, <3>1, BlockBounds
  <2>3. /\ c * Block <= at[u] /\ at[u] < end[u] /\ end[u] <= (c + 1) * Block /\ (c + 1) * Block \in Nat
    <3>1. c < Blocks /\ c * Block <= at[u] /\ at[u] < end[u] /\ end[u] = EndOf(c)
      BY <2>1 DEF InItsBlock
    <3> QED BY <2>1, <3>1, BlockBounds
  <2>4. at[t] < (b + 1) * Block /\ at[t] < (c + 1) * Block
    BY <2>1, <2>2, <2>3
  <2> QED BY <2>1, <2>2, <2>3, <2>4, BlocksDisjoint
<1> QED BY <1>1, Simulation, PTL DEF EngineInv

\* Once the threads are joined the P&L is what one thread alone computes, for
\* any number of threads, blocks and paths.
THEOREM ThreadCountIrrelevant == Spec => []SameForAnyThreads
<1> USE SimAssumption, DrawAssumption
<1>1. EngineInv => SameForAnyThreads
  <2> SUFFICES ASSUME SimInv, Joined PROVE pnl = Alone
    BY DEF EngineInv, SameForAnyThreads
  <2>1. pnl \in [AllPaths -> Int] /\ next_block \in Nat /\ next_block >= Blocks
    BY DEF SimInv, SimTypeOK, Joined, Threads
  <2>2. \A t \in Threads : stage[t] # "block"
    BY DEF Joined
  <2>3. ASSUME NEW p \in AllPaths PROVE pnl[p] = Draw(p \div Block, p % Block)
    <3> DEFINE b == p \div Block
    <3>1. Blocks \in Int /\ b \in 0..Blocks - 1 /\ p \in Of(b) /\ p % Block = p - b * Block
      BY BlockOfPath
    <3> HIDE DEF b
    <3>2. b < next_block
      BY <2>1, <3>1
    <3>3. \A t \in Threads : ~Holds(t, b)
      BY <2>2 DEF Holds
    <3>4. pnl[p] = Draw(b, p - b * Block)
      BY <3>1, <3>2, <3>3 DEF SimInv
    <3> QED BY <3>1, <3>4 DEF b
  <2> QED BY <2>1, <2>3 DEF Alone
<1> QED BY <1>1, Simulation, PTL
-----------------------------------------------------------------------------
(* The tails of a request                                                  *)

TailsInv ==
  /\ returns \in Seq(Int) /\ days \in Windows
  /\ phase \notin {"load", "raised"} =>
       hist = RefTail(LastDays(returns, days), RefTailCount(days))
  /\ phase \in {"backtest", "done"} => mc = RefTail(pnl, RefTailCount(Paths))

\* The last days are as many as asked for.
LEMMA Estimated ==
  ASSUME returns \in Seq(Int), days \in Windows, Len(returns) >= days + Margin
  PROVE  LastDays(returns, days) \in [1..days -> Int]
<1>1. days \in Nat \ {0} /\ Margin \in Nat /\ Len(returns) \in Nat /\ \A i \in 1..Len(returns) : returns[i] \in Int
  BY EngineAssumption, LenProperties
<1>2. /\ Len(returns) - days + 1 \in 1..Len(returns)
      /\ Len(returns) - (Len(returns) - days + 1) + 1 = days
  BY <1>1
<1>3. LastDays(returns, days) \in Seq(Int) /\ Len(LastDays(returns, days)) = days
  <2> DEFINE m == Len(returns) - days + 1
  <2>1. m \in Int /\ m <= Len(returns) /\ Len(returns) \in Int /\ \A i \in m..Len(returns) : returns[i] \in Int
    BY <1>1, <1>2
  <2>2. Len(returns) - m + 1 = days
    BY <1>2
  <2> HIDE DEF m
  <2>3. /\ SubSeq(returns, m, Len(returns)) \in Seq(Int)
        /\ Len(SubSeq(returns, m, Len(returns))) = IF m <= Len(returns) THEN Len(returns) - m + 1 ELSE 0
    BY <2>1, SubSeqProperties
  <2> QED BY <2>1, <2>2, <2>3 DEF LastDays, m
<1> QED BY <1>3, LenProperties

\* VaR and ES, historical and simulated, are those of the reference, for every
\* history, confidence and number of paths, whatever order the threads ran in.
THEOREM TailsExact == Spec => []TailsAgree
<1> USE EngineAssumption
<1>1. Init => TailsInv
  BY DEF Init, TailsInv
<1>2. TailsInv /\ EngineInv /\ [Next]_vars => TailsInv'
  <2> SUFFICES ASSUME TailsInv, EngineInv, [Next]_vars PROVE TailsInv'
    OBVIOUS
  <2>1. CASE UNCHANGED engineVars /\ (phase = "simulate" \/ UNCHANGED pnl)
    BY <2>1 DEF engineVars, TailsInv, LastDays
  <2>2. CASE SimulationStep
    BY <2>1, <2>2 DEF SimulationStep
  <2>3. CASE UNCHANGED vars
    BY <2>1, <2>3 DEF vars, simVars
  <2>4. CASE Raise \/ Forecast \/ Report
    <3>1. UNCHANGED <<days, returns, hist, mc, pnl>>
      BY <2>4 DEF Raise, Forecast, Report, simVars
    <3>2. phase' = "raised" \/ (phase = "backtest" /\ phase' \in {"backtest", "done"})
      BY <2>4 DEF Raise, Forecast, Report
    <3> QED BY <3>1, <3>2 DEF TailsInv, LastDays
  <2>5. CASE Historical
    <3>0. days \in Nat \ {0}
      BY DEF TailsInv
    <3>1. PICK err \in Slips :
            hist' \in TailStats(LastDays(returns, days), 1, days, TailCount(days, err))
      BY <2>5 DEF Historical
    <3>2. TailCount(days, err) = RefTailCount(days) /\ RefTailCount(days) \in 1..days
      BY <3>0, RoundingHarmless, TailRank
    <3>3. LastDays(returns, days) \in [1..1 + days - 1 -> Int] /\ 1 \in Int
      <4>1. 1 + days - 1 = days /\ Len(returns) >= days + Margin
        BY <2>5 DEF Historical, TailsInv
      <4> QED BY <4>1, Estimated DEF TailsInv
    <3>4. hist' = RefTail(LastDays(returns, days), RefTailCount(days))
      BY <3>0, <3>1, <3>2, <3>3, TailStatsAgree
    <3>5. phase' = "simulate" /\ UNCHANGED <<days, returns>>
      BY <2>5 DEF Historical
    <3> QED BY <3>4, <3>5 DEF TailsInv, LastDays
  <2>6. CASE Backtest
    <3>1. PICK err \in Slips : mc' \in TailStats(pnl, 0, Paths, TailCount(Paths, err))
      BY <2>6 DEF Backtest, Simulated
    <3>2. TailCount(Paths, err) = RefTailCount(Paths) /\ RefTailCount(Paths) \in 1..Paths
      BY SimAssumption, RoundingHarmless, TailRank
    <3>3. pnl \in [0..0 + Paths - 1 -> Int] /\ 0 \in Int
      <4>1. 0 + Paths - 1 = Paths - 1
        BY SimAssumption
      <4> QED BY <4>1 DEF EngineInv, SimInv, SimTypeOK, AllPaths
    <3>4. mc' = RefTail(pnl, RefTailCount(Paths))
      BY <3>1, <3>2, <3>3, TailStatsAgree, SimAssumption
    <3>5. phase = "simulate" /\ phase' = "backtest" /\ UNCHANGED <<days, returns, hist, pnl>>
      BY <2>6 DEF Backtest, Simulated, simVars
    <3> QED BY <3>4, <3>5 DEF TailsInv, LastDays
  <2>7. CASE BacktestRaises
    BY <2>7 DEF BacktestRaises, TailsInv
  <2> QED BY <2>2, <2>3, <2>4, <2>5, <2>6, <2>7 DEF Next
<1>3. TailsInv => TailsAgree
  BY DEF TailsInv, TailsAgree
<1> QED BY <1>1, <1>2, <1>3, Simulation, PTL DEF Spec

-----------------------------------------------------------------------------
(* The backtest                                                            *)

\* The days before d, and the days before the next.
LEMMA BeforeSlides ==
  ASSUME returns \in Seq(Int), NEW d \in Lookback + 1..Len(returns)
  PROVE  /\ Before(d) \in Seq(Int) /\ Len(Before(d)) = Lookback
         /\ d < Len(returns) =>
              /\ DayLater(Before(d), Before(d + 1))
              /\ Before(d)[1] = Left(d + 1) /\ Before(d + 1)[Lookback] = returns[d]
<1>1. Lookback \in Nat /\ 2 <= Lookback /\ Len(returns) \in Nat /\ \A i \in 1..Len(returns) : returns[i] \in Int
  BY EngineAssumption, LenProperties
<1>2. ASSUME NEW e \in Lookback + 1..Len(returns)
      PROVE  /\ Before(e) \in Seq(Int) /\ Len(Before(e)) = Lookback
             /\ \A i \in 1..Lookback : Before(e)[i] = returns[e - Lookback + i - 1]
  <2>1. e - Lookback \in Int /\ e - 1 \in Int /\ e - 1 - (e - Lookback) + 1 = Lookback /\ e - Lookback <= e - 1
    BY <1>1
  <2>2. \A i \in e - Lookback..e - 1 : returns[i] \in Int
    BY <1>1
  <2>3. /\ Before(e) \in Seq(Int)
        /\ Len(Before(e)) = IF e - Lookback <= e - 1 THEN e - 1 - (e - Lookback) + 1 ELSE 0
        /\ \A i \in 1..e - 1 - (e - Lookback) + 1 : Before(e)[i] = returns[e - Lookback + i - 1]
    BY <2>1, <2>2, SubSeqProperties, SMTT(30) DEF Before
  <2> QED BY <2>1, <2>3
<1>3. ASSUME d < Len(returns)
      PROVE  /\ DayLater(Before(d), Before(d + 1))
             /\ Before(d)[1] = Left(d + 1) /\ Before(d + 1)[Lookback] = returns[d]
  <2>1. d + 1 \in Lookback + 1..Len(returns)
    BY <1>1, <1>3
  <2>0. /\ Before(d + 1) \in Seq(Int) /\ Len(Before(d + 1)) = Lookback
        /\ Before(d) \in Seq(Int) /\ Len(Before(d)) = Lookback
        /\ \A i \in 1..Lookback : Before(d + 1)[i] = returns[(d + 1) - Lookback + i - 1]
        /\ \A i \in 1..Lookback : Before(d)[i] = returns[d - Lookback + i - 1]
    BY <1>2, <2>1
  <2>2. ASSUME NEW i \in 1..Lookback - 1 PROVE Before(d + 1)[i] = Before(d)[i + 1]
    <3>1. i \in 1..Lookback /\ i + 1 \in 1..Lookback
      BY <1>1
    <3>2. (d + 1) - Lookback + i - 1 = d - Lookback + (i + 1) - 1
      BY <1>1
    <3> QED BY <2>0, <3>1, <3>2
  <2>3. 1 \in 1..Lookback /\ Lookback \in 1..Lookback
    BY <1>1
  <2>4. d - Lookback + 1 - 1 = (d + 1) - Lookback - 1 /\ (d + 1) - Lookback + Lookback - 1 = d
    BY <1>1
  <2>5. Before(d)[1] = Left(d + 1) /\ Before(d + 1)[Lookback] = returns[d]
    BY <2>0, <2>3, <2>4 DEF Left
  <2> QED BY <1>1, <2>0, <2>2, <2>5 DEF DayLater
<1> QED BY <1>2, <1>3

\* The days forecast so far whose loss is beyond the k-th smallest of the days
\* before them.
ExceptionalUpTo(last) ==
  {d \in Lookback + 1..last : returns[d] < RefKth(Before(d), RefTailCount(Lookback))}

BacktestInv ==
  /\ returns \in Seq(Int)
  /\ phase = "backtest" =>
       /\ Len(returns) >= Lookback + 1 /\ day \in Lookback + 1..Len(returns) + 1
       /\ k = RefTailCount(Lookback)
       /\ day <= Len(returns) => window = Sorted(Before(day))
       /\ exceptions = Cardinality(ExceptionalUpTo(day - 1))
  /\ phase \in {"load", "simulate"} => exceptions = 0
  /\ phase = "done" =>
       Len(returns) > Lookback /\ exceptions = Cardinality(ExceptionalUpTo(Len(returns)))

\* One more day is counted, or not.
LEMMA ExceptionCounted ==
  ASSUME NEW last \in Nat, Lookback <= last
  PROVE  /\ IsFiniteSet(ExceptionalUpTo(last)) /\ Cardinality(ExceptionalUpTo(last)) \in Nat
         /\ Cardinality(ExceptionalUpTo(last + 1)) =
              Cardinality(ExceptionalUpTo(last)) +
                IF returns[last + 1] < RefKth(Before(last + 1), RefTailCount(Lookback)) THEN 1 ELSE 0
<1>1. Lookback \in Nat
  BY EngineAssumption
<1>2. IsFiniteSet(Lookback + 1..last)
  BY <1>1, FS_Interval
<1>3. IsFiniteSet(ExceptionalUpTo(last)) /\ Cardinality(ExceptionalUpTo(last)) \in Nat
  BY <1>2, FS_Subset, FS_CardinalityType DEF ExceptionalUpTo
<1>4. last + 1 \notin ExceptionalUpTo(last)
  BY DEF ExceptionalUpTo
<1>5. Lookback + 1..last + 1 = (Lookback + 1..last) \union {last + 1}
  BY <1>1
<1> DEFINE P(d) == returns[d] < RefKth(Before(d), RefTailCount(Lookback))
<1>6. ExceptionalUpTo(last + 1) = ExceptionalUpTo(last) \union (IF P(last + 1) THEN {last + 1} ELSE {})
  <2>1. ExceptionalUpTo(last + 1) = {d \in (Lookback + 1..last) \union {last + 1} : P(d)}
    BY <1>5 DEF ExceptionalUpTo
  <2>2. ExceptionalUpTo(last) = {d \in Lookback + 1..last : P(d)}
    BY DEF ExceptionalUpTo
  <2> HIDE DEF P
  <2> QED BY <2>1, <2>2
<1>7. CASE P(last + 1)
  BY <1>3, <1>4, <1>6, <1>7, FS_AddElement
<1>8. CASE ~P(last + 1)
  <2>1. ExceptionalUpTo(last + 1) = ExceptionalUpTo(last)
    BY <1>6, <1>8
  <2> QED BY <1>3, <1>8, <2>1
<1> QED BY <1>3, <1>7, <1>8

\* The window of the backtest is the sorted copy of the days before the one it
\* forecasts, and the exceptions are those of fresh selections, at every step.
THEOREM Backtested == Spec => []BacktestInv
<1> USE EngineAssumption
<1>1. Init => BacktestInv
  BY DEF Init, BacktestInv
<1>2. BacktestInv /\ [Next]_vars => BacktestInv'
  <2> SUFFICES ASSUME BacktestInv, [Next]_vars PROVE BacktestInv'
    OBVIOUS
  <2>0. returns' = returns /\ \A last : ExceptionalUpTo(last)' = ExceptionalUpTo(last)
    <3>1. returns' = returns
      BY DEF Next, Historical, Raise, SimulationStep, Backtest, BacktestRaises, Forecast, Report, vars, engineVars
    <3> QED BY <3>1 DEF ExceptionalUpTo, Before
  <2>1. CASE UNCHANGED engineVars
    BY <2>0, <2>1 DEF engineVars, BacktestInv, Before
  <2>2. CASE Historical \/ Raise \/ BacktestRaises
    BY <2>0, <2>2 DEF Historical, Raise, BacktestRaises, BacktestInv
  <2>3. CASE Report
    <3>1. Len(returns) \in Nat /\ Lookback \in Nat
      BY LenProperties DEF BacktestInv
    <3>2. day - 1 = Len(returns)
      BY <2>3, <3>1 DEF Report, BacktestInv
    <3> QED BY <2>0, <2>3, <3>2 DEF Report, BacktestInv
  <2>4. CASE Backtest
    <3>1. Lookback \in Nat \ {0} /\ Len(returns) \in Nat /\ Lookback + 1 <= Len(returns)
      BY <2>4, LenProperties DEF Backtest, Observed, BacktestInv
    <3>2. k' = RefTailCount(Lookback)
      BY <2>4, <3>1, RoundingHarmless DEF Backtest
    <3>3. window' = Sorted(Before(Lookback + 1))
      <4>1. Lookback + 1 - Lookback = 1 /\ Lookback + 1 - 1 = Lookback
        BY <3>1
      <4> QED BY <2>4, <4>1 DEF Backtest, Before
    <3>4. ExceptionalUpTo(Lookback) = {} /\ exceptions' = 0
      BY <2>4, <3>1 DEF Backtest, Simulated, BacktestInv, ExceptionalUpTo
    <3>5. day' = Lookback + 1 /\ phase' = "backtest" /\ day' - 1 = Lookback
      BY <2>4, <3>1 DEF Backtest
    <3>6. Before(day)' = Before(Lookback + 1)
      BY <2>0, <3>5 DEF Before
    <3>7. ExceptionalUpTo(day - 1)' = ExceptionalUpTo(Lookback)
      BY <2>0, <3>5 DEF ExceptionalUpTo, Before
    <3>8. phase = "simulate" /\ returns' = returns
      BY <2>0, <2>4 DEF Backtest, Simulated
    <3>9. exceptions' = Cardinality(ExceptionalUpTo(day - 1)')
      BY <3>4, <3>7, FS_EmptySet
    <3>10. Lookback + 1 \in Lookback + 1..Len(returns) + 1 /\ returns \in Seq(Int)
      BY <3>1 DEF BacktestInv
    <3> QED BY <3>1, <3>2, <3>3, <3>5, <3>6, <3>8, <3>9, <3>10 DEF BacktestInv
  <2>5. CASE Forecast
    <3>1. /\ day \in Lookback + 1..Len(returns) /\ returns \in Seq(Int) /\ Lookback \in Nat \ {0} /\ day - 1 \in Nat
          /\ Len(returns) \in Nat /\ window = Sorted(Before(day)) /\ k = RefTailCount(Lookback)
          /\ exceptions = Cardinality(ExceptionalUpTo(day - 1)) /\ Lookback <= day - 1 /\ day - 1 + 1 = day
      <4>1. /\ phase = "backtest" /\ day <= Len(returns) /\ returns \in Seq(Int)
            /\ day \in Lookback + 1..Len(returns) + 1 /\ window = Sorted(Before(day))
            /\ k = RefTailCount(Lookback) /\ exceptions = Cardinality(ExceptionalUpTo(day - 1))
        BY <2>5, Zenon DEF Forecast, BacktestInv
      <4>2. Len(returns) \in Nat /\ Lookback \in Nat /\ 2 <= Lookback
        BY <4>1, LenProperties DEF EngineAssumption
      <4> QED BY <4>1, <4>2
    <3>2. k \in 1..Lookback
      BY <3>1, TailRank
    <3>3. window[k] = RefKth(Before(day), RefTailCount(Lookback))
      <4>1. Len(Before(day)) = Lookback
        BY <3>1, BeforeSlides
      <4> QED BY <3>1, <3>2, <4>1 DEF Sorted
    <3>4. exceptions' = Cardinality(ExceptionalUpTo(day))
      <4>1. Cardinality(ExceptionalUpTo(day)) = Cardinality(ExceptionalUpTo(day - 1)) +
              IF returns[day] < RefKth(Before(day), RefTailCount(Lookback)) THEN 1 ELSE 0
        BY <3>1, ExceptionCounted
      <4> QED BY <2>5, <3>1, <3>3, <4>1 DEF Forecast, IsException
    <3>5. day < Len(returns) => window' = Sorted(Before(day + 1))
      <4>1. ASSUME day < Len(returns)
            PROVE  Slide(Sorted(Before(day)), Left(day + 1), returns[day]) = Sorted(Before(day + 1))
        <5>1. Len(Before(day)) = Lookback /\ DayLater(Before(day), Before(day + 1))
              /\ Before(day)[1] = Left(day + 1) /\ Before(day + 1)[Lookback] = returns[day]
          BY <3>1, <4>1, BeforeSlides
        <5>2. Slide(Sorted(Before(day)), Before(day)[1], Before(day + 1)[Lookback]) = Sorted(Before(day + 1))
          BY <5>1, SlideSorts
        <5> QED BY <5>1, <5>2
      <4> QED BY <2>5, <3>1, <4>1 DEF Forecast
    <3>6. day' = day + 1 /\ day' - 1 = day /\ phase' = "backtest" /\ k' = k /\ phase = "backtest"
      BY <2>5, <3>1 DEF Forecast
    <3>7. Before(day)' = Before(day + 1)
      BY <2>0, <3>6 DEF Before
    <3>8. ExceptionalUpTo(day - 1)' = ExceptionalUpTo(day)
      BY <2>0, <3>6 DEF ExceptionalUpTo, Before
    <3>9. returns' = returns /\ Len(returns) >= Lookback + 1
      BY <2>0, <3>6 DEF BacktestInv
    <3>10. day + 1 \in Lookback + 1..Len(returns) + 1 /\ (day + 1 <= Len(returns) => day < Len(returns))
      BY <3>1
    <3> QED BY <3>1, <3>4, <3>5, <3>6, <3>7, <3>8, <3>9, <3>10 DEF BacktestInv
  <2>6. CASE SimulationStep
    BY <2>1, <2>6 DEF SimulationStep
  <2> QED BY <2>1, <2>2, <2>3, <2>4, <2>5, <2>6 DEF Next, vars
<1> QED BY <1>1, <1>2, PTL DEF Spec

\* The window the backtest keeps (SortedWindow of riskcore.cpp) is sorted and
\* holds the days before the one it forecasts, for every history, every window
\* a request asks for and every length of the backtest's own.
THEOREM WindowSorted == Spec => []WindowIsSorted
<1>1. BacktestInv => WindowIsSorted
  BY DEF BacktestInv, WindowIsSorted
<1> QED BY <1>1, Backtested, PTL

\* Whatever window a request asks for, what is reported was observed on one day
\* or more, and the exceptions counted with that window are those a selection from
\* scratch for each day counts, as backtest_historical_var of
\* src/risk/reference.py does it.
THEOREM ExceptionsCounted == Spec => []ExceptionsAgree
<1>1. BacktestInv => ExceptionsAgree
  BY DEF BacktestInv, ExceptionsAgree, ExceptionalUpTo
<1> QED BY <1>1, Backtested, PTL

-----------------------------------------------------------------------------
(* The pre-trade check                                                     *)

\* The check leaves the engine alone: what holds of portfolio_risk holds
\* of it within run_pretrade_check.
THEOREM RunsTheEngine == TradeSpec => Spec
<1>1. TradeInit => Init
  BY DEF TradeInit
<1>2. [TradeNext]_tradeVars => [Next]_vars
  BY DEF TradeNext, Decide, tradeVars
<1> QED BY <1>1, <1>2, PTL DEF TradeSpec, Spec

\* Numbers that differ by whole units are told apart whatever a sum is off.
LEMMA Rounding ==
  ASSUME NEW n \in Int, NEW m \in Int, NEW err \in Slips
  PROVE  /\ n * Grain + err <= m * Grain + Guard <=> n <= m
         /\ n * Grain <= m * Grain <=> n <= m
         /\ n > m => ~(n * Grain + err <= m * Grain)
         /\ n < m => n * Grain + err <= m * Grain
<1>1. /\ Grain \in Nat \ {0} /\ Guard \in Nat /\ Slip \in Nat /\ err \in Int
      /\ -Slip <= err /\ err <= Slip /\ Slip < Guard /\ Guard + Slip < Grain
  BY TailAssumption DEF Slips
<1>2. /\ n * Grain \in Int /\ m * Grain \in Int
      /\ n > m => n * Grain >= m * Grain + Grain
      /\ n <= m => n * Grain <= m * Grain
      /\ n < m => n * Grain + Grain <= m * Grain
  BY <1>1, Z3
<1> QED BY <1>1, <1>2

\* Of a sector only a sum of several names at just its limit is in doubt.
LEMMA Sectors ==
  ASSUME NEW b \in Books, NEW s \in SectorsOf(b), NEW err \in Slips
  PROVE  /\ SectorPasses(Added(b, InSector(b, s), err)) => Exposure(b, InSector(b, s)) <= MaxSector
         /\ Exposure(b, InSector(b, s)) <= MaxSector =>
              \/ SectorPasses(Added(b, InSector(b, s), err))
              \/ Cardinality(InSector(b, s)) # 1 /\ Exposure(b, InSector(b, s)) = MaxSector
<1> DEFINE n == Exposure(b, InSector(b, s))
<1>1. n \in Int /\ MaxSector \in Int
  BY ExposureAssumption, PreTradeAssumption DEF InSector
<1>2. Grain \in Int /\ err \in Int
  BY TailAssumption DEF Slips
<1> HIDE DEF n
<1>3. n * Grain <= MaxSector * Grain <=> n <= MaxSector
  BY <1>1, Rounding
<1>4. /\ n > MaxSector => ~(n * Grain + err <= MaxSector * Grain)
      /\ n < MaxSector => n * Grain + err <= MaxSector * Grain
  BY <1>1, Rounding
<1>5. n * Grain \in Int
  BY <1>1, <1>2
<1>6. CASE Cardinality(InSector(b, s)) = 1
  <2>1. Added(b, InSector(b, s), err) = n * Grain
    BY <1>5, <1>6 DEF Added, n
  <2> QED BY <2>1, <1>3, <1>6 DEF SectorPasses, n
<1>7. CASE Cardinality(InSector(b, s)) # 1
  <2>1. Added(b, InSector(b, s), err) = n * Grain + err
    BY <1>7 DEF Added, n
  <2> QED BY <2>1, <1>1, <1>4, <1>7 DEF SectorPasses, n
<1> QED BY <1>6, <1>7

\* The gross exposure is compared with a guard: no sum at its limit is in doubt.
LEMMA Gross ==
  ASSUME NEW b \in Books, NEW err \in Slips
  PROVE  GrossPasses(Added(b, DOMAIN b, err)) <=> Exposure(b, DOMAIN b) <= MaxGross
<1> DEFINE n == Exposure(b, DOMAIN b)
           off == IF Cardinality(DOMAIN b) = 1 THEN 0 ELSE err
<1>1. n \in Int /\ MaxGross \in Int
  BY ExposureAssumption, PreTradeAssumption
<1>2. off \in Slips
  BY TailAssumption DEF Slips
<1>3. Added(b, DOMAIN b, err) = n * Grain + off
  BY DEF Added
<1> HIDE DEF n, off
<1>4. n * Grain + off <= MaxGross * Grain + Guard <=> n <= MaxGross
  BY <1>1, <1>2, Rounding
<1> QED BY <1>3, <1>4 DEF GrossPasses, n

\* What the check decides is exact, for all limits and books, but at the limit
\* of a sector.
THEOREM DecisionExact == TradeSpec => []DecisionIsExact
<1> DEFINE Decided == DecisionIsExact /\ (decision # "none" => phase = "done")
<1>1. TradeInit => Decided
  BY DEF TradeInit, DecisionIsExact
<1>2. Decided /\ [TradeNext]_tradeVars => Decided'
  <2> SUFFICES ASSUME Decided, [TradeNext]_tradeVars PROVE Decided'
    OBVIOUS
  <2>1. CASE UNCHANGED tradeVars
    BY <2>1 DEF tradeVars, vars, engineVars, DecisionIsExact, WithinLimits, VarPasses
  <2>2. CASE Next /\ UNCHANGED <<book, decision>>
    <3>1. CASE decision = "none"
      BY <2>2, <3>1 DEF DecisionIsExact
    <3>2. CASE phase = "done"
      BY <2>2, <3>2 DEF Next, Historical, Raise, SimulationStep, Backtest, BacktestRaises, Simulated, Forecast, Report
    <3> QED BY <3>1, <3>2
  <2>3. CASE Decide
    <3>1. phase' = "done" /\ hist' = hist
      BY <2>3 DEF Decide, vars, engineVars
    <3>a. PICK b \in Books : \E err \in Slips, errs \in [SectorsOf(b) -> Slips] :
            /\ book' = b
            /\ decision' = Verdict(b, [s \in SectorsOf(b) |-> Added(b, InSector(b, s), errs[s])],
                                   Added(b, DOMAIN b, err))
      BY <2>3 DEF Decide
    <3>2. PICK err \in Slips, errs \in [SectorsOf(b) -> Slips] :
            /\ book' = b
            /\ decision' = Verdict(b, [s \in SectorsOf(b) |-> Added(b, InSector(b, s), errs[s])],
                                   Added(b, DOMAIN b, err))
      BY <3>a
    <3> DEFINE sums == [s \in SectorsOf(b) |-> Added(b, InSector(b, s), errs[s])]
    <3>3. \A s \in SectorsOf(b) :
            /\ SectorPasses(sums[s]) => Exposure(b, InSector(b, s)) <= MaxSector
            /\ Exposure(b, InSector(b, s)) <= MaxSector =>
                 \/ SectorPasses(sums[s])
                 \/ Cardinality(InSector(b, s)) # 1 /\ Exposure(b, InSector(b, s)) = MaxSector
      BY Sectors
    <3>4. DOMAIN sums = SectorsOf(b)
      OBVIOUS
    <3>5. GrossPasses(Added(b, DOMAIN b, err)) <=> Exposure(b, DOMAIN b) <= MaxGross
      BY Gross
    <3>6. decision' = Verdict(b, sums, Added(b, DOMAIN b, err))
      BY <3>2
    <3> HIDE DEF sums
    <3>7. decision' \in {"APPROVE", "REJECT"}
      BY <3>6 DEF Verdict
    <3>8. decision' = "APPROVE" => WithinLimits(b)
      BY <3>3, <3>4, <3>5, <3>6 DEF Verdict, WithinLimits
    <3>9. \/ WithinLimits(b) => decision' = "APPROVE"
          \/ \E s \in SectorsOf(b) :
               Cardinality(InSector(b, s)) # 1 /\ Exposure(b, InSector(b, s)) = MaxSector
      BY <3>3, <3>4, <3>5, <3>6 DEF Verdict, WithinLimits
    <3>10. WithinLimits(b)' <=> WithinLimits(b)
      BY <3>1 DEF WithinLimits, VarPasses
    <3> QED BY <3>1, <3>2, <3>7, <3>8, <3>9, <3>10 DEF DecisionIsExact, WithinLimits, VarPasses
  <2> QED BY <2>1, <2>2, <2>3 DEF TradeNext
<1> QED BY <1>1, <1>2, PTL DEF TradeSpec
=============================================================================
