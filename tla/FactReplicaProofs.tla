------------------------- MODULE FactReplicaProofs --------------------------
(***************************************************************************)
(* Theorems about FactReplica, for every number of replicas, messages,     *)
(* restarts and glitches: the types, that a replica is a prefix of the     *)
(* stream, that a data version stands for one set of facts, and that only  *)
(* a replica farther behind than the cap's length misses a message.        *)
(***************************************************************************)
EXTENDS FactReplica, FiniteSetTheorems, TLAPS

-----------------------------------------------------------------------------
(* Prefixes of the stream                                                  *)

\* Appending to the stream adds one message at its end and keeps the others.
LEMMA AppendMessage ==
  ASSUME NEW S, NEW s \in Seq(S), NEW e \in S
  PROVE  /\ Append(s, e) \in Seq(S)
         /\ Len(Append(s, e)) = Len(s) + 1
         /\ \A i \in 1..Len(s) : Append(s, e)[i] = s[i]
  OBVIOUS

\* The good messages of a prefix can be counted.
LEMMA GoodFinite ==
  ASSUME NEW n \in Nat
  PROVE  IsFiniteSet(GoodUpTo(n)) /\ Cardinality(GoodUpTo(n)) \in Nat
<1>1. IsFiniteSet(1..n)
  BY FS_Interval
<1>2. GoodUpTo(n) \subseteq 1..n
  BY DEF GoodUpTo
<1>3. IsFiniteSet(GoodUpTo(n))
  BY <1>1, <1>2, FS_Subset
<1> QED  BY <1>3, FS_CardinalityType

\* Two prefixes with as many good messages hold the same facts: the shorter
\* one's good messages are among the longer one's.
LEMMA SameCountSamePrefix ==
  ASSUME NEW i \in Nat, NEW j \in Nat, BootVersion \in Nat, VersionAt(i) = VersionAt(j)
  PROVE  Prefix(i) = Prefix(j)
<1>1. Cardinality(GoodUpTo(i)) = Cardinality(GoodUpTo(j))
  BY GoodFinite DEF VersionAt
<1>2. CASE i <= j
  <2>1. GoodUpTo(i) \in SUBSET GoodUpTo(j)
    BY <1>2 DEF GoodUpTo
  <2>2. GoodUpTo(i) = GoodUpTo(j)
    BY <1>1, <2>1, GoodFinite, FS_Subset
  <2> QED  BY <2>2 DEF Prefix
<1>3. CASE j <= i
  <2>1. GoodUpTo(j) \in SUBSET GoodUpTo(i)
    BY <1>3 DEF GoodUpTo
  <2>2. GoodUpTo(i) = GoodUpTo(j)
    BY <1>1, <2>1, GoodFinite, FS_Subset
  <2> QED  BY <2>2 DEF Prefix
<1> QED  BY <1>2, <1>3

\* Moving on to a good message with only bad ones between adds that message.
LEMMA PrefixGood ==
  ASSUME NEW n \in Nat, NEW m \in Nat, m > n, IsGood(m), \A k \in n + 1 .. m - 1 : ~IsGood(k)
  PROVE  Prefix(m) = Prefix(n) \union {log[m]} /\ VersionAt(m) = VersionAt(n) + 1
<1>1. GoodUpTo(m) = GoodUpTo(n) \union {m}
  <2>1. ASSUME NEW k \in GoodUpTo(m) PROVE k \in GoodUpTo(n) \union {m}
    <3>1. k \in 1..m /\ IsGood(k)
      BY <2>1 DEF GoodUpTo
    <3>2. k \notin n + 1 .. m - 1
      BY <3>1
    <3>3. k \in 1..n \/ k = m
      BY <3>1, <3>2
    <3> QED  BY <3>1, <3>3 DEF GoodUpTo
  <2>2. GoodUpTo(n) \union {m} \subseteq GoodUpTo(m)
    BY DEF GoodUpTo
  <2> QED  BY <2>1, <2>2
<1>2. m \notin GoodUpTo(n)
  BY DEF GoodUpTo
<1>3. Cardinality(GoodUpTo(m)) = Cardinality(GoodUpTo(n)) + 1
  BY <1>1, <1>2, GoodFinite, FS_AddElement
<1>4. Prefix(m) = Prefix(n) \union {log[m]}
  BY <1>1 DEF Prefix
<1> QED  BY <1>3, <1>4, GoodFinite, ReplicaAssumption DEF VersionAt

\* Moving on past bad messages adds nothing.
LEMMA PrefixBad ==
  ASSUME NEW n \in Nat, NEW m \in Nat, m > n, ~IsGood(m), \A k \in n + 1 .. m - 1 : ~IsGood(k)
  PROVE  Prefix(m) = Prefix(n) /\ VersionAt(m) = VersionAt(n)
<1>1. ASSUME NEW k \in GoodUpTo(m) PROVE k \in GoodUpTo(n)
  <2>1. k \in 1..m /\ IsGood(k) /\ k # m
    BY <1>1 DEF GoodUpTo
  <2>2. k \notin n + 1 .. m - 1
    BY <2>1
  <2>3. k \in 1..n
    BY <2>1, <2>2
  <2> QED  BY <2>1, <2>3 DEF GoodUpTo
<1>2. GoodUpTo(n) \subseteq GoodUpTo(m)
  BY DEF GoodUpTo
<1>3. GoodUpTo(m) = GoodUpTo(n)
  BY <1>1, <1>2
<1> QED  BY <1>3 DEF Prefix, VersionAt

-----------------------------------------------------------------------------
(* Types                                                                   *)

LEMMA ReplicaInitTypeOK == ReplicaInit => ReplicaTypeOK
<1> SUFFICES ASSUME ReplicaInit PROVE ReplicaTypeOK
  OBVIOUS
<1>1. log = <<>> /\ log \in Seq(Filings) /\ Len(log) = 0 /\ cut = 0
  BY DEF ReplicaInit
<1>2. /\ store \in [Replicas -> SUBSET (Fixtures \union Filings)]
      /\ version \in [Replicas -> Nat]
      /\ lastId \in [Replicas -> 0..0]
      /\ batch \in [Replicas -> SUBSET (1..0)]
  BY ReplicaAssumption DEF ReplicaInit
<1>3. restarts \in 0..MaxRestarts /\ glitches \in 0..MaxGlitches
  BY ReplicaAssumption DEF ReplicaInit
<1>4. missed \in BOOLEAN
  BY DEF ReplicaInit
<1> QED  BY <1>1, <1>2, <1>3, <1>4 DEF ReplicaTypeOK

\* A message moved past is a message of the stream.
LEMMA AdvanceTypes ==
  ASSUME ReplicaTypeOK, NEW r \in Replicas, NEW m \in Messages, Advance(r, m)
  PROVE  /\ lastId' \in [Replicas -> 0..Len(log)]
         /\ batch' \in [Replicas -> SUBSET (1..Len(log))]
BY DEF Advance, ReplicaTypeOK, Messages

LEMMA ReplicaNextTypeOK == ReplicaTypeOK /\ [ReplicaNext]_replicaVars => ReplicaTypeOK'
<1> SUFFICES ASSUME ReplicaTypeOK, [ReplicaNext]_replicaVars PROVE ReplicaTypeOK'
  OBVIOUS
<1> USE ReplicaAssumption
<1>1. ASSUME NEW f \in Filings, Broadcast(f) PROVE ReplicaTypeOK'
  <2>1. log' \in Seq(Filings) /\ Len(log') = Len(log) + 1
    BY <1>1, AppendMessage DEF Broadcast, ReplicaTypeOK
  <2>2. cut' \in 0..Len(log')
    BY <1>1, <2>1 DEF Broadcast, ReplicaTypeOK
  <2>3. 1..Len(log) \subseteq 1..Len(log') /\ 0..Len(log) \subseteq 0..Len(log')
    BY <2>1 DEF ReplicaTypeOK
  <2> QED  BY <1>1, <2>1, <2>2, <2>3 DEF Broadcast, ReplicaTypeOK
<1>2. ASSUME NEW r \in Replicas, Read(r) PROVE ReplicaTypeOK'
  BY <1>2 DEF Read, NewFor, Messages, ReplicaTypeOK
<1>3. ASSUME NEW r \in Replicas, NEW m \in Messages, Apply(r, m) PROVE ReplicaTypeOK'
  <2>1. /\ store' \in [Replicas -> SUBSET (Fixtures \union Filings)]
        /\ version' \in [Replicas -> Nat]
    BY <1>3 DEF Apply, BumpedBy, Messages, ReplicaTypeOK
  <2>2. UNCHANGED <<log, cut, restarts, glitches>> /\ Advance(r, m) /\ missed' \in BOOLEAN
    BY <1>3 DEF Apply, PassedOver, ReplicaTypeOK
  <2> QED  BY <2>1, <2>2, AdvanceTypes DEF ReplicaTypeOK
<1>4. ASSUME NEW r \in Replicas, NEW m \in Messages, ApplyEmpty(r, m) PROVE ReplicaTypeOK'
  <2>1. /\ UNCHANGED <<log, cut, store, version, restarts, glitches>>
        /\ Advance(r, m) /\ missed' \in BOOLEAN
    BY <1>4 DEF ApplyEmpty, PassedOver, ReplicaTypeOK
  <2> QED  BY <2>1, AdvanceTypes DEF ReplicaTypeOK
<1>5. ASSUME NEW r \in Replicas, NEW m \in Messages, SkipMalformed(r, m) PROVE ReplicaTypeOK'
  <2>1. /\ UNCHANGED <<log, cut, store, version, restarts, glitches>>
        /\ Advance(r, m) /\ missed' \in BOOLEAN
    BY <1>5 DEF SkipMalformed, OnError, PassedOver, ReplicaTypeOK
  <2> QED  BY <2>1, AdvanceTypes DEF ReplicaTypeOK
<1>6. ASSUME NEW r \in Replicas, NEW m \in Messages, Glitch(r, m) PROVE ReplicaTypeOK'
  <2>1. UNCHANGED <<log, cut, store, version, restarts>> /\ Advance(r, m)
    BY <1>6 DEF Glitch, OnError
  <2>2. glitches' \in 0..MaxGlitches /\ missed' \in BOOLEAN
    BY <1>6 DEF Glitch, ReplicaTypeOK
  <2> QED  BY <2>1, <2>2, AdvanceTypes DEF ReplicaTypeOK
<1>7. ASSUME NEW r \in Replicas, Restart(r) PROVE ReplicaTypeOK'
  BY <1>7 DEF Restart, StartId, ReplicaTypeOK
<1>8. CASE UNCHANGED replicaVars
  BY <1>8 DEF replicaVars, ReplicaTypeOK
<1> QED  BY <1>1, <1>2, <1>3, <1>4, <1>5, <1>6, <1>7, <1>8 DEF ReplicaNext, Poll

\* Streams, stores, versions and read positions keep their types in every
\* behaviour.
THEOREM ReplicaTypeCorrect == ReplicaSpec => []ReplicaTypeOK
BY ReplicaInitTypeOK, ReplicaNextTypeOK, PTL DEF ReplicaSpec

-----------------------------------------------------------------------------
(* Replicas are prefixes of the stream                                     *)

\* Moving on past m keeps the rest of the batch ahead of last_id.
LEMMA AdvanceBatch ==
  ASSUME ReplicaTypeOK, BatchAhead, NEW r \in Replicas, NEW m \in Messages,
         First(r, m), Advance(r, m), cut' = cut
  PROVE  BatchAhead'
<1> SUFFICES ASSUME NEW s \in Replicas, NEW b \in batch'[s]
             PROVE  /\ b > lastId'[s]
                    /\ \A k \in lastId'[s] + 1 .. b - 1 : k \in batch'[s] \/ k <= cut
  BY DEF BatchAhead
<1>1. CASE s # r
  <2>1. lastId'[s] = lastId[s] /\ batch'[s] = batch[s]
    BY <1>1 DEF Advance, ReplicaTypeOK
  <2> QED  BY <2>1 DEF BatchAhead
<1>2. CASE s = r
  <2>1. lastId'[r] = m /\ batch'[r] = batch[r] \ {m}
    BY DEF Advance, ReplicaTypeOK
  <2>2. m \in batch[r] /\ b \in batch[r] /\ m <= b /\ b # m /\ m \in Nat /\ b \in Nat
    BY <1>2, <2>1 DEF First, ReplicaTypeOK
  <2>3. m > lastId[r] /\ lastId[r] \in Nat
    BY <2>2 DEF BatchAhead, ReplicaTypeOK
  <2>4. ASSUME NEW k \in m + 1 .. b - 1 PROVE k \in batch[r] \ {m} \/ k <= cut
    <3>1. k \in lastId[r] + 1 .. b - 1 /\ k # m
      BY <2>2, <2>3
    <3> QED  BY <2>2, <3>1 DEF BatchAhead
  <2> QED  BY <1>2, <2>1, <2>2, <2>4
<1> QED  BY <1>1, <1>2

\* What the cap left of the messages between last_id and the next one is nothing.
LEMMA NothingBetween ==
  ASSUME ReplicaTypeOK, BatchAhead, NEW r \in Replicas, NEW m \in Messages, First(r, m)
  PROVE  m > lastId[r] /\ \A k \in lastId[r] + 1 .. m - 1 : k <= cut
<1>1. m \in batch[r] /\ m \in Nat
  BY DEF First, Messages
<1>2. m > lastId[r]
  BY <1>1 DEF BatchAhead
<1>3. ASSUME NEW k \in lastId[r] + 1 .. m - 1 PROVE k <= cut
  <2>1. k \in batch[r] \/ k <= cut
    BY <1>1 DEF BatchAhead
  <2>2. k < m /\ k \in Int
    BY <1>1 DEF ReplicaTypeOK
  <2>3. k \notin batch[r]
    BY <1>1, <2>2 DEF First
  <2> QED  BY <2>1, <2>3
<1> QED  BY <1>2, <1>3

\* A replica that moves past m, having applied it when it is good, stays a
\* prefix of the stream unless it missed a message.
LEMMA AdvancePrefix ==
  ASSUME ReplicaTypeOK, IsPrefix, BatchAhead,
         NEW r \in Replicas, NEW m \in Messages, First(r, m), Advance(r, m),
         log' = log, ~missed' => ~missed /\ ~PassedOver(r, m),
         \/ IsGood(m) /\ store' = [store EXCEPT ![r] = @ \union {log[m]}]
                      /\ version' = [version EXCEPT ![r] = @ + 1]
         \/ ~IsGood(m) /\ UNCHANGED <<store, version>>
  PROVE  IsPrefix'
<1> SUFFICES ASSUME ~missed', NEW s \in Replicas
             PROVE  store'[s] = Prefix(lastId[s])' /\ version'[s] = VersionAt(lastId[s])'
  BY DEF IsPrefix
<1>1. store[s] = Prefix(lastId[s]) /\ version[s] = VersionAt(lastId[s])
  BY DEF IsPrefix
<1>2. lastId' = [lastId EXCEPT ![r] = m] /\ lastId'[s] \in 0..Len(log)
  BY AdvanceTypes DEF Advance
<1>3. Prefix(lastId[s])' = Prefix(lastId'[s]) /\ VersionAt(lastId[s])' = VersionAt(lastId'[s])
  BY DEF Prefix, VersionAt, GoodUpTo, IsGood
<1>4. CASE s # r
  <2>1. lastId'[s] = lastId[s] /\ store'[s] = store[s] /\ version'[s] = version[s]
    BY <1>2, <1>4 DEF ReplicaTypeOK
  <2> QED  BY <1>1, <1>3, <2>1
<1>5. CASE s = r
  <2>1. m > lastId[r] /\ m \in Nat /\ lastId[r] \in Nat
    BY NothingBetween DEF Messages, ReplicaTypeOK
  <2>2. \A k \in lastId[r] + 1 .. m - 1 : ~IsGood(k)
    BY DEF PassedOver
  <2>3. lastId'[r] = m
    BY <1>2 DEF ReplicaTypeOK
  <2>4. CASE IsGood(m)
    <3>1. store'[r] = store[r] \union {log[m]} /\ version'[r] = version[r] + 1
      BY <2>4 DEF ReplicaTypeOK
    <3>2. Prefix(m) = Prefix(lastId[r]) \union {log[m]} /\ VersionAt(m) = VersionAt(lastId[r]) + 1
      BY <2>1, <2>2, <2>4, PrefixGood
    <3> QED  BY <1>1, <1>3, <1>5, <2>3, <3>1, <3>2
  <2>5. CASE ~IsGood(m)
    <3>1. Prefix(m) = Prefix(lastId[r]) /\ VersionAt(m) = VersionAt(lastId[r])
      BY <2>1, <2>2, <2>5, PrefixBad
    <3> QED  BY <1>1, <1>3, <1>5, <2>3, <2>5, <3>1
  <2> QED  BY <2>4, <2>5
<1> QED  BY <1>4, <1>5

\* ... and passes no message that is still on the stream.
LEMMA AdvancePasses ==
  ASSUME ReplicaTypeOK, AppliesAllItPasses, BatchAhead,
         NEW r \in Replicas, NEW m \in Messages, First(r, m), Advance(r, m),
         log' = log, cut' = cut, glitches' = glitches,
         \/ IsGood(m) /\ store' = [store EXCEPT ![r] = @ \union {log[m]}]
         \/ ~IsGood(m) /\ UNCHANGED store
  PROVE  AppliesAllItPasses'
<1> SUFFICES ASSUME glitches = 0, NEW s \in Replicas, NEW k \in 1..lastId'[s], k > cut, IsGood(k)
             PROVE  log[k] \in store'[s]
  BY DEF AppliesAllItPasses, IsGood
<1>1. store[s] \subseteq store'[s]
  BY DEF ReplicaTypeOK
<1>2. CASE k \in 1..lastId[s]
  BY <1>1, <1>2 DEF AppliesAllItPasses
<1>3. CASE k \notin 1..lastId[s]
  <2>1. s = r
    BY <1>3 DEF Advance, ReplicaTypeOK
  <2>2. lastId'[r] = m /\ m \in Nat /\ lastId[r] \in Nat /\ cut \in Nat
    BY DEF Advance, ReplicaTypeOK, Messages
  <2>3. k \in lastId[r] + 1 .. m
    BY <1>3, <2>1, <2>2
  <2>4. k \notin lastId[r] + 1 .. m - 1
    BY <2>2, NothingBetween
  <2>5. k = m
    BY <2>2, <2>3, <2>4
  <2> QED  BY <2>1, <2>5 DEF ReplicaTypeOK
<1> QED  BY <1>2, <1>3

LEMMA ReplicaInitInv == ReplicaInit => ReplicaInv
<1> SUFFICES ASSUME ReplicaInit PROVE ReplicaInv
  OBVIOUS
<1>1. GoodUpTo(0) = {}
  BY DEF GoodUpTo
<1>2. Prefix(0) = Fixtures /\ VersionAt(0) = BootVersion
  BY <1>1, FS_EmptySet, ReplicaAssumption DEF Prefix, VersionAt
<1>3. IsPrefix
  BY <1>2 DEF ReplicaInit, IsPrefix
<1>4. AppliesAllItPasses /\ BatchAhead /\ CapKeeps
  BY DEF ReplicaInit, AppliesAllItPasses, BatchAhead, CapKeeps
<1> QED  BY <1>3, <1>4 DEF ReplicaInv

LEMMA ReplicaNextInv ==
  ReplicaTypeOK /\ ReplicaInv /\ [ReplicaNext]_replicaVars => ReplicaInv'
<1> SUFFICES ASSUME ReplicaTypeOK, ReplicaInv, [ReplicaNext]_replicaVars PROVE ReplicaInv'
  OBVIOUS
<1>0. IsPrefix /\ AppliesAllItPasses /\ BatchAhead /\ CapKeeps
  BY DEF ReplicaInv
<1>1. ASSUME NEW f \in Filings, Broadcast(f) PROVE ReplicaInv'
  <2>1. UNCHANGED <<store, version, lastId, batch, restarts, glitches, missed>>
    BY <1>1 DEF Broadcast
  <2>2. \A i \in 1..Len(log) : log'[i] = log[i]
    BY <1>1, AppendMessage DEF Broadcast, ReplicaTypeOK
  <2>3. cut <= cut' /\ cut \in Nat /\ cut' \in Nat
    BY <1>1 DEF Broadcast, ReplicaTypeOK
  <2>4. IsPrefix'
    <3> SUFFICES ASSUME ~missed, NEW r \in Replicas
                 PROVE  store[r] = Prefix(lastId[r])' /\ version[r] = VersionAt(lastId[r])'
      BY <2>1 DEF IsPrefix
    <3>1. lastId[r] \in 0..Len(log) /\ lastId'[r] = lastId[r]
      BY <2>1 DEF ReplicaTypeOK
    <3>2. GoodUpTo(lastId[r])' = GoodUpTo(lastId[r])
      BY <2>2, <3>1 DEF GoodUpTo, IsGood
    <3>3. Prefix(lastId[r])' = Prefix(lastId[r]) /\ VersionAt(lastId[r])' = VersionAt(lastId[r])
      <4>1. \A m \in GoodUpTo(lastId[r]) : log'[m] = log[m]
        BY <2>2, <3>1 DEF GoodUpTo
      <4>2. {log[m] : m \in GoodUpTo(lastId[r])}' = {log[m] : m \in GoodUpTo(lastId[r])}
        BY <3>2, <4>1
      <4> QED  BY <3>2, <4>2 DEF Prefix, VersionAt
    <3> QED  BY <1>0, <3>3 DEF IsPrefix
  <2>5. AppliesAllItPasses'
    <3> SUFFICES ASSUME glitches = 0, NEW r \in Replicas, NEW m \in 1..lastId[r], m > cut', IsGood(m)'
                 PROVE  log'[m] \in store[r]
      BY <2>1 DEF AppliesAllItPasses
    <3>1. m \in 1..Len(log) /\ log'[m] = log[m]
      BY <2>2 DEF ReplicaTypeOK
    <3>2. IsGood(m) /\ m > cut
      BY <2>3, <3>1 DEF IsGood
    <3> QED  BY <1>0, <3>1, <3>2 DEF AppliesAllItPasses
  <2>6. BatchAhead'
    <3> SUFFICES ASSUME NEW r \in Replicas, NEW m \in batch[r]
                 PROVE  /\ m > lastId[r]
                        /\ \A k \in lastId[r] + 1 .. m - 1 : k \in batch[r] \/ k <= cut'
      BY <2>1 DEF BatchAhead
    <3>1. \A k \in lastId[r] + 1 .. m - 1 : k \in batch[r] \/ k <= cut
      BY <1>0 DEF BatchAhead
    <3>2. m \in Nat /\ lastId[r] \in Nat
      BY DEF ReplicaTypeOK
    <3>3. \A k \in lastId[r] + 1 .. m - 1 : k \in batch[r] \/ k <= cut'
      BY <2>3, <3>1, <3>2
    <3> QED  BY <1>0, <3>3 DEF BatchAhead
  <2>7. CapKeeps'
    <3>1. Len(log') = Len(log) + 1 /\ Len(log) \in Nat
      BY <1>1, AppendMessage DEF Broadcast, ReplicaTypeOK
    <3>2. cut' = cut \/ Len(log) + 1 - cut' >= FactsMaxLen
      BY <1>1 DEF Broadcast
    <3> QED  BY <1>0, <2>3, <3>1, <3>2, ReplicaAssumption DEF CapKeeps
  <2> QED  BY <2>4, <2>5, <2>6, <2>7 DEF ReplicaInv
<1>2. ASSUME NEW r \in Replicas, Read(r) PROVE ReplicaInv'
  <2>1. UNCHANGED <<log, cut, store, version, lastId, restarts, glitches, missed>>
    BY <1>2 DEF Read
  <2>2. IsPrefix' /\ AppliesAllItPasses'
    BY <1>0, <2>1 DEF IsPrefix, AppliesAllItPasses, Prefix, VersionAt, GoodUpTo, IsGood
  <2>3. BatchAhead'
    <3> SUFFICES ASSUME NEW s \in Replicas, NEW m \in batch'[s]
                 PROVE  /\ m > lastId[s]
                        /\ \A k \in lastId[s] + 1 .. m - 1 : k \in batch'[s] \/ k <= cut
      BY <2>1 DEF BatchAhead
    <3>1. CASE s # r
      BY <1>0, <1>2, <3>1 DEF BatchAhead, Read, ReplicaTypeOK
    <3>2. CASE s = r
      <4> DEFINE Before(i) == {k \in NewFor(r) : k < i}
      <4>1. batch'[r] = {i \in NewFor(r) : Cardinality(Before(i)) < ReadCount}
        BY <1>2 DEF Read, ReplicaTypeOK
      <4>2. m \in NewFor(r) /\ Cardinality(Before(m)) < ReadCount /\ m \in 1..Len(log)
        BY <3>2, <4>1 DEF NewFor, Messages
      <4>3. IsFiniteSet(NewFor(r))
        <5>1. IsFiniteSet(1..Len(log))
          BY FS_Interval DEF ReplicaTypeOK
        <5>2. NewFor(r) \in SUBSET (1..Len(log))
          BY DEF NewFor, Messages
        <5> QED  BY <5>1, <5>2, FS_Subset
      <4>4. ASSUME NEW k \in lastId[r] + 1 .. m - 1, k > cut PROVE k \in batch'[r]
        <5>1. k \in NewFor(r) /\ k < m
          BY <4>2, <4>4 DEF NewFor, Messages, ReplicaTypeOK
        <5>2. Before(k) \in SUBSET Before(m)
          BY <4>2, <5>1 DEF NewFor, Messages
        <5>3. IsFiniteSet(Before(m))
          BY <4>3, FS_Subset
        <5>4. /\ Cardinality(Before(k)) \in Nat /\ Cardinality(Before(m)) \in Nat
              /\ Cardinality(Before(k)) <= Cardinality(Before(m))
          BY <5>2, <5>3, FS_Subset, FS_CardinalityType
        <5> HIDE DEF Before
        <5>5. Cardinality(Before(k)) < ReadCount
          BY <4>2, <5>4, ReplicaAssumption
        <5> QED  BY <4>1, <5>1, <5>5
      <4> HIDE DEF Before
      <4>5. cut \in Nat /\ lastId[r] \in Nat
        BY DEF ReplicaTypeOK
      <4>6. \A k \in lastId[r] + 1 .. m - 1 : k \in batch'[r] \/ k <= cut
        BY <4>2, <4>4, <4>5
      <4> QED  BY <3>2, <4>2, <4>6 DEF NewFor
    <3> QED  BY <3>1, <3>2
  <2>4. CapKeeps'
    BY <1>0, <2>1 DEF CapKeeps
  <2> QED  BY <2>2, <2>3, <2>4 DEF ReplicaInv
<1>3. ASSUME NEW r \in Replicas, NEW m \in Messages, Apply(r, m) PROVE ReplicaInv'
  <2>1. /\ First(r, m) /\ IsGood(m) /\ Advance(r, m)
        /\ store' = [store EXCEPT ![r] = @ \union {log[m]}]
        /\ version' = [version EXCEPT ![r] = @ + 1]
        /\ UNCHANGED <<log, cut, glitches>>
        /\ (~missed' => ~missed /\ ~PassedOver(r, m))
    BY <1>3 DEF Apply, BumpedBy
  <2>2. CapKeeps'
    BY <1>0, <2>1 DEF CapKeeps
  <2> QED  BY <1>0, <2>1, <2>2, AdvancePrefix, AdvancePasses, AdvanceBatch DEF ReplicaInv
<1>4. ASSUME NEW r \in Replicas, NEW m \in Messages, ApplyEmpty(r, m) \/ SkipMalformed(r, m)
      PROVE  ReplicaInv'
  <2>1. /\ First(r, m) /\ ~IsGood(m) /\ Advance(r, m)
        /\ UNCHANGED <<log, cut, store, version, glitches>>
        /\ (~missed' => ~missed /\ ~PassedOver(r, m))
    BY <1>4 DEF ApplyEmpty, SkipMalformed, OnError, IsGood
  <2>2. CapKeeps'
    BY <1>0, <2>1 DEF CapKeeps
  <2> QED  BY <1>0, <2>1, <2>2, AdvancePrefix, AdvancePasses, AdvanceBatch DEF ReplicaInv
<1>5. ASSUME NEW r \in Replicas, NEW m \in Messages, Glitch(r, m) PROVE ReplicaInv'
  <2>1. /\ First(r, m) /\ Advance(r, m) /\ UNCHANGED <<log, cut>> /\ missed'
        /\ glitches' = glitches + 1 /\ glitches \in Nat
    BY <1>5 DEF Glitch, OnError, ReplicaTypeOK
  <2>2. IsPrefix'
    BY <2>1 DEF IsPrefix
  <2>3. AppliesAllItPasses'
    BY <2>1 DEF AppliesAllItPasses
  <2>4. CapKeeps'
    BY <1>0, <2>1 DEF CapKeeps
  <2> QED  BY <1>0, <2>1, <2>2, <2>3, <2>4, AdvanceBatch DEF ReplicaInv
<1>6. ASSUME NEW r \in Replicas, Restart(r) PROVE ReplicaInv'
  <2>1. /\ UNCHANGED <<log, cut, glitches, missed>>
        /\ store' = [store EXCEPT ![r] = Fixtures]
        /\ version' = [version EXCEPT ![r] = BootVersion]
        /\ lastId' = [lastId EXCEPT ![r] = 0]
        /\ batch' = [batch EXCEPT ![r] = {}]
    BY <1>6 DEF Restart, StartId
  <2>2. Prefix(0) = Fixtures /\ VersionAt(0) = BootVersion
    <3>1. GoodUpTo(0) = {}
      BY DEF GoodUpTo
    <3> QED  BY <3>1, FS_EmptySet, ReplicaAssumption DEF Prefix, VersionAt
  <2>3. IsPrefix'
    <3> SUFFICES ASSUME ~missed, NEW s \in Replicas
                 PROVE  store'[s] = Prefix(lastId[s])' /\ version'[s] = VersionAt(lastId[s])'
      BY <2>1 DEF IsPrefix
    <3>1. Prefix(lastId[s])' = Prefix(lastId'[s]) /\ VersionAt(lastId[s])' = VersionAt(lastId'[s])
      BY <2>1 DEF Prefix, VersionAt, GoodUpTo, IsGood
    <3>2. CASE s = r
      BY <2>1, <2>2, <3>1, <3>2 DEF ReplicaTypeOK
    <3>3. CASE s # r
      <4>1. store'[s] = store[s] /\ version'[s] = version[s] /\ lastId'[s] = lastId[s]
        BY <2>1, <3>3 DEF ReplicaTypeOK
      <4> QED  BY <1>0, <3>1, <4>1 DEF IsPrefix
    <3> QED  BY <3>2, <3>3
  <2>4. AppliesAllItPasses'
    BY <1>0, <2>1 DEF AppliesAllItPasses, IsGood, ReplicaTypeOK
  <2>5. BatchAhead'
    BY <1>0, <2>1 DEF BatchAhead, ReplicaTypeOK
  <2>6. CapKeeps'
    BY <1>0, <2>1 DEF CapKeeps
  <2> QED  BY <2>3, <2>4, <2>5, <2>6 DEF ReplicaInv
<1>7. CASE UNCHANGED replicaVars
  BY <1>0, <1>7 DEF replicaVars, ReplicaInv, IsPrefix, AppliesAllItPasses, BatchAhead, CapKeeps, Prefix, VersionAt,
                    GoodUpTo, IsGood
<1> QED  BY <1>1, <1>2, <1>3, <1>4, <1>5, <1>6, <1>7 DEF ReplicaNext, Poll

\* Until a message is missed, a replica is the fixtures and a prefix of the
\* stream, counted by its data_version; and it passes no message still on the
\* stream without applying it, glitches aside (subscriber.py: poll, apply).
THEOREM ReplicaInvariant == ReplicaSpec => []ReplicaInv
<1>1. ReplicaInit => ReplicaTypeOK /\ ReplicaInv
  BY ReplicaInitTypeOK, ReplicaInitInv
<1>2. ReplicaTypeOK /\ ReplicaInv /\ [ReplicaNext]_replicaVars => (ReplicaTypeOK /\ ReplicaInv)'
  BY ReplicaNextTypeOK, ReplicaNextInv
<1> QED  BY <1>1, <1>2, PTL DEF ReplicaSpec

LEMMA PrefixGivesSameData == ReplicaTypeOK /\ ReplicaInv => SameVersionSameData
<1> SUFFICES ASSUME ReplicaTypeOK, ReplicaInv, ~missed, NEW r \in Replicas, NEW s \in Replicas,
                    version[r] = version[s]
             PROVE  store[r] = store[s]
  BY DEF SameVersionSameData
<1>1. VersionAt(lastId[r]) = VersionAt(lastId[s])
  BY DEF ReplicaInv, IsPrefix
<1>2. lastId[r] \in Nat /\ lastId[s] \in Nat
  BY DEF ReplicaTypeOK
<1>3. Prefix(lastId[r]) = Prefix(lastId[s])
  BY <1>1, <1>2, SameCountSamePrefix, ReplicaAssumption
<1> QED  BY <1>3 DEF ReplicaInv, IsPrefix

\* Until a message is missed, one data_version stands for one set of facts at
\* every replica, restarts and duplicates included (cache.py keys answers by it).
THEOREM OneVersionOneStore == ReplicaSpec => []SameVersionSameData
BY ReplicaTypeCorrect, ReplicaInvariant, PrefixGivesSameData, PTL

\* A message between last_id and the next one is passed only by a replica more
\* than FactsMaxLen messages behind: the cap left that many after it.
LEMMA PassedOverFarBehind ==
  ASSUME ReplicaTypeOK, ReplicaInv, NEW r \in Replicas, NEW m \in Messages, First(r, m),
         NEW k \in lastId[r] + 1 .. m - 1
  PROVE  k <= cut /\ Lag(r) > FactsMaxLen
<1>1. BatchAhead /\ CapKeeps
  BY DEF ReplicaInv
<1>2. k <= cut
  BY <1>1, NothingBetween
<1>3. Len(log) \in Nat /\ lastId[r] \in Nat /\ cut \in Nat /\ m \in Nat
  BY DEF ReplicaTypeOK, Messages
<1>4. k > lastId[r] /\ k \in Int
  BY <1>3
<1>5. Len(log) - cut >= FactsMaxLen
  BY <1>1, <1>2, <1>3, <1>4 DEF CapKeeps
<1> QED  BY <1>2, <1>3, <1>4, <1>5, ReplicaAssumption DEF Lag

\* Moving past m, applied when it is good, is a step of AppliesUnlessFarBehind.
LEMMA AdvanceUnlessFarBehind ==
  ASSUME ReplicaTypeOK, ReplicaInv, NEW r \in Replicas, NEW m \in Messages, First(r, m), Advance(r, m),
         IsGood(m) => log[m] \in store'[r] \/ glitches' > glitches,
         NEW s \in Replicas, NEW k \in lastId[s] + 1 .. lastId'[s],
         IsGood(k), log[k] \notin store'[s]
  PROVE  glitches' > glitches \/ (k <= cut /\ Lag(s) > FactsMaxLen)
<1>1. s = r
  <2> SUFFICES ASSUME s # r PROVE FALSE
    OBVIOUS
  <2>1. lastId'[s] = lastId[s] /\ lastId[s] \in Nat
    BY DEF Advance, ReplicaTypeOK
  <2> QED  BY <2>1
<1>2. lastId'[r] = m /\ m \in Nat /\ lastId[r] \in Nat
  BY DEF Advance, ReplicaTypeOK, Messages
<1>3. CASE k = m
  BY <1>1, <1>3
<1>4. CASE k # m
  <2>1. k \in lastId[r] + 1 .. m - 1
    BY <1>1, <1>2, <1>4
  <2> QED  BY <1>1, <2>1, PassedOverFarBehind
<1> QED  BY <1>3, <1>4

\* A replica that keeps up with the stream applies every good message, glitches
\* aside: what the cap dropped is missed only by one more than FactsMaxLen
\* messages behind (subscriber.py: "every replica must apply every update").
THEOREM KeepingUpMissesNothing == ReplicaSpec => AppliesUnlessFarBehind
<1> DEFINE Step ==
      \A r \in Replicas : \A m \in lastId[r] + 1 .. lastId'[r] :
        IsGood(m) /\ log[m] \notin store'[r] =>
          glitches' > glitches \/ (m <= cut /\ Lag(r) > FactsMaxLen)
<1>1. ReplicaTypeOK /\ ReplicaInv /\ [ReplicaNext]_replicaVars => [Step]_replicaVars
  <2> SUFFICES ASSUME ReplicaTypeOK, ReplicaInv, ReplicaNext, NEW s \in Replicas,
                      NEW k \in lastId[s] + 1 .. lastId'[s], IsGood(k), log[k] \notin store'[s]
               PROVE  glitches' > glitches \/ (k <= cut /\ Lag(s) > FactsMaxLen)
    OBVIOUS
  <2>0. lastId[s] \in Nat /\ lastId'[s] # lastId[s] /\ lastId'[s] # 0
    <3>1. lastId[s] \in Nat
      BY DEF ReplicaTypeOK
    <3> QED  BY <3>1
  <2>1. ASSUME NEW r \in Replicas, NEW m \in Messages,
               Apply(r, m) \/ ApplyEmpty(r, m) \/ SkipMalformed(r, m) \/ Glitch(r, m)
        PROVE  glitches' > glitches \/ (k <= cut /\ Lag(s) > FactsMaxLen)
    <3>1. First(r, m) /\ Advance(r, m)
      BY <2>1 DEF Apply, ApplyEmpty, SkipMalformed, Glitch, OnError
    <3>2. IsGood(m) => log[m] \in store'[r] \/ glitches' > glitches
      BY <2>1 DEF Apply, ApplyEmpty, SkipMalformed, Glitch, IsGood, ReplicaTypeOK
    <3> QED  BY <3>1, <3>2, AdvanceUnlessFarBehind
  <2>2. ASSUME NEW r \in Replicas, Restart(r) PROVE FALSE
    BY <2>0, <2>2 DEF Restart, StartId, ReplicaTypeOK
  <2>3. ASSUME \/ \E f \in Filings : Broadcast(f)
               \/ \E r \in Replicas : Read(r)
        PROVE  FALSE
    BY <2>0, <2>3 DEF Broadcast, Read
  <2> QED  BY <2>1, <2>2, <2>3 DEF ReplicaNext, Poll
<1> QED  BY <1>1, ReplicaTypeCorrect, ReplicaInvariant, PTL DEF AppliesUnlessFarBehind, ReplicaSpec
=============================================================================
