--------------------------- MODULE AskCacheProofs ---------------------------
(***************************************************************************)
(* Theorems about AskCache, for every number of replicas, requests and     *)
(* messages: the types, and that no answer cached before a filing landed   *)
(* is served after it until a replica misses a message.                    *)
(***************************************************************************)
EXTENDS AskCache, FactReplicaProofs

-----------------------------------------------------------------------------
(* The stream and the stores move as in FactReplica                        *)

\* Every step of /ask and its cache leaves the stream and the stores alone, or
\* is a step of them.
LEMMA StepOfReplicas == [Next]_vars => [ReplicaNext]_replicaVars
<1> SUFFICES ASSUME [Next]_vars PROVE [ReplicaNext]_replicaVars
  OBVIOUS
<1>1. CASE Update
  BY <1>1 DEF Update, ReplicaNext
<1>2. ASSUME NEW q \in Requests, Serve(q) PROVE UNCHANGED replicaVars
  BY <1>2 DEF Serve, Hit, Miss, FirstQuery, SecondQuery, GraphFails, Put, Respond
<1>3. ASSUME NEW q \in Requests, NEW r \in Replicas, Ask(q, r) PROVE UNCHANGED replicaVars
  BY <1>3 DEF Ask
<1>4. ASSUME NEW v \in DOMAIN cache, Expire(v) PROVE UNCHANGED replicaVars
  BY <1>4 DEF Expire
<1>5. CASE UNCHANGED vars
  BY <1>5 DEF vars
<1> QED  BY <1>1, <1>2, <1>3, <1>4, <1>5 DEF Next

THEOREM RefinesReplicas == Spec => ReplicaSpec
<1>1. Init => ReplicaInit
  BY DEF Init
<1> QED  BY <1>1, StepOfReplicas, PTL DEF Spec, ReplicaSpec

-----------------------------------------------------------------------------
(* Types                                                                   *)

AskTypeOK ==
  /\ DOMAIN cache \subseteq Nat
  /\ cache \in [DOMAIN cache -> Answer]
  /\ step \in [Requests -> Steps]
  /\ at \in [Requests -> Replicas \union {NoReplica}]
  /\ \A q \in Requests : step[q] # "idle" => at[q] \in Replicas
  /\ key \in [Requests -> Nat]
  /\ floor \in [Requests -> Facts]
  /\ answer \in [Requests -> Answer]

LEMMA TypeParts == TypeOK <=> ReplicaTypeOK /\ AskTypeOK
BY DEF TypeOK, AskTypeOK

LEMMA AskInitTypeOK == Init => AskTypeOK
<1> SUFFICES ASSUME Init PROVE AskTypeOK
  OBVIOUS
<1>1. Nothing \in Answer /\ {} \in Facts
  BY DEF Nothing, Answer, Facts
<1> QED  BY <1>1, ReplicaAssumption DEF Init, AskTypeOK, Steps

\* A request that is over is back where it started.
LEMMA ForgetTypes ==
  ASSUME AskTypeOK, NEW Q \in SUBSET Requests, Forget(Q)
  PROVE  /\ step' \in [Requests -> Steps]
         /\ at' \in [Requests -> Replicas \union {NoReplica}]
         /\ \A q \in Requests : step'[q] # "idle" => at'[q] \in Replicas
         /\ key' \in [Requests -> Nat]
         /\ floor' \in [Requests -> Facts]
         /\ answer' \in [Requests -> Answer]
<1>1. Nothing \in Answer /\ {} \in Facts
  BY DEF Nothing, Answer, Facts
<1> QED  BY <1>1, ReplicaAssumption DEF Forget, StepAfter, AskTypeOK, Steps

LEMMA AskNextTypeOK == ReplicaTypeOK /\ AskTypeOK /\ [Next]_vars => AskTypeOK'
<1> SUFFICES ASSUME ReplicaTypeOK, AskTypeOK, [Next]_vars PROVE AskTypeOK'
  OBVIOUS
<1>1. CASE Update
  <2>1. CASE UNCHANGED askVars
    BY <2>1 DEF askVars, AskTypeOK
  <2>2. ASSUME NEW r \in Replicas, Restart(r), Forget({q \in Requests : at[q] = r}), UNCHANGED cache
        PROVE  AskTypeOK'
    <3>1. {q \in Requests : at[q] = r} \in SUBSET Requests
      OBVIOUS
    <3>2. /\ DOMAIN cache' \subseteq Nat
          /\ cache' \in [DOMAIN cache' -> Answer]
      BY <2>2 DEF AskTypeOK
    <3> QED  BY <2>2, <3>1, <3>2, ForgetTypes DEF AskTypeOK
  <2> QED  BY <1>1, <2>1, <2>2 DEF Update
<1>2. ASSUME NEW q \in Requests, NEW r \in Replicas, Ask(q, r) PROVE AskTypeOK'
  <2>1. version[r] \in Nat /\ store[r] \in Facts
    BY DEF ReplicaTypeOK, Facts
  <2> QED  BY <1>2, <2>1 DEF Ask, Moves, KeyOf, AskTypeOK, Steps
<1>3. ASSUME NEW q \in Requests, Hit(q) PROVE AskTypeOK'
  BY <1>3 DEF Hit, Moves, AskTypeOK, Steps
<1>4. ASSUME NEW q \in Requests, Miss(q) PROVE AskTypeOK'
  BY <1>4 DEF Miss, Moves, AskTypeOK, Steps
<1>5. ASSUME NEW q \in Requests, FirstQuery(q) PROVE AskTypeOK'
  <2>1. store[at[q]] \in Facts
    BY <1>5 DEF FirstQuery, Moves, ReplicaTypeOK, AskTypeOK, Facts
  <2>2. answer' \in [Requests -> Answer]
    BY <1>5, <2>1 DEF FirstQuery, AskTypeOK, Answer
  <2> QED  BY <1>5, <2>2 DEF FirstQuery, Moves, AskTypeOK, Steps
<1>6. ASSUME NEW q \in Requests, SecondQuery(q) PROVE AskTypeOK'
  <2>1. store[at[q]] \in Facts
    BY <1>6 DEF SecondQuery, Moves, ReplicaTypeOK, AskTypeOK, Facts
  <2>2. answer' \in [Requests -> Answer]
    BY <1>6, <2>1 DEF SecondQuery, AskTypeOK, Answer
  <2> QED  BY <1>6, <2>2 DEF SecondQuery, Moves, AskTypeOK, Steps
<1>7. ASSUME NEW q \in Requests, GraphFails(q) \/ Respond(q) PROVE AskTypeOK'
  <2>1. Forget({q}) /\ UNCHANGED cache /\ {q} \in SUBSET Requests
    BY <1>7 DEF GraphFails, Respond
  <2>2. /\ DOMAIN cache' \subseteq Nat
        /\ cache' \in [DOMAIN cache' -> Answer]
    BY <2>1 DEF AskTypeOK
  <2> QED  BY <2>1, <2>2, ForgetTypes DEF AskTypeOK
<1>8. ASSUME NEW q \in Requests, Put(q) PROVE AskTypeOK'
  <2>1. DOMAIN cache' \subseteq Nat /\ cache' \in [DOMAIN cache' -> Answer]
    BY <1>8 DEF Put, PutKey, AskTypeOK
  <2>2. Moves(q, "put", "served") /\ UNCHANGED <<at, key, floor, answer>>
    BY <1>8 DEF Put
  <2> QED  BY <2>1, <2>2 DEF Moves, AskTypeOK, Steps
<1>9. ASSUME NEW v \in DOMAIN cache, Expire(v) PROVE AskTypeOK'
  <2>1. DOMAIN cache' = DOMAIN cache \ {v} /\ \A u \in DOMAIN cache' : cache'[u] = cache[u]
    BY <1>9 DEF Expire, Restrict
  <2>2. cache' \in [DOMAIN cache' -> Answer]
    BY <1>9 DEF Expire, Restrict, AskTypeOK
  <2> QED  BY <1>9, <2>1, <2>2 DEF Expire, AskTypeOK
<1>10. CASE UNCHANGED vars
  BY <1>10 DEF vars, askVars, AskTypeOK
<1> QED  BY <1>1, <1>2, <1>3, <1>4, <1>5, <1>6, <1>7, <1>8, <1>9, <1>10 DEF Next, Serve

\* Requests, the cache and the stores below them keep their types in every
\* behaviour.
THEOREM TypeCorrect == Spec => []TypeOK
<1>1. Init => AskTypeOK
  BY AskInitTypeOK
<1>2. ReplicaTypeOK /\ AskTypeOK /\ [Next]_vars => AskTypeOK'
  BY AskNextTypeOK
<1>3. Spec => []ReplicaTypeOK
  BY RefinesReplicas, ReplicaTypeCorrect, PTL
<1>4. Spec => []AskTypeOK
  BY <1>1, <1>2, <1>3, PTL DEF Spec
<1> QED  BY <1>3, <1>4, TypeParts, PTL

-----------------------------------------------------------------------------
(* Answers under a version are at least as new as the version              *)

\* A longer prefix holds more.
LEMMA PrefixGrows ==
  ASSUME NEW i \in Nat, NEW j \in Nat, i <= j
  PROVE  Prefix(i) \subseteq Prefix(j)
<1>1. GoodUpTo(i) \subseteq GoodUpTo(j)
  BY DEF GoodUpTo
<1> QED  BY <1>1 DEF Prefix

\* The stream only grows, and what was missed stays missed.
LEMMA StreamGrows ==
  ASSUME ReplicaTypeOK, [ReplicaNext]_replicaVars
  PROVE  /\ Len(log) <= Len(log')
         /\ \A i \in 1..Len(log) : log'[i] = log[i]
         /\ missed => missed'
<1>1. ASSUME NEW f \in Filings, Broadcast(f)
      PROVE  /\ Len(log) <= Len(log') /\ \A i \in 1..Len(log) : log'[i] = log[i]
             /\ missed' = missed
  <2>1. log' = Append(log, f) /\ missed' = missed
    BY <1>1 DEF Broadcast
  <2>2. Len(log') = Len(log) + 1 /\ Len(log) \in Nat /\ \A i \in 1..Len(log) : log'[i] = log[i]
    BY <2>1, AppendMessage DEF ReplicaTypeOK
  <2> QED  BY <2>1, <2>2
<1>2. ASSUME NEW r \in Replicas, Poll(r) \/ Restart(r) \/ \E m \in Messages : Glitch(r, m)
      PROVE  log' = log /\ (missed => missed')
  <2>1. CASE Read(r)  BY <2>1 DEF Read
  <2>2. ASSUME NEW m \in Messages, Apply(r, m) PROVE log' = log /\ (missed => missed')
    BY <2>2, Zenon DEF Apply
  <2>3. ASSUME NEW m \in Messages, ApplyEmpty(r, m) PROVE log' = log /\ (missed => missed')
    BY <2>3, Zenon DEF ApplyEmpty
  <2>4. ASSUME NEW m \in Messages, SkipMalformed(r, m) PROVE log' = log /\ (missed => missed')
    BY <2>4, Zenon DEF SkipMalformed
  <2>5. CASE Restart(r)  BY <2>5 DEF Restart
  <2>6. ASSUME NEW m \in Messages, Glitch(r, m) PROVE log' = log /\ (missed => missed')
    BY <2>6, Zenon DEF Glitch
  <2> QED  BY <1>2, <2>1, <2>2, <2>3, <2>4, <2>5, <2>6 DEF Poll
<1>3. CASE UNCHANGED replicaVars
  BY <1>3 DEF replicaVars, ReplicaTypeOK
<1>4. Len(log) \in Nat
  BY DEF ReplicaTypeOK
<1> QED  BY <1>1, <1>2, <1>3, <1>4 DEF ReplicaNext

\* So a prefix of the stream stays what it is.
LEMMA PrefixKept ==
  ASSUME ReplicaTypeOK, [ReplicaNext]_replicaVars, NEW n \in 0..Len(log)
  PROVE  Prefix(n)' = Prefix(n) /\ VersionAt(n)' = VersionAt(n) /\ n \in 0..Len(log')
<1>1. Len(log) <= Len(log') /\ \A i \in 1..Len(log) : log'[i] = log[i]
  BY StreamGrows
<1>2. \A i \in 1..n : log'[i] = log[i]
  BY <1>1 DEF ReplicaTypeOK
<1>3. GoodUpTo(n)' = GoodUpTo(n)
  BY <1>2 DEF GoodUpTo, IsGood
<1>4. {log[i] : i \in GoodUpTo(n)}' = {log[i] : i \in GoodUpTo(n)}
  BY <1>2, <1>3 DEF GoodUpTo
<1>5. n \in 0..Len(log')
  BY <1>1, ReplicaNextTypeOK DEF ReplicaTypeOK
<1> QED  BY <1>3, <1>4, <1>5 DEF Prefix, VersionAt

\* A replica that does not restart never goes back in the stream.
LEMMA LastIdGrows ==
  ASSUME ReplicaTypeOK, ReplicaInv, NEW s \in Replicas,
         \/ \E f \in Filings : Broadcast(f)
         \/ \E r \in Replicas : Poll(r) \/ \E m \in Messages : Glitch(r, m)
  PROVE  lastId[s] <= lastId'[s]
<1>0. lastId[s] \in Nat
  BY DEF ReplicaTypeOK
<1>1. ASSUME NEW r \in Replicas, NEW m \in Messages,
             Apply(r, m) \/ ApplyEmpty(r, m) \/ SkipMalformed(r, m) \/ Glitch(r, m)
      PROVE  lastId[s] <= lastId'[s]
  <2>1. First(r, m) /\ Advance(r, m)
    BY <1>1 DEF Apply, ApplyEmpty, SkipMalformed, Glitch, OnError
  <2>2. m > lastId[r] /\ m \in Nat /\ lastId[r] \in Nat
    BY <2>1, NothingBetween DEF ReplicaInv, Messages, ReplicaTypeOK
  <2>3. lastId' = [lastId EXCEPT ![r] = m]
    BY <2>1 DEF Advance
  <2>4. CASE s = r  BY <2>2, <2>3, <2>4 DEF ReplicaTypeOK
  <2>5. CASE s # r  BY <1>0, <2>3, <2>5 DEF ReplicaTypeOK
  <2> QED  BY <2>4, <2>5
<1>2. ASSUME NEW f \in Filings, Broadcast(f) PROVE lastId[s] <= lastId'[s]
  BY <1>0, <1>2 DEF Broadcast
<1>3. ASSUME NEW r \in Replicas, Read(r) PROVE lastId[s] <= lastId'[s]
  BY <1>0, <1>3 DEF Read
<1> QED  BY <1>1, <1>2, <1>3 DEF Poll

LEMMA CacheInvInit == Init => CacheInv
BY DEF Init, CacheInv, KeyIsPrefix, ReadsHold, EntryHolds

\* The facts owed to a request are those of a prefix its replica has applied.
LEMMA OwedAtPrefix ==
  ASSUME ReplicaTypeOK, AskTypeOK, ReplicaInv, CacheInv, ~missed,
         NEW q \in Requests, step[q] # "idle"
  PROVE  /\ at[q] \in Replicas
         /\ floor[q] \subseteq store[at[q]]
         /\ \E n \in 0..lastId[at[q]] : key[q] = VersionAt(n) /\ floor[q] = Prefix(n)
<1>1. at[q] \in Replicas
  BY DEF AskTypeOK
<1>2. PICK n \in 0..lastId[at[q]] : key[q] = VersionAt(n) /\ floor[q] = Prefix(n)
  BY DEF CacheInv, KeyIsPrefix
<1>3. lastId[at[q]] \in Nat
  BY <1>1 DEF ReplicaTypeOK
<1>4. Prefix(n) \subseteq Prefix(lastId[at[q]])
  BY <1>2, <1>3, PrefixGrows
<1>5. store[at[q]] = Prefix(lastId[at[q]])
  BY <1>1 DEF ReplicaInv, IsPrefix
<1> QED  BY <1>1, <1>2, <1>4, <1>5

\* Entries that were in the cache keep their prefix.
LEMMA EntryKept ==
  ASSUME ReplicaTypeOK, CacheInv, ~missed, [ReplicaNext]_replicaVars, NEW v \in DOMAIN cache
  PROVE  \E n \in 0..Len(log') : v = VersionAt(n)' /\ Holds(cache[v], Prefix(n)')
<1>1. PICK n \in 0..Len(log) : v = VersionAt(n) /\ Holds(cache[v], Prefix(n))
  BY DEF CacheInv, EntryHolds
<1>2. Prefix(n)' = Prefix(n) /\ VersionAt(n)' = VersionAt(n) /\ n \in 0..Len(log')
  BY PrefixKept
<1> QED  BY <1>1, <1>2

\* ... and so does the key of a request whose replica did not go back.
LEMMA KeyKept ==
  ASSUME ReplicaTypeOK, ReplicaTypeOK', AskTypeOK, ReplicaInv, CacheInv, ~missed, [ReplicaNext]_replicaVars,
         NEW q \in Requests, step[q] # "idle", lastId[at[q]] <= lastId'[at[q]]
  PROVE  \E n \in 0..lastId'[at[q]] : key[q] = VersionAt(n)' /\ floor[q] = Prefix(n)'
<1>1. PICK n \in 0..lastId[at[q]] : key[q] = VersionAt(n) /\ floor[q] = Prefix(n)
  BY OwedAtPrefix
<1>2. at[q] \in Replicas
  BY DEF AskTypeOK
<1>3. lastId[at[q]] <= lastId'[at[q]] /\ lastId[at[q]] \in 0..Len(log) /\ lastId'[at[q]] \in Nat
  BY <1>2 DEF ReplicaTypeOK
<1>4. n \in 0..Len(log) /\ n \in 0..lastId'[at[q]]
  BY <1>3, SMTT(30) DEF ReplicaTypeOK
<1>5. Prefix(n)' = Prefix(n) /\ VersionAt(n)' = VersionAt(n)
  BY <1>4, PrefixKept
<1> QED  BY <1>1, <1>4, <1>5

LEMMA CacheInvNext ==
  /\ ReplicaTypeOK /\ ReplicaTypeOK' /\ AskTypeOK /\ AskTypeOK'
  /\ ReplicaInv /\ CacheInv /\ [Next]_vars
  => CacheInv'
<1> SUFFICES ASSUME ReplicaTypeOK, ReplicaTypeOK', AskTypeOK, AskTypeOK', ReplicaInv, CacheInv, [Next]_vars
             PROVE  CacheInv'
  OBVIOUS
<1>a. [ReplicaNext]_replicaVars
  BY StepOfReplicas
<1>b. CASE missed'
  BY <1>b DEF CacheInv, KeyIsPrefix, ReadsHold, EntryHolds
<1>c. ASSUME ~missed' PROVE CacheInv'
  <2>0. ~missed
    BY <1>a, <1>c, StreamGrows
  <2> DEFINE Owed(q) == \E n \in 0..lastId'[at'[q]] : key'[q] = VersionAt(n)' /\ floor'[q] = Prefix(n)'
             Reads(q) == /\ step'[q] \in {"second", "put", "served"} => floor'[q] \subseteq answer'[q].first
                         /\ step'[q] \in {"put", "served"} => floor'[q] \subseteq answer'[q].second
             Entry(v) == \E n \in 0..Len(log') : v = VersionAt(n)' /\ Holds(cache'[v], Prefix(n)')
  <2> SUFFICES /\ \A q \in Requests : step'[q] # "idle" => Owed(q)
               /\ \A q \in Requests : Reads(q)
               /\ \A v \in DOMAIN cache' : Entry(v)
    BY DEF CacheInv, KeyIsPrefix, ReadsHold, EntryHolds
  <2>k. ASSUME NEW q \in Requests, at'[q] = at[q], key'[q] = key[q], floor'[q] = floor[q],
               step[q] # "idle", lastId[at[q]] <= lastId'[at[q]]
        PROVE  Owed(q)
    BY <1>a, <2>0, <2>k, KeyKept
  <2>e. ASSUME NEW v \in DOMAIN cache, cache'[v] = cache[v] PROVE Entry(v)
    BY <1>a, <2>0, <2>e, EntryKept DEF Holds
  <2>r. ASSUME NEW q \in Requests, step'[q] = step[q], floor'[q] = floor[q], answer'[q] = answer[q]
        PROVE  Reads(q)
    BY <2>0, <2>r DEF CacheInv, ReadsHold
  <2>t. \A q \in Requests : step[q] # "idle" => at[q] \in Replicas /\ lastId[at[q]] \in Nat
    BY DEF AskTypeOK, ReplicaTypeOK
  <2>f. \A n \in 0..Len(log) : UNCHANGED replicaVars => Prefix(n)' = Prefix(n) /\ VersionAt(n)' = VersionAt(n)
    BY <1>a, PrefixKept
  <2> DEFINE Goal == /\ \A q \in Requests : step'[q] # "idle" => Owed(q)
                     /\ \A q \in Requests : Reads(q)
                     /\ \A v \in DOMAIN cache' : Entry(v)
  <2> HIDE DEF Owed, Entry, Reads
  <2>1. ASSUME UNCHANGED askVars,
               \/ \E f \in Filings : Broadcast(f)
               \/ \E r \in Replicas : Poll(r) \/ \E m \in Messages : Glitch(r, m)
        PROVE  Goal
    <3>1. UNCHANGED <<cache, step, at, key, floor, answer>>
      BY <2>1 DEF askVars
    <3>2. \A q \in Requests : step'[q] # "idle" => lastId[at[q]] <= lastId'[at[q]]
      BY <2>1, <2>t, <3>1, LastIdGrows
    <3> QED  BY <2>k, <2>e, <2>r, <3>1, <3>2
  <2>2. ASSUME NEW r \in Replicas, Restart(r), Forget({q \in Requests : at[q] = r}), UNCHANGED cache
        PROVE  Goal
    <3>1. ASSUME NEW q \in Requests, at[q] = r
          PROVE  step'[q] = "idle"
      BY <2>2, <3>1 DEF Forget, StepAfter
    <3>2. ASSUME NEW q \in Requests, at[q] # r
          PROVE  /\ step'[q] = step[q] /\ at'[q] = at[q] /\ key'[q] = key[q]
                 /\ floor'[q] = floor[q] /\ answer'[q] = answer[q]
      BY <2>2, <3>2 DEF Forget, StepAfter
    <3>3. ASSUME NEW q \in Requests, step'[q] # "idle" PROVE Owed(q)
      <4>1. at[q] # r /\ step[q] # "idle" /\ at[q] \in Replicas
        BY <2>t, <3>1, <3>2, <3>3
      <4>2. lastId[at[q]] <= lastId'[at[q]]
        BY <2>2, <2>t, <4>1 DEF Restart, ReplicaTypeOK
      <4> QED  BY <2>k, <3>2, <4>1, <4>2
    <3>4. ASSUME NEW q \in Requests PROVE Reads(q)
      <4>1. CASE at[q] = r  BY <3>1, <4>1 DEF Reads
      <4>2. CASE at[q] # r  BY <2>r, <3>2, <4>2
      <4> QED  BY <4>1, <4>2
    <3> QED  BY <2>2, <2>e, <3>3, <3>4
  <2>3. ASSUME NEW q \in Requests, GraphFails(q) \/ Respond(q) PROVE Goal
    <3>1. Forget({q}) /\ UNCHANGED <<replicaVars, cache>>
      BY <2>3 DEF GraphFails, Respond
    <3>2. lastId' = lastId
      BY <3>1 DEF replicaVars
    <3>3. step'[q] = "idle"
      BY <3>1 DEF Forget, StepAfter
    <3>4. \A p \in Requests \ {q} : /\ step'[p] = step[p] /\ at'[p] = at[p] /\ key'[p] = key[p]
                                    /\ floor'[p] = floor[p] /\ answer'[p] = answer[p]
      BY <3>1 DEF Forget, StepAfter
    <3>5. Reads(q)
      BY <3>3 DEF Reads
    <3>6. \A p \in Requests : step'[p] # "idle" => Owed(p)
      BY <2>k, <2>t, <3>2, <3>3, <3>4
    <3>7. \A p \in Requests : Reads(p)
      BY <2>r, <3>4, <3>5
    <3> QED  BY <2>e, <3>1, <3>6, <3>7
  <2>4. ASSUME NEW q \in Requests, NEW r \in Replicas, Ask(q, r) PROVE Goal
    <3>1. /\ UNCHANGED <<replicaVars, cache, answer>>
          /\ step' = [step EXCEPT ![q] = "lookup"] /\ at' = [at EXCEPT ![q] = r]
          /\ key' = [key EXCEPT ![q] = version[r]] /\ floor' = [floor EXCEPT ![q] = store[r]]
      BY <2>4 DEF Ask, Moves, KeyOf
    <3>2. lastId' = lastId /\ lastId[r] \in 0..Len(log)
      BY <3>1 DEF replicaVars, ReplicaTypeOK
    <3>3. step'[q] = "lookup" /\ at'[q] = r /\ key'[q] = version[r] /\ floor'[q] = store[r]
      BY <3>1 DEF AskTypeOK
    <3>4. \A p \in Requests \ {q} : /\ step'[p] = step[p] /\ at'[p] = at[p] /\ key'[p] = key[p]
                                    /\ floor'[p] = floor[p] /\ answer'[p] = answer[p]
      BY <3>1 DEF AskTypeOK
    <3>6. Owed(q)
      <4>1. lastId[r] \in 0..lastId'[at'[q]]
        BY <3>2, <3>3
      <4>3. Prefix(lastId[r]) = store[r] /\ VersionAt(lastId[r]) = version[r]
        BY <2>0 DEF ReplicaInv, IsPrefix
      <4>4. PICK k \in 0..Len(log) : k = lastId[r]
        BY <3>2
      <4>5. Prefix(k)' = store[r] /\ VersionAt(k)' = version[r]
        BY <2>f, <3>1, <4>3, <4>4
      <4> QED  BY <3>3, <4>1, <4>4, <4>5 DEF Owed
    <3>7. Reads(q)
      BY <3>3 DEF Reads
    <3>8. \A p \in Requests : step'[p] # "idle" => Owed(p)
      BY <2>k, <2>t, <3>2, <3>4, <3>6
    <3>9. \A p \in Requests : Reads(p)
      BY <2>r, <3>4, <3>7
    <3> QED  BY <2>e, <3>1, <3>8, <3>9
  <2>5. ASSUME NEW q \in Requests,
               UNCHANGED <<replicaVars, cache, at, key, floor>>, step[q] # "idle", Reads(q),
               \A p \in Requests \ {q} : step'[p] = step[p] /\ answer'[p] = answer[p]
        PROVE  Goal
    <3>1. lastId' = lastId
      BY <2>5 DEF replicaVars
    <3>2. \A p \in Requests : step'[p] # "idle" => step[p] # "idle"
      BY <2>5
    <3>3. \A p \in Requests : step'[p] # "idle" => Owed(p)
      BY <2>k, <2>t, <2>5, <3>1, <3>2
    <3>4. \A p \in Requests : Reads(p)
      BY <2>r, <2>5
    <3> QED  BY <2>e, <2>5, <3>3, <3>4
  <2>6. ASSUME NEW q \in Requests, Hit(q) PROVE Goal
    <3>1. /\ step[q] = "lookup" /\ key[q] \in DOMAIN cache
          /\ step' = [step EXCEPT ![q] = "served"]
          /\ answer' = [answer EXCEPT ![q] = cache[key[q]]]
          /\ UNCHANGED <<replicaVars, cache, at, key, floor>>
      BY <2>6 DEF Hit, Moves
    <3>2. PICK n \in 0..lastId[at[q]] : key[q] = VersionAt(n) /\ floor[q] = Prefix(n)
      BY <2>0, <3>1, OwedAtPrefix
    <3>3. PICK k \in 0..Len(log) : key[q] = VersionAt(k) /\ Holds(cache[key[q]], Prefix(k))
      BY <2>0, <3>1 DEF CacheInv, EntryHolds
    <3>4. n \in Nat /\ k \in Nat
      BY <2>t, <3>1 DEF ReplicaTypeOK
    <3>5. Prefix(n) = Prefix(k)
      BY <3>2, <3>3, <3>4, SameCountSamePrefix, ReplicaAssumption
    <3>6. answer'[q] = cache[key[q]] /\ floor'[q] = floor[q]
      BY <3>1 DEF AskTypeOK
    <3>7. Reads(q)
      BY <3>2, <3>3, <3>5, <3>6 DEF Reads, Holds
    <3>8. \A p \in Requests \ {q} : step'[p] = step[p] /\ answer'[p] = answer[p]
      BY <3>1 DEF AskTypeOK
    <3> QED  BY <2>5, <3>1, <3>7, <3>8
  <2>7. ASSUME NEW q \in Requests, Miss(q) PROVE Goal
    <3>1. /\ step[q] = "lookup" /\ step' = [step EXCEPT ![q] = "first"]
          /\ UNCHANGED <<replicaVars, cache, at, key, floor, answer>>
      BY <2>7 DEF Miss, Moves
    <3>2. step'[q] = "first" /\ \A p \in Requests \ {q} : step'[p] = step[p] /\ answer'[p] = answer[p]
      BY <3>1 DEF AskTypeOK
    <3>3. Reads(q)
      BY <3>2 DEF Reads
    <3> QED  BY <2>5, <3>1, <3>2, <3>3
  <2>8. ASSUME NEW q \in Requests, FirstQuery(q) PROVE Goal
    <3>1. /\ step[q] = "first" /\ step' = [step EXCEPT ![q] = "second"]
          /\ answer' = [answer EXCEPT ![q].first = store[at[q]]]
          /\ UNCHANGED <<replicaVars, cache, at, key, floor>>
      BY <2>8 DEF FirstQuery, Moves
    <3>2. floor[q] \subseteq store[at[q]]
      BY <2>0, <3>1, OwedAtPrefix
    <3>3. answer'[q].first = store[at[q]] /\ step'[q] = "second"
      BY <3>1 DEF AskTypeOK, Answer
    <3>4. Reads(q)
      BY <3>1, <3>2, <3>3 DEF Reads
    <3>5. \A p \in Requests \ {q} : step'[p] = step[p] /\ answer'[p] = answer[p]
      BY <3>1 DEF AskTypeOK
    <3> QED  BY <2>5, <3>1, <3>4, <3>5
  <2>9. ASSUME NEW q \in Requests, SecondQuery(q) PROVE Goal
    <3>1. /\ step[q] = "second" /\ step' = [step EXCEPT ![q] = "put"]
          /\ answer' = [answer EXCEPT ![q].second = store[at[q]]]
          /\ UNCHANGED <<replicaVars, cache, at, key, floor>>
      BY <2>9 DEF SecondQuery, Moves
    <3>2. floor[q] \subseteq store[at[q]] /\ floor[q] \subseteq answer[q].first
      BY <2>0, <3>1, OwedAtPrefix DEF CacheInv, ReadsHold
    <3>3. /\ answer'[q].second = store[at[q]] /\ answer'[q].first = answer[q].first
          /\ step'[q] = "put"
      BY <3>1 DEF AskTypeOK, Answer
    <3>4. Reads(q)
      BY <3>1, <3>2, <3>3 DEF Reads
    <3>5. \A p \in Requests \ {q} : step'[p] = step[p] /\ answer'[p] = answer[p]
      BY <3>1 DEF AskTypeOK
    <3> QED  BY <2>5, <3>1, <3>4, <3>5
  <2>10. ASSUME NEW q \in Requests, Put(q) PROVE Goal
    <3>1. /\ step[q] = "put" /\ step' = [step EXCEPT ![q] = "served"]
          /\ UNCHANGED <<replicaVars, at, key, floor, answer>>
      BY <2>10 DEF Put, Moves
    <3>2. /\ step'[q] = "served" /\ \A p \in Requests \ {q} : step'[p] = step[p]
          /\ lastId' = lastId
      BY <3>1 DEF AskTypeOK, replicaVars
    <3>3. floor[q] \subseteq answer[q].first /\ floor[q] \subseteq answer[q].second
      BY <2>0, <3>1 DEF CacheInv, ReadsHold
    <3>4. \A p \in Requests : step'[p] # "idle" => Owed(p)
      BY <2>k, <2>t, <3>1, <3>2
    <3>5. \A p \in Requests : Reads(p)
      <4>1. Reads(q)
        BY <3>1, <3>3 DEF Reads
      <4> QED  BY <2>r, <3>1, <3>2, <4>1
    <3>6. ASSUME NEW v \in DOMAIN cache', v \in DOMAIN cache /\ cache'[v] = cache[v] PROVE Entry(v)
      BY <2>e, <3>6
    <3>7. ASSUME key[q] \in DOMAIN cache', cache'[key[q]] = answer[q] PROVE Entry(key[q])
      <4>1. PICK n \in 0..lastId[at[q]] : key[q] = VersionAt(n) /\ floor[q] = Prefix(n)
        BY <2>0, <3>1, OwedAtPrefix
      <4>2. n \in 0..Len(log) /\ log' = log
        BY <2>t, <3>1 DEF replicaVars, ReplicaTypeOK
      <4>3. Prefix(n)' = Prefix(n) /\ VersionAt(n)' = VersionAt(n)
        BY <2>f, <3>1, <4>2
      <4> QED  BY <3>3, <3>7, <4>1, <4>2, <4>3 DEF Entry, Holds
    <3>8. ASSUME NEW v \in DOMAIN cache'
          PROVE  (v \in DOMAIN cache /\ cache'[v] = cache[v]) \/ (v = key[q] /\ cache'[v] = answer[q])
      BY <2>10 DEF Put, PutKey
    <3>9. \A v \in DOMAIN cache' : Entry(v)
      BY <3>6, <3>7, <3>8
    <3> QED  BY <3>4, <3>5, <3>9
  <2>11. ASSUME NEW v \in DOMAIN cache, Expire(v) PROVE Goal
    <3>1. /\ UNCHANGED <<replicaVars, step, at, key, floor, answer>>
          /\ DOMAIN cache' \subseteq DOMAIN cache /\ \A u \in DOMAIN cache' : cache'[u] = cache[u]
      BY <2>11 DEF Expire, Restrict
    <3>2. lastId' = lastId
      BY <3>1 DEF replicaVars
    <3>3. \A p \in Requests : step'[p] # "idle" => Owed(p)
      BY <2>k, <2>t, <3>1, <3>2
    <3>4. \A p \in Requests : Reads(p)
      BY <2>r, <3>1
    <3> QED  BY <2>e, <3>1, <3>3, <3>4
  <2>12. CASE UNCHANGED vars
    <3>1. UNCHANGED <<replicaVars, cache, step, at, key, floor, answer>>
      BY <2>12 DEF vars, askVars
    <3>2. lastId' = lastId
      BY <3>1 DEF replicaVars
    <3>3. \A p \in Requests : step'[p] # "idle" => Owed(p)
      BY <2>k, <2>t, <3>1, <3>2
    <3>4. \A p \in Requests : Reads(p)
      BY <2>r, <3>1
    <3> QED  BY <2>e, <3>1, <3>3, <3>4
  <2>13. Goal
    BY <2>1, <2>2, <2>3, <2>4, <2>6, <2>7, <2>8, <2>9, <2>10, <2>11, <2>12 DEF Next, Serve, Update
  <2> QED  BY <2>13
<1> QED  BY <1>b, <1>c

\* Keys, reads and cache entries stand on prefixes of the stream in every
\* behaviour, until a message is missed.
THEOREM CacheInvariant == Spec => []CacheInv
<1>1. Spec => []ReplicaTypeOK /\ []ReplicaInv
  BY RefinesReplicas, ReplicaTypeCorrect, ReplicaInvariant, PTL
<1>2. Spec => []AskTypeOK
  BY TypeCorrect, TypeParts, PTL
<1> QED  BY <1>1, <1>2, CacheInvInit, CacheInvNext, PTL DEF Spec

\* Until a replica misses a message, an answer cached before a filing landed is
\* never served after it, whichever replica put it there (cache.py, header).
THEOREM NoStaleAnswer == Spec => []NeverServedStale
<1>1. CacheInv => NeverServedStale
  BY DEF CacheInv, ReadsHold, NeverServedStale, Holds
<1> QED  BY <1>1, CacheInvariant, PTL
=============================================================================
