------------------------- MODULE FilingIngestProofs -------------------------
(***************************************************************************)
(* Theorems about FilingIngest, for every number of pollers, workers and   *)
(* filings, every batch, cap and fault budget: the types, that no filing   *)
(* is lost, that none is published twice, that timely workers never share  *)
(* an entry, that a pending entry's counter only grows, that only a poller *)
(* that stops forgets a filing, and that timely workers give each filing   *)
(* one outcome.                                                            *)
(***************************************************************************)
EXTENDS FilingIngest, FiniteSetTheorems, TLAPS

-----------------------------------------------------------------------------
(* Sequences                                                               *)

\* Appending to a stream adds one entry at its end and keeps the others.
LEMMA AppendEntry ==
  ASSUME NEW S, NEW s \in Seq(S), NEW e \in S
  PROVE  /\ Append(s, e) \in Seq(S)
         /\ Len(Append(s, e)) = Len(s) + 1
         /\ DOMAIN Append(s, e) = 1..Len(s) + 1
         /\ Append(s, e)[Len(s) + 1] = e
         /\ \A i \in 1..Len(s) : Append(s, e)[i] = s[i]
  OBVIOUS

\* ... so the set of its entries grows by that one.
LEMMA AppendRange ==
  ASSUME NEW S, NEW s \in Seq(S), NEW e \in S
  PROVE  Range(Append(s, e)) = Range(s) \union {e}
<1> DEFINE t == Append(s, e)
<1>1. /\ Len(s) \in Nat
      /\ DOMAIN s = 1..Len(s)
      /\ DOMAIN t = 1..Len(s) + 1
      /\ t[Len(s) + 1] = e
      /\ \A i \in 1..Len(s) : t[i] = s[i]
  BY AppendEntry
<1> HIDE DEF t
<1>2. Range(t) = Range(s) \union {e}
  BY <1>1 DEF Range
<1> QED  BY <1>2 DEF t

-----------------------------------------------------------------------------
(* Types                                                                   *)

LEMMA InitTypeOK == Init => TypeOK
BY IngestAssumption DEF Init, TypeOK, Phase, Step

\* The except branch only touches the worker's own variables.
LEMMA ExceptTypes ==
  ASSUME TypeOK, NEW w \in Workers, NEW m, Except(w, m)
  PROVE  /\ pc' \in [Workers -> Step]
         /\ work' \in [Workers -> SUBSET (1..lastDelivered)]
         /\ attempt' \in [Workers -> 0..MaxCount]
<1>1. GiveUpStep(w) \in {"dead_letter", "idle"}
  BY DEF GiveUpStep
<1>2. pc' \in [Workers -> Step]
  BY <1>1 DEF Except, TypeOK, Step
<1>3. CASE GiveUpStep(w) = "idle"
  <2>1. work' = [work EXCEPT ![w] = @ \ {m}] /\ attempt' = [attempt EXCEPT ![w] = 0]
    BY <1>3 DEF Except
  <2>2. work' \in [Workers -> SUBSET (1..lastDelivered)]
    BY <2>1 DEF TypeOK
  <2>3. attempt' \in [Workers -> 0..MaxCount]
    BY <2>1, IngestAssumption DEF TypeOK
  <2> QED  BY <1>2, <2>2, <2>3
<1>4. CASE GiveUpStep(w) # "idle"
  BY <1>2, <1>4 DEF Except, TypeOK
<1> QED  BY <1>3, <1>4

LEMMA NextTypeOK == TypeOK /\ [Next]_vars => TypeOK'
<1> SUFFICES ASSUME TypeOK, [Next]_vars PROVE TypeOK'
  OBVIOUS
<1> USE IngestAssumption DEF TypeOK, Phase, Step
<1>1. ASSUME NEW p \in Pollers, NEW f \in Filings, Mark(p, f) PROVE TypeOK'
  BY <1>1 DEF Mark, local
<1>2. ASSUME NEW p \in Pollers, Announce(p) PROVE TypeOK'
  <2>1. announcing[p] \in Filings
    BY <1>2 DEF Announce
  <2>2. stream' \in Seq(Filings) /\ Len(stream') = Len(stream) + 1
    BY <1>2, <2>1, AppendEntry DEF Announce
  <2>3. trimmed' \in 0..Len(stream')
    BY <1>2, <2>2 DEF Announce, Trim
  <2>4. announcing' \in [Pollers -> Filings \union {NoFiling}]
    BY <1>2 DEF Announce
  <2>5. /\ UNCHANGED <<seen, lastDelivered, pending, idle, attempts, facts, dlq>>
        /\ UNCHANGED <<phase, work, pc, attempt, faults, stops>>
    BY <1>2 DEF Announce, local
  <2>6. 0..Len(stream) \subseteq 0..Len(stream')
    BY <2>2
  <2> QED  BY <2>2, <2>3, <2>4, <2>5, <2>6
<1>3. ASSUME NEW p \in Pollers, PollerFails(p) PROVE TypeOK'
  BY <1>3, SMTT(30) DEF PollerFails, redis, local
<1>4. ASSUME NEW w \in Workers, Claim(w) PROVE TypeOK'
  <2>1. FirstBatch(Claimable) \subseteq pending
    BY DEF FirstBatch, Claimable
  <2> QED  BY <1>4, <2>1 DEF Claim, ResetIdle
<1>5. ASSUME NEW w \in Workers, ReadNew(w) PROVE TypeOK'
  <2>1. /\ NewIds \subseteq lastDelivered + 1 .. Len(stream)
        /\ NewIds \subseteq Int
    BY SMTT(30) DEF NewIds, Greater, Lesser
  <2>2. /\ lastDelivered' \in 0..Len(stream)
        /\ lastDelivered <= lastDelivered'
        /\ NewIds \subseteq 1..lastDelivered'
    BY <1>5, <2>1, SMTT(30) DEF ReadNew
  <2>3. 1..lastDelivered \subseteq 1..lastDelivered'
    BY <2>2
  <2>4. work' \in [Workers -> SUBSET (1..lastDelivered')]
    BY <1>5, <2>2, <2>3 DEF ReadNew
  <2>5. pending' \subseteq 1..lastDelivered' /\ idle' \subseteq pending' /\ phase' \in [Workers -> Phase]
    BY <1>5, <2>2, <2>3 DEF ReadNew
  <2>6. DOMAIN attempts' \subseteq 1..lastDelivered' /\ attempts' \in [DOMAIN attempts' -> 1..MaxCount]
    BY <1>5, <2>3 DEF ReadNew
  <2> QED  BY <1>5, <2>2, <2>4, <2>5, <2>6 DEF ReadNew
<1>6. ASSUME NEW m \in pending, Age(m) PROVE TypeOK'
  BY <1>6 DEF Age, local
<1>7. ASSUME NEW w \in Workers, NEW m \in Ids, Attempt(w, m) PROVE TypeOK'
  <2>1. m \in 1..lastDelivered
    BY <1>7 DEF Attempt, First
  <2>2. Lesser(Count(m) + 1, MaxCount) \in 1..MaxCount
    BY SMTT(30) DEF Lesser, Count
  <2> QED  BY <1>7, <2>1, <2>2, SMTT(30) DEF Attempt
<1>8. ASSUME NEW w \in Workers, NEW m \in Ids, PublishFacts(w, m) PROVE TypeOK'
  <2>1. facts' \in Seq(Filings)
    BY <1>8, AppendEntry DEF PublishFacts, Ids
  <2> QED  BY <1>8, <2>1 DEF PublishFacts, AfterPublish
<1>9. ASSUME NEW w \in Workers, NEW m \in Ids, SourceRaises(w, m) PROVE TypeOK'
  <2>1. Except(w, m) /\ UNCHANGED <<redis, announcing, phase, faults, stops>>
    BY <1>9 DEF SourceRaises
  <2>2. /\ pc' \in [Workers -> Step]
        /\ work' \in [Workers -> SUBSET (1..lastDelivered)]
        /\ attempt' \in [Workers -> 0..MaxCount]
    BY <2>1, ExceptTypes
  <2> QED  BY <2>1, <2>2 DEF redis
<1>10. ASSUME NEW w \in Workers, NEW m \in Ids, PublishFails(w, m) PROVE TypeOK'
  <2>1. stream[m] \in Filings /\ facts' \in {facts, Append(facts, stream[m])}
    BY <1>10 DEF PublishFails, Ids
  <2>2. facts' \in Seq(Filings)
    <3>1. CASE facts' = facts  BY <3>1
    <3>2. CASE facts' = Append(facts, stream[m])  BY <2>1, <3>2, AppendEntry
    <3> QED  BY <2>1, <3>1, <3>2
  <2>3. /\ pc' \in [Workers -> Step]
        /\ work' \in [Workers -> SUBSET (1..lastDelivered)]
        /\ attempt' \in [Workers -> 0..MaxCount]
    BY <1>10, ExceptTypes DEF PublishFails
  <2>4. faults' \in 0..MaxFaults /\ stops' \in 0..faults'
    BY <1>10, SMTT(30) DEF PublishFails
  <2>5. UNCHANGED <<seen, stream, trimmed, lastDelivered, pending, idle, attempts, dlq, announcing, phase>>
    BY <1>10 DEF PublishFails
  <2> QED  BY <2>2, <2>3, <2>4, <2>5
<1>11. ASSUME NEW w \in Workers, NEW m \in Ids, DeadLetter(w, m) PROVE TypeOK'
  <2> DEFINE e == [filing |-> stream[m], attempts |-> attempt[w]]
  <2>1. e \in [filing : Filings, attempts : 0..MaxCount]
    BY DEF Ids
  <2>2. dlq' \in Seq([filing : Filings, attempts : 0..MaxCount])
    BY <1>11, <2>1, AppendEntry DEF DeadLetter
  <2> QED  BY <1>11, <2>2 DEF DeadLetter
<1>12. ASSUME NEW w \in Workers, NEW m \in Ids, Ack(w, m) PROVE TypeOK'
  BY <1>12 DEF Ack
<1>13. ASSUME NEW w \in Workers, NEW m \in Ids, ClearAttempts(w, m) PROVE TypeOK'
  BY <1>13, SMTT(30) DEF ClearAttempts, Restrict
<1>14. ASSUME NEW w \in Workers, NEW m \in Ids, Killed(w, m) PROVE TypeOK'
  BY <1>14, SMTT(30) DEF Killed, ForgetRound, redis
<1>15. ASSUME NEW w \in Workers, Abandon(w) PROVE TypeOK'
  BY <1>15, SMTT(30) DEF Abandon, ForgetRound, redis
<1>16. CASE UNCHANGED vars
  BY <1>16 DEF vars, redis, local
<1> QED
  BY <1>1, <1>2, <1>3, <1>4, <1>5, <1>6, <1>7, <1>8, <1>9, <1>10, <1>11, <1>12, <1>13, <1>14, <1>15, <1>16
     DEF Next, PollerStep, WorkerStep, Handle, Fault

\* Every component keeps its type, whatever crashes or is claimed twice.
THEOREM TypeCorrect == Spec => []TypeOK
BY InitTypeOK, NextTypeOK, PTL DEF Spec

-----------------------------------------------------------------------------
(* No filing is lost                                                       *)

LEMMA RangeDeadLettered ==
  ASSUME TypeOK, NEW e \in [filing : Filings, attempts : 0..MaxCount], dlq' = Append(dlq, e)
  PROVE  DeadLettered' = DeadLettered \union {e.filing}
<1> DEFINE R == [filing : Filings, attempts : 0..MaxCount]
<1>1. dlq \in Seq(R)
  BY DEF TypeOK
<1>2. /\ Len(dlq) \in Nat
      /\ DOMAIN dlq = 1..Len(dlq)
      /\ DOMAIN dlq' = 1..Len(dlq) + 1
      /\ dlq'[Len(dlq) + 1] = e
      /\ \A i \in 1..Len(dlq) : dlq'[i] = dlq[i]
  BY <1>1, AppendEntry
<1> QED  BY <1>2 DEF DeadLettered

\* Outcomes are never withdrawn, and entries of the stream never change.
LEMMA Monotone ==
  ASSUME TypeOK, [Next]_vars
  PROVE  /\ Range(facts) \union DeadLettered \subseteq (Range(facts) \union DeadLettered)'
         /\ \A m \in Ids : m \in Ids' /\ stream'[m] = stream[m]
         /\ trimmed <= trimmed'
<1>1. CASE \E p \in Pollers : Announce(p)
  <2> PICK p \in Pollers : Announce(p)
    BY <1>1
  <2>1. announcing[p] \in Filings
    BY DEF Announce, TypeOK
  <2>2. /\ Len(stream') = Len(stream) + 1
        /\ \A i \in 1..Len(stream) : stream'[i] = stream[i]
    BY <2>1, AppendEntry DEF Announce, TypeOK
  <2>3. trimmed <= trimmed'
    BY DEF Announce, Trim, TypeOK
  <2> QED  BY <2>2, <2>3 DEF Announce, Ids, DeadLettered, TypeOK
<1>2. CASE \E w \in Workers, m \in Ids : PublishFacts(w, m) \/ PublishFails(w, m)
  <2> PICK w \in Workers, m \in Ids : PublishFacts(w, m) \/ PublishFails(w, m)
    BY <1>2
  <2>1. facts \in Seq(Filings) /\ stream[m] \in Filings
    BY DEF TypeOK, Ids
  <2>2. facts' = facts \/ facts' = Append(facts, stream[m])
    BY DEF PublishFacts, PublishFails
  <2>3. Range(facts) \subseteq Range(facts')
    <3>1. CASE facts' = facts  BY <3>1
    <3>2. CASE facts' = Append(facts, stream[m])  BY <2>1, <3>2, AppendRange
    <3> QED  BY <2>2, <3>1, <3>2
  <2> QED  BY <2>3 DEF PublishFacts, PublishFails, Ids, DeadLettered, TypeOK
<1>3. CASE \E w \in Workers, m \in Ids : DeadLetter(w, m)
  <2> PICK w \in Workers, m \in Ids : DeadLetter(w, m)
    BY <1>3
  <2> DEFINE e == [filing |-> stream[m], attempts |-> attempt[w]]
  <2>2. e \in [filing : Filings, attempts : 0..MaxCount] /\ dlq' = Append(dlq, e)
    BY DEF DeadLetter, TypeOK, Ids
  <2>1. DeadLettered \subseteq DeadLettered'
    BY <2>2, RangeDeadLettered
  <2> QED  BY <2>1 DEF DeadLetter, Ids, TypeOK
<1>4. CASE UNCHANGED <<stream, facts, dlq, trimmed>>
  BY <1>4 DEF Ids, DeadLettered, TypeOK
<1>5. CASE \E w \in Workers, m \in Ids :
              Attempt(w, m) \/ SourceRaises(w, m) \/ Ack(w, m) \/ ClearAttempts(w, m) \/ Killed(w, m)
  BY <1>4, <1>5 DEF Attempt, SourceRaises, Ack, ClearAttempts, Killed, redis
<1>6. CASE \E w \in Workers : Claim(w) \/ ReadNew(w) \/ Abandon(w)
  BY <1>4, <1>6 DEF Claim, ReadNew, Abandon, redis
<1>7. CASE \E p \in Pollers : (\E f \in Filings : Mark(p, f)) \/ PollerFails(p)
  BY <1>4, <1>7 DEF Mark, PollerFails, redis
<1>8. CASE (\E m \in pending : Age(m)) \/ UNCHANGED vars
  BY <1>4, <1>8 DEF Age, vars, redis
<1> QED
  BY <1>1, <1>2, <1>3, <1>5, <1>6, <1>7, <1>8 DEF Next, PollerStep, WorkerStep, Handle, Fault

\* A worker comes to acknowledge an entry only from the two calls that gave it
\* an outcome.
LEMMA AckSource ==
  ASSUME TypeOK, [Next]_vars, NEW w \in Workers, pc'[w] = "ack"
  PROVE  \/ pc[w] = "ack" /\ work'[w] = work[w]
         \/ \E k \in Ids : /\ PublishFacts(w, k) \/ DeadLetter(w, k)
                           /\ work'[w] = work[w]
<1> USE DEF TypeOK
<1>1. ASSUME NEW v \in Workers, NEW k \in Ids, PublishFacts(v, k) \/ DeadLetter(v, k)
      PROVE  \/ pc[w] = "ack" /\ work'[w] = work[w]
             \/ (PublishFacts(w, k) \/ DeadLetter(w, k)) /\ work'[w] = work[w]
  BY <1>1 DEF PublishFacts, DeadLetter
<1>2. ASSUME NEW v \in Workers, NEW k \in Ids,
             Attempt(v, k) \/ Ack(v, k) \/ ClearAttempts(v, k) \/ Killed(v, k)
      PROVE  pc[w] = "ack" /\ work'[w] = work[w]
  BY <1>2 DEF Attempt, Ack, ClearAttempts, Killed, ForgetRound
<1>3. ASSUME NEW v \in Workers, NEW k \in Ids, SourceRaises(v, k) \/ PublishFails(v, k)
      PROVE  pc[w] = "ack" /\ work'[w] = work[w]
  <2>1. GiveUpStep(v) \in {"dead_letter", "idle"}
    BY DEF GiveUpStep
  <2> QED  BY <1>3, <2>1 DEF SourceRaises, PublishFails, Except
<1>4. ASSUME NEW v \in Workers, Claim(v) \/ ReadNew(v) \/ Abandon(v)
      PROVE  pc[w] = "ack" /\ work'[w] = work[w]
  BY <1>4 DEF Claim, ReadNew, Abandon, ForgetRound
<1>5. ASSUME NEW p \in Pollers, (\E f \in Filings : Mark(p, f)) \/ Announce(p) \/ PollerFails(p)
      PROVE  pc[w] = "ack" /\ work'[w] = work[w]
  BY <1>5 DEF Mark, Announce, PollerFails, local
<1>6. ASSUME (\E m \in pending : Age(m)) \/ UNCHANGED vars
      PROVE  pc[w] = "ack" /\ work'[w] = work[w]
  BY <1>6 DEF Age, vars, local
<1> QED
  BY <1>1, <1>2, <1>3, <1>4, <1>5, <1>6 DEF Next, PollerStep, WorkerStep, Handle, Fault

\* Delivered means pending, and pending ends with an acknowledgement or the cap.
LEMMA PendingLeaves ==
  ASSUME TypeOK, [Next]_vars, NEW m \in Ids', m <= lastDelivered', m \notin pending'
  PROVE  \/ m <= trimmed
         \/ m \in Ids /\ m <= lastDelivered /\ m \notin pending
         \/ \E w \in Workers : m \in Ids /\ Ack(w, m)
<1> USE DEF TypeOK
<1>1. ASSUME NEW w \in Workers, ReadNew(w)
      PROVE  m <= trimmed \/ (m \in Ids /\ m <= lastDelivered /\ m \notin pending)
  <2>1. m \in Ids /\ m \notin pending /\ m \notin NewIds
    BY <1>1 DEF ReadNew, Ids
  <2>2. CASE m > lastDelivered /\ m > trimmed
    <3>1. NewIds # {} /\ lastDelivered' \in NewIds
      BY <1>1, <2>2 DEF ReadNew, Ids
    <3> DEFINE last == Greater(lastDelivered, trimmed)
               upto == Lesser(last + Batch, Len(stream))
    <3>2. last \in Int /\ upto \in Int /\ m \in Int /\ last < m
      BY <2>1, <2>2, IngestAssumption, SMTT(30) DEF Greater, Lesser, Ids
    <3>3. NewIds = last + 1 .. upto
      BY DEF NewIds
    <3> HIDE DEF last, upto
    <3>4. m \in NewIds
      BY <3>1, <3>2, <3>3
    <3> QED  BY <2>1, <3>4
  <2> QED  BY <2>1, <2>2 DEF Ids
<1>2. ASSUME NEW w \in Workers, Claim(w)
      PROVE  m <= trimmed \/ (m \in Ids /\ m <= lastDelivered /\ m \notin pending)
  BY <1>2 DEF Claim, Ids
<1>3. ASSUME NEW w \in Workers, NEW k \in Ids, Ack(w, k)
      PROVE  Ack(w, m) \/ (m \in Ids /\ m <= lastDelivered /\ m \notin pending)
  BY <1>3 DEF Ack, Ids
<1>4. ASSUME UNCHANGED <<lastDelivered, pending>>
      PROVE  m \in Ids /\ m <= lastDelivered /\ m \notin pending
  BY <1>4 DEF Ids
<1>5. ASSUME NEW w \in Workers, NEW k \in Ids,
             \/ Attempt(w, k) \/ PublishFacts(w, k) \/ SourceRaises(w, k) \/ DeadLetter(w, k)
             \/ ClearAttempts(w, k) \/ Killed(w, k) \/ PublishFails(w, k)
      PROVE  UNCHANGED <<lastDelivered, pending>>
  BY <1>5 DEF Attempt, PublishFacts, SourceRaises, DeadLetter, ClearAttempts, Killed, PublishFails, redis
<1>6. ASSUME NEW p \in Pollers, (\E f \in Filings : Mark(p, f)) \/ Announce(p) \/ PollerFails(p)
      PROVE  UNCHANGED <<lastDelivered, pending>>
  BY <1>6 DEF Mark, Announce, PollerFails, redis
<1>7. ASSUME NEW w \in Workers, Abandon(w) PROVE UNCHANGED <<lastDelivered, pending>>
  BY <1>7 DEF Abandon, redis
<1>8. ASSUME (\E k \in pending : Age(k)) \/ UNCHANGED vars PROVE UNCHANGED <<lastDelivered, pending>>
  BY <1>8 DEF Age, vars, redis
<1>9. \/ UNCHANGED <<lastDelivered, pending>>
      \/ \E w \in Workers : ReadNew(w) \/ Claim(w) \/ \E k \in Ids : Ack(w, k)
  BY <1>5, <1>6, <1>7, <1>8 DEF Next, PollerStep, WorkerStep, Handle, Fault
<1>10. m \in Ids \/ ~ \E w \in Workers : \E k \in Ids : Ack(w, k)
  BY DEF Ack, Ids
<1> QED  BY <1>1, <1>2, <1>3, <1>4, <1>9, <1>10

LEMMA NothingLostStep ==
  ASSUME TypeOK, NothingLost, AckReady, [Next]_vars
  PROVE  NothingLost' /\ AckReady'
<1> DEFINE Outcome == Range(facts) \union DeadLettered
<1>1. /\ Outcome \subseteq Outcome'
      /\ \A m \in Ids : stream'[m] = stream[m]
      /\ trimmed <= trimmed'
  BY Monotone
<1>2. NothingLost'
  <2> SUFFICES ASSUME NEW m \in Ids', ~ (m > lastDelivered'), m \notin pending'
               PROVE  stream'[m] \in Outcome' \/ m <= trimmed'
    BY DEF NothingLost
  <2>1. m \in Int /\ trimmed \in Int /\ trimmed' \in Int /\ lastDelivered' \in Int
    BY NextTypeOK DEF TypeOK, Ids
  <2>2. m <= lastDelivered'
    BY <2>1
  <2>3. CASE m <= trimmed
    BY <1>1, <2>1, <2>3
  <2>4. CASE m \in Ids /\ m <= lastDelivered /\ m \notin pending
    <3>1. stream[m] \in Outcome \/ m <= trimmed
      BY <2>1, <2>4 DEF NothingLost, TypeOK
    <3> QED  BY <1>1, <2>1, <2>4, <3>1
  <2>5. CASE \E w \in Workers : m \in Ids /\ Ack(w, m)
    <3>1. stream[m] \in Outcome
      BY <2>5 DEF AckReady, Ack, First
    <3> QED  BY <1>1, <2>5, <3>1
  <2> QED  BY <2>2, <2>3, <2>4, <2>5, PendingLeaves
<1>3. AckReady'
  <2> SUFFICES ASSUME NEW w \in Workers, NEW m \in work'[w], pc'[w] = "ack", First(w, m)'
               PROVE  stream'[m] \in Outcome'
    BY DEF AckReady
  <2>1. CASE pc[w] = "ack" /\ work'[w] = work[w]
    <3>1. stream[m] \in Outcome /\ m \in Ids
      BY <2>1 DEF AckReady, First, TypeOK, Ids
    <3> QED  BY <1>1, <3>1
  <2>2. ASSUME NEW k \in Ids, PublishFacts(w, k) \/ DeadLetter(w, k), work'[w] = work[w]
        PROVE  stream'[m] \in Outcome'
    <3>1. m = k
      BY <2>2 DEF PublishFacts, DeadLetter, First, TypeOK, Ids
    <3>2. stream[k] \in Filings /\ attempt[w] \in 0..MaxCount
      BY DEF TypeOK, Ids
    <3>3. CASE PublishFacts(w, k)
      <4>1. facts' = Append(facts, stream[k])
        BY <3>3 DEF PublishFacts
      <4>2. stream[k] \in Range(facts')
        BY <3>2, <4>1, AppendRange DEF TypeOK
      <4> QED  BY <1>1, <3>1, <4>2
    <3>4. CASE DeadLetter(w, k)
      <4> DEFINE e == [filing |-> stream[k], attempts |-> attempt[w]]
      <4>1. e \in [filing : Filings, attempts : 0..MaxCount] /\ dlq' = Append(dlq, e)
        BY <3>2, <3>4 DEF DeadLetter
      <4>2. e.filing \in DeadLettered'
        BY <4>1, RangeDeadLettered
      <4> QED  BY <1>1, <3>1, <4>2
    <3> QED  BY <2>2, <3>3, <3>4
  <2> QED  BY <2>1, <2>2, AckSource
<1> QED  BY <1>2, <1>3

-----------------------------------------------------------------------------
(* No filing is published twice                                            *)

LEMMA PublishedOnceStep ==
  ASSUME TypeOK, PublishedOnce, SoleAnnouncer, [Next]_vars
  PROVE  PublishedOnce' /\ SoleAnnouncer'
<1> USE DEF TypeOK, SoleAnnouncer
<1>1. ASSUME NEW p \in Pollers, NEW f \in Filings, Mark(p, f)
      PROVE  PublishedOnce' /\ SoleAnnouncer'
  <2>1. /\ seen' = seen \union {f} /\ f \notin seen
        /\ stream' = stream
        /\ announcing' = [announcing EXCEPT ![p] = f]
    BY <1>1 DEF Mark, FirstSight
  <2>2. f # NoFiling
    BY IngestAssumption
  <2>3. \A q \in Pollers : announcing'[q] = IF q = p THEN f ELSE announcing[q]
    BY <2>1
  <2>4. Range(stream)' = Range(stream)
    BY <2>1
  <2> QED  BY <2>1, <2>2, <2>3, <2>4 DEF PublishedOnce
<1>2. ASSUME NEW p \in Pollers, Announce(p)
      PROVE  PublishedOnce' /\ SoleAnnouncer'
  <2> DEFINE f == announcing[p]
  <2>1. /\ f \in Filings /\ f # NoFiling
        /\ stream' = Append(stream, f)
        /\ seen' = seen
        /\ announcing' = [announcing EXCEPT ![p] = NoFiling]
    BY <1>2 DEF Announce
  <2>2. f \in seen \ Range(stream)
    BY <2>1
  <2>3. Range(stream') = Range(stream) \union {f}
    BY <2>1, AppendRange
  <2>4. /\ DOMAIN stream' = 1..Len(stream) + 1 /\ DOMAIN stream = 1..Len(stream) /\ Len(stream) \in Nat
        /\ stream'[Len(stream) + 1] = f
        /\ \A i \in 1..Len(stream) : stream'[i] = stream[i]
    BY <2>1, AppendEntry
  <2>5. \A i \in 1..Len(stream) : stream[i] # f
    BY <2>2, <2>4 DEF Range
  <2>6. PublishedOnce'
    <3>1. \A i, j \in 1..Len(stream) : stream[i] = stream[j] => i = j
      BY <2>4 DEF PublishedOnce, IsInjective
    <3>0. DOMAIN stream' = 1..Len(stream) \union {Len(stream) + 1}
      BY <2>4
    <3>2. ASSUME NEW i \in DOMAIN stream', NEW j \in DOMAIN stream', stream'[i] = stream'[j]
          PROVE  i = j
      <4> HIDE DEF f
      <4> QED  BY <2>4, <2>5, <3>0, <3>1, <3>2
    <3> QED  BY <3>2 DEF PublishedOnce, IsInjective
  <2>7. SoleAnnouncer'
    BY <2>1, <2>2, <2>3
  <2> QED  BY <2>6, <2>7
<1>3. ASSUME NEW p \in Pollers, PollerFails(p)
      PROVE  PublishedOnce' /\ SoleAnnouncer'
  BY <1>3 DEF PollerFails, redis, PublishedOnce
<1>4. ASSUME UNCHANGED <<seen, stream, announcing>>
      PROVE  PublishedOnce' /\ SoleAnnouncer'
  BY <1>4 DEF PublishedOnce
<1>5. ASSUME NEW w \in Workers, NEW k \in Ids,
             \/ Attempt(w, k) \/ PublishFacts(w, k) \/ SourceRaises(w, k) \/ DeadLetter(w, k)
             \/ Ack(w, k) \/ ClearAttempts(w, k) \/ Killed(w, k) \/ PublishFails(w, k)
      PROVE  UNCHANGED <<seen, stream, announcing>>
  BY <1>5 DEF Attempt, PublishFacts, SourceRaises, DeadLetter, Ack, ClearAttempts, Killed, PublishFails, redis
<1>6. ASSUME NEW w \in Workers, Claim(w) \/ ReadNew(w) \/ Abandon(w)
      PROVE  UNCHANGED <<seen, stream, announcing>>
  BY <1>6 DEF Claim, ReadNew, Abandon, redis
<1>7. ASSUME (\E k \in pending : Age(k)) \/ UNCHANGED vars PROVE UNCHANGED <<seen, stream, announcing>>
  BY <1>7 DEF Age, vars, redis
<1>8. \/ UNCHANGED <<seen, stream, announcing>>
      \/ \E p \in Pollers : (\E f \in Filings : Mark(p, f)) \/ Announce(p) \/ PollerFails(p)
  BY <1>5, <1>6, <1>7 DEF Next, PollerStep, WorkerStep, Handle, Fault
<1> QED  BY <1>1, <1>2, <1>3, <1>4, <1>8

-----------------------------------------------------------------------------
(* Timely workers never share an entry                                     *)

LEMMA SoleHolderStep ==
  ASSUME TypeOK, SoleHolder, HeldNotIdle, [Next]_vars
  PROVE  SoleHolder' /\ HeldNotIdle'
<1> SUFFICES ASSUME Timely PROVE SoleHolder' /\ HeldNotIdle'
  BY DEF SoleHolder, HeldNotIdle
<1> USE DEF TypeOK
<1>0. /\ \A v, w \in Workers : v # w => work[v] \intersect work[w] = {}
      /\ \A w \in Workers : work[w] \intersect idle = {}
  BY DEF SoleHolder, HeldNotIdle
<1>1. ASSUME NEW w \in Workers, Claim(w)
      PROVE  SoleHolder' /\ HeldNotIdle'
  <2> DEFINE S == FirstBatch(Claimable)
  <2>1. S \ 1..trimmed \subseteq idle
    BY DEF FirstBatch, Claimable
  <2>2. idle' = idle \ S /\ work' = [work EXCEPT ![w] = S \ 1..trimmed]
    BY <1>1 DEF Claim, ResetIdle
  <2> HIDE DEF S
  <2>3. \A v \in Workers : work'[v] = IF v = w THEN S \ 1..trimmed ELSE work[v]
    BY <2>2
  <2>4. \A v \in Workers : v # w => work[v] \intersect (S \ 1..trimmed) = {}
    BY <1>0, <2>1
  <2>5. \A u, v \in Workers : u # v => work'[u] \intersect work'[v] = {}
    BY <1>0, <2>3, <2>4
  <2>6. \A v \in Workers : work'[v] \intersect idle' = {}
    BY <1>0, <2>2, <2>3
  <2> QED  BY <2>5, <2>6 DEF SoleHolder, HeldNotIdle
<1>2. ASSUME NEW w \in Workers, ReadNew(w)
      PROVE  SoleHolder' /\ HeldNotIdle'
  <2>1. \A m \in NewIds : m \in Int /\ m > lastDelivered
    BY DEF NewIds, Greater
  <2>2. idle' = idle /\ work' = [work EXCEPT ![w] = NewIds]
    BY <1>2 DEF ReadNew
  <2>3. \A v \in Workers : work'[v] = IF v = w THEN NewIds ELSE work[v]
    BY <2>2
  <2>4. NewIds \intersect idle = {} /\ \A v \in Workers : work[v] \intersect NewIds = {}
    BY <2>1
  <2> HIDE DEF TypeOK
  <2>5. \A u, v \in Workers : u # v => work'[u] \intersect work'[v] = {}
    BY <1>0, <2>3, <2>4
  <2>6. \A v \in Workers : work'[v] \intersect idle' = {}
    BY <1>0, <2>2, <2>3, <2>4
  <2> QED  BY <2>5, <2>6 DEF SoleHolder, HeldNotIdle
<1>3. ASSUME NEW m \in pending, Age(m)
      PROVE  SoleHolder' /\ HeldNotIdle'
  BY <1>0, <1>3 DEF Age, MayAge, local, SoleHolder, HeldNotIdle
<1>4. ASSUME idle' \subseteq idle, \A w \in Workers : work'[w] \subseteq work[w]
      PROVE  SoleHolder' /\ HeldNotIdle'
  BY <1>0, <1>4 DEF SoleHolder, HeldNotIdle
<1>5. ASSUME NEW w \in Workers, NEW k \in Ids,
             \/ Attempt(w, k) \/ PublishFacts(w, k) \/ DeadLetter(w, k)
             \/ Ack(w, k) \/ ClearAttempts(w, k) \/ Killed(w, k)
      PROVE  idle' \subseteq idle /\ \A v \in Workers : work'[v] \subseteq work[v]
  <2>1. CASE Attempt(w, k) \/ PublishFacts(w, k) \/ DeadLetter(w, k)
    BY <2>1 DEF Attempt, PublishFacts, DeadLetter
  <2>2. CASE Ack(w, k)
    BY <2>2 DEF Ack
  <2>3. CASE ClearAttempts(w, k)
    BY <2>3 DEF ClearAttempts
  <2>4. CASE Killed(w, k)
    BY <2>4 DEF Killed, ForgetRound, redis
  <2> QED BY <1>5, <2>1, <2>2, <2>3, <2>4
<1>6. ASSUME NEW w \in Workers, NEW k \in Ids, SourceRaises(w, k) \/ PublishFails(w, k)
      PROVE  idle' \subseteq idle /\ \A v \in Workers : work'[v] \subseteq work[v]
  <2>1. idle' = idle /\ Except(w, k)
    BY <1>6 DEF SourceRaises, PublishFails, redis
  <2>2. \A v \in Workers : work'[v] \subseteq work[v]
    BY <2>1 DEF Except
  <2> QED BY <2>1, <2>2
<1>7. ASSUME NEW w \in Workers, Abandon(w)
      PROVE  idle' \subseteq idle /\ \A v \in Workers : work'[v] \subseteq work[v]
  BY <1>7 DEF Abandon, ForgetRound, redis
<1>8. ASSUME NEW p \in Pollers, (\E f \in Filings : Mark(p, f)) \/ Announce(p) \/ PollerFails(p)
      PROVE  idle' \subseteq idle /\ \A v \in Workers : work'[v] \subseteq work[v]
  BY <1>8 DEF Mark, Announce, PollerFails, redis, local
<1>9. ASSUME UNCHANGED vars
      PROVE  idle' \subseteq idle /\ \A v \in Workers : work'[v] \subseteq work[v]
  BY <1>9 DEF vars, redis, local
<1>10. \/ idle' \subseteq idle /\ \A v \in Workers : work'[v] \subseteq work[v]
       \/ \E w \in Workers : Claim(w) \/ ReadNew(w)
       \/ \E m \in pending : Age(m)
  BY <1>5, <1>6, <1>7, <1>8, <1>9 DEF Next, PollerStep, WorkerStep, Handle, Fault
<1> QED  BY <1>1, <1>2, <1>3, <1>4, <1>10

-----------------------------------------------------------------------------

LEMMA InitIInv == Init => IInv
BY DEF Init, IInv, NothingLost, AckReady, PublishedOnce, SoleAnnouncer, SoleHolder, HeldNotIdle, Ids, IsInjective,
       Range, DeadLettered

\* The inductive invariant behind the three safety properties below.
THEOREM Invariant == Spec => []IInv
<1>1. TypeOK /\ IInv /\ [Next]_vars => IInv'
  BY NothingLostStep, PublishedOnceStep, SoleHolderStep DEF IInv
<1> QED  BY <1>1, InitIInv, TypeCorrect, PTL DEF Spec

\* Whatever crashes, times out or is claimed twice, an entry that the cap did
\* not drop is undelivered, pending, or has an outcome.
THEOREM NoFilingLost == Spec => []NothingLost
BY Invariant, PTL DEF IInv

\* However many pollers race and restart, no accession is published twice.
THEOREM NoFilingTwice == Spec => []PublishedOnce
BY Invariant, PTL DEF IInv

\* When batches end within claim_idle_ms, no two workers hold the same entry.
THEOREM NoSharedEntry == Spec => []SoleHolder
BY Invariant, PTL DEF IInv

-----------------------------------------------------------------------------
(* The pipeline implements at-least-once delivery                          *)

Owed == pending \union (lastDelivered + 1 .. Len(stream))
Outstanding == {stream[m] : m \in Owed}
Expired == {stream[m] : m \in 1..trimmed}
mapped == <<Range(stream), Outstanding, Range(facts), DeadLettered, Expired>>

LEMMA OutsideTail ==
  ASSUME NEW a \in Int, NEW b \in Int, NEW m \in Int, m <= b, m \notin a + 1 .. b
  PROVE  m <= a
OBVIOUS

\* A step that adds no entry can only settle entries, and only those with an
\* outcome.
LEMMA SettleStep ==
  ASSUME TypeOK, AckReady, [Next]_vars, UNCHANGED <<stream, facts, dlq, trimmed>>, Owed' \subseteq Owed
  PROVE  Delivery!Settle
<1>1. ASSUME NEW m \in Owed, m \notin Owed'
      PROVE  stream[m] \in Range(facts) \union DeadLettered \union Expired
  <2>1. m \in Ids /\ m \in Ids' /\ m \in Int /\ lastDelivered' \in Int
    BY NextTypeOK, SMTT(30) DEF Owed, Ids, TypeOK
  <2>2. m <= lastDelivered' /\ m \notin pending'
    <3>1. Len(stream') = Len(stream) /\ Len(stream) \in Int /\ m <= Len(stream)
      BY <2>1 DEF Ids, TypeOK
    <3>2. m \notin pending' /\ m \notin lastDelivered' + 1 .. Len(stream)
      BY <1>1, <3>1 DEF Owed
    <3>3. m <= lastDelivered'
      BY <2>1, <3>1, <3>2, OutsideTail
    <3> QED  BY <3>2, <3>3
  <2>3. \/ m <= trimmed
        \/ m <= lastDelivered /\ m \notin pending
        \/ \E w \in Workers : Ack(w, m)
    BY <2>1, <2>2, PendingLeaves
  <2>4. CASE m <= trimmed
    BY <2>1, <2>4 DEF Expired, Ids, TypeOK
  <2>5. CASE m <= lastDelivered /\ m \notin pending
    BY <1>1, <2>1, <2>5 DEF Owed, TypeOK
  <2>6. CASE \E w \in Workers : Ack(w, m)
    BY <2>6 DEF AckReady, Ack, First
  <2> QED  BY <2>3, <2>4, <2>5, <2>6
<1>2. Outstanding' \subseteq Outstanding
  BY DEF Outstanding
<1>3. Outstanding \ Outstanding' \subseteq Range(facts) \union DeadLettered \union Expired
  BY <1>1 DEF Outstanding
<1>4. UNCHANGED <<Range(stream), Range(facts), DeadLettered, Expired>>
  BY DEF DeadLettered, Expired
<1> QED  BY <1>2, <1>3, <1>4 DEF Delivery!Settle, Outstanding, Owed, Expired

LEMMA PublishStep ==
  ASSUME TypeOK, SoleAnnouncer, NEW p \in Pollers, Announce(p), NEW f, f = announcing[p]
  PROVE  Delivery!Publish(f)
<1> DEFINE n == Len(stream)
<1>1. /\ f \in Filings /\ f \notin Range(stream)
      /\ stream' = Append(stream, f)
      /\ UNCHANGED <<lastDelivered, pending, facts, dlq>>
      /\ lastDelivered \in 0..n /\ pending \subseteq 1..lastDelivered
      /\ n \in Nat /\ trimmed \in 0..n
  BY DEF Announce, SoleAnnouncer, TypeOK
<1>2. /\ Len(stream') = n + 1 /\ stream'[n + 1] = f
      /\ \A i \in 1..n : stream'[i] = stream[i]
      /\ Range(stream') = Range(stream) \union {f}
  BY <1>1, AppendEntry, AppendRange DEF TypeOK
<1>3. trimmed' \in trimmed..n + 1
  BY <1>1 DEF Announce, Trim
<1> HIDE DEF n
<1>4. Owed' = Owed \union {n + 1} /\ Owed \subseteq 1..n
  <2>1. Owed' = pending \union (lastDelivered + 1 .. n + 1) /\ Owed = pending \union (lastDelivered + 1 .. n)
    BY <1>1, <1>2 DEF Owed, n
  <2>2. lastDelivered + 1 .. n + 1 = (lastDelivered + 1 .. n) \union {n + 1}
    BY <1>1
  <2> QED  BY <1>1, <2>1, <2>2
<1>5. Outstanding' = Outstanding \union {f}
  BY <1>2, <1>4 DEF Outstanding
<1>6. Expired \subseteq Expired'
  BY <1>1, <1>2, <1>3 DEF Expired
<1>7. DOMAIN stream' = 1..n + 1
  BY <1>1, AppendEntry DEF TypeOK, n
<1>8. Expired' \subseteq Range(stream')
  BY <1>1, <1>3, <1>7 DEF Expired, Range
<1>9. UNCHANGED <<Range(facts), DeadLettered>>
  BY <1>1 DEF DeadLettered
<1> QED
  BY <1>1, <1>2, <1>5, <1>6, <1>8, <1>9 DEF Delivery!Publish, Outstanding, Owed, Expired

LEMMA EmitStep ==
  ASSUME TypeOK, NEW w \in Workers, NEW m \in Ids, PublishFacts(w, m) \/ PublishFails(w, m)
  PROVE  Delivery!Emit(stream[m]) \/ UNCHANGED mapped
<1>1. /\ stream[m] \in Filings /\ stream[m] \in Range(stream)
      /\ facts \in Seq(Filings)
      /\ UNCHANGED <<stream, trimmed, lastDelivered, pending, dlq>>
      /\ facts' = facts \/ facts' = Append(facts, stream[m])
  BY DEF PublishFacts, PublishFails, TypeOK, Ids, Range
<1>2. UNCHANGED <<Range(stream), Outstanding, DeadLettered, Expired>>
  BY <1>1 DEF Outstanding, Owed, DeadLettered, Expired
<1>3. CASE facts' = facts
  BY <1>2, <1>3 DEF mapped
<1>4. CASE facts' = Append(facts, stream[m])
  <2>1. Range(facts') = Range(facts) \union {stream[m]}
    BY <1>1, <1>4, AppendRange
  <2> QED  BY <1>1, <1>2, <2>1 DEF Delivery!Emit, Outstanding, Owed, Expired
<1> QED  BY <1>1, <1>3, <1>4

LEMMA BuryStep ==
  ASSUME TypeOK, NEW w \in Workers, NEW m \in Ids, DeadLetter(w, m)
  PROVE  Delivery!Bury(stream[m])
<1> DEFINE e == [filing |-> stream[m], attempts |-> attempt[w]]
<1>1. /\ e \in [filing : Filings, attempts : 0..MaxCount] /\ dlq' = Append(dlq, e)
      /\ stream[m] \in Range(stream)
      /\ UNCHANGED <<stream, trimmed, lastDelivered, pending, facts>>
  BY DEF DeadLetter, TypeOK, Ids, Range
<1>2. DeadLettered' = DeadLettered \union {stream[m]}
  BY <1>1, RangeDeadLettered
<1>3. UNCHANGED <<Range(stream), Outstanding, Range(facts), Expired>>
  BY <1>1 DEF Outstanding, Owed, Expired
<1> QED  BY <1>1, <1>2, <1>3 DEF Delivery!Bury, Outstanding, Owed, Expired

LEMMA DeliveryStep ==
  ASSUME TypeOK, IInv, [Next]_vars
  PROVE  [Delivery!Next]_(Delivery!vars)
<1> SUFFICES Delivery!Next \/ UNCHANGED mapped
  BY DEF Delivery!vars, mapped, Outstanding, Owed, Expired
<1> USE DEF IInv
<1>1. ASSUME NEW p \in Pollers, Announce(p) PROVE Delivery!Next
  <2>1. PICK f \in Filings : f = announcing[p]
    BY <1>1 DEF Announce, TypeOK
  <2>2. Delivery!Publish(f)
    BY <1>1, <2>1, PublishStep
  <2> QED  BY <2>2 DEF Delivery!Next
<1>2. ASSUME NEW w \in Workers, NEW m \in Ids, PublishFacts(w, m) \/ PublishFails(w, m)
      PROVE  Delivery!Next \/ UNCHANGED mapped
  <2>1. stream[m] \in Filings
    BY DEF TypeOK, Ids
  <2> QED  BY <1>2, <2>1, EmitStep DEF Delivery!Next
<1>3. ASSUME NEW w \in Workers, NEW m \in Ids, DeadLetter(w, m) PROVE Delivery!Next
  <2>1. stream[m] \in Filings
    BY DEF TypeOK, Ids
  <2> QED  BY <1>3, <2>1, BuryStep DEF Delivery!Next
<1>4. ASSUME NEW w \in Workers, Claim(w) \/ ReadNew(w) \/ \E m \in Ids : Ack(w, m) PROVE Delivery!Next
  <2>1. UNCHANGED <<stream, facts, dlq, trimmed>>
    BY <1>4 DEF Claim, ReadNew, Ack
  <2>2. Owed' \subseteq Owed
    <3>1. CASE Claim(w)
      BY <3>1, <2>1 DEF Claim, Owed
    <3>2. CASE ReadNew(w)
      <4>0. NewIds \subseteq lastDelivered + 1 .. Len(stream) /\ NewIds \subseteq Int
        BY IngestAssumption, SMTT(30) DEF NewIds, Greater, Lesser, TypeOK
      <4>1. NewIds \subseteq lastDelivered + 1 .. Len(stream) /\ lastDelivered' >= lastDelivered
        BY <3>2, <4>0 DEF ReadNew, TypeOK
      <4>2. lastDelivered' \in Int /\ lastDelivered \in Int
        BY NextTypeOK DEF TypeOK
      <4> QED  BY <3>2, <2>1, <4>1, <4>2 DEF ReadNew, Owed, TypeOK
    <3>3. CASE \E m \in Ids : Ack(w, m)
      BY <3>3, <2>1 DEF Ack, Owed
    <3> QED  BY <1>4, <3>1, <3>2, <3>3
  <2> QED  BY <2>1, <2>2, SettleStep DEF Delivery!Next
<1>5. ASSUME UNCHANGED <<stream, facts, dlq, trimmed, lastDelivered, pending>> PROVE UNCHANGED mapped
  BY <1>5 DEF mapped, Outstanding, Owed, DeadLettered, Expired
<1>6. ASSUME NEW w \in Workers, NEW k \in Ids,
             Attempt(w, k) \/ SourceRaises(w, k) \/ ClearAttempts(w, k) \/ Killed(w, k)
      PROVE  UNCHANGED <<stream, facts, dlq, trimmed, lastDelivered, pending>>
  BY <1>6 DEF Attempt, SourceRaises, ClearAttempts, Killed, redis
<1>7. ASSUME NEW p \in Pollers, (\E f \in Filings : Mark(p, f)) \/ PollerFails(p)
      PROVE  UNCHANGED <<stream, facts, dlq, trimmed, lastDelivered, pending>>
  BY <1>7 DEF Mark, PollerFails, redis
<1>8. ASSUME (\E w \in Workers : Abandon(w)) \/ (\E k \in pending : Age(k)) \/ UNCHANGED vars
      PROVE  UNCHANGED <<stream, facts, dlq, trimmed, lastDelivered, pending>>
  BY <1>8 DEF Abandon, Age, vars, redis
<1> QED
  BY <1>1, <1>2, <1>3, <1>4, <1>5, <1>6, <1>7, <1>8 DEF Next, PollerStep, WorkerStep, Handle, Fault

\* Every behaviour of the pipeline is one of at-least-once delivery: a filing
\* stops being owed only with its facts broadcast, dead-lettered or dropped.
THEOREM ImplementsDelivery == Spec => DeliversAtLeastOnce
<1>1. Init => Delivery!Init
  BY DEF Init, Delivery!Init, Range, DeadLettered
<1>2. TypeOK /\ IInv /\ [Next]_vars => [Delivery!Next]_(Delivery!vars)
  BY DeliveryStep
<1> QED
  BY <1>1, <1>2, TypeCorrect, Invariant, PTL DEF Spec, Delivery!Spec, DeliversAtLeastOnce
-----------------------------------------------------------------------------
(* The attempt counter of a pending entry never goes back                  *)

\* The pending list grows by new deliveries alone.
LEMMA PendingGrows ==
  ASSUME TypeOK, [Next]_vars, NEW m \in pending', m \notin pending
  PROVE  m > lastDelivered
<1>1. ASSUME NEW w \in Workers, ReadNew(w) PROVE m > lastDelivered
  <2>1. \A k \in NewIds : k > lastDelivered
    BY DEF NewIds, Greater, TypeOK
  <2> QED  BY <1>1, <2>1 DEF ReadNew
<1>2. ASSUME pending' \subseteq pending PROVE FALSE
  BY <1>2
<1>3. ASSUME NEW w \in Workers, NEW k \in Ids,
             \/ Attempt(w, k) \/ PublishFacts(w, k) \/ SourceRaises(w, k) \/ DeadLetter(w, k)
             \/ Ack(w, k) \/ ClearAttempts(w, k) \/ Killed(w, k) \/ PublishFails(w, k)
      PROVE  pending' \subseteq pending
  BY <1>3 DEF Attempt, PublishFacts, SourceRaises, DeadLetter, Ack, ClearAttempts, Killed, PublishFails, redis
<1>4. ASSUME NEW p \in Pollers, (\E f \in Filings : Mark(p, f)) \/ Announce(p) \/ PollerFails(p)
      PROVE  pending' \subseteq pending
  BY <1>4 DEF Mark, Announce, PollerFails, redis
<1>5. ASSUME NEW w \in Workers, Claim(w) \/ Abandon(w) PROVE pending' \subseteq pending
  BY <1>5 DEF Claim, Abandon, redis
<1>6. ASSUME (\E k \in pending : Age(k)) \/ UNCHANGED vars PROVE pending' \subseteq pending
  BY <1>6 DEF Age, vars, redis
<1> QED
  BY <1>1, <1>2, <1>3, <1>4, <1>5, <1>6 DEF Next, PollerStep, WorkerStep, Handle, Fault

\* A worker comes to delete a counter only from its acknowledgement.
LEMMA HdelSource ==
  ASSUME TypeOK, [Next]_vars, NEW w \in Workers, pc'[w] = "hdel"
  PROVE  /\ work'[w] = work[w]
         /\ pc[w] = "hdel" \/ \E k \in Ids : Ack(w, k)
<1> DEFINE G == work'[w] = work[w] /\ (pc[w] = "hdel" \/ \E k \in Ids : Ack(w, k))
<1> SUFFICES G
  OBVIOUS
<1> USE DEF TypeOK
<1>1. ASSUME NEW v \in Workers, NEW k \in Ids, Ack(v, k) PROVE G
  BY <1>1 DEF Ack
<1>2. ASSUME NEW v \in Workers, NEW k \in Ids,
             \/ PublishFacts(v, k) \/ DeadLetter(v, k) \/ Attempt(v, k)
             \/ ClearAttempts(v, k) \/ Killed(v, k)
      PROVE  pc[w] = "hdel" /\ work'[w] = work[w]
  BY <1>2 DEF PublishFacts, AfterPublish, DeadLetter, Attempt, ClearAttempts, Killed, ForgetRound
<1>3. ASSUME NEW v \in Workers, NEW k \in Ids, SourceRaises(v, k) \/ PublishFails(v, k)
      PROVE  pc[w] = "hdel" /\ work'[w] = work[w]
  <2>1. GiveUpStep(v) \in {"dead_letter", "idle"}
    BY DEF GiveUpStep
  <2> QED  BY <1>3, <2>1 DEF SourceRaises, PublishFails, Except
<1>4. ASSUME NEW v \in Workers, Claim(v) \/ ReadNew(v) \/ Abandon(v)
      PROVE  pc[w] = "hdel" /\ work'[w] = work[w]
  BY <1>4 DEF Claim, ReadNew, Abandon, ForgetRound
<1>5. ASSUME NEW p \in Pollers, (\E f \in Filings : Mark(p, f)) \/ Announce(p) \/ PollerFails(p)
      PROVE  pc[w] = "hdel" /\ work'[w] = work[w]
  BY <1>5 DEF Mark, Announce, PollerFails, local
<1>6. ASSUME (\E m \in pending : Age(m)) \/ UNCHANGED vars
      PROVE  pc[w] = "hdel" /\ work'[w] = work[w]
  BY <1>6 DEF Age, vars, local
<1> QED
  BY <1>1, <1>2, <1>3, <1>4, <1>5, <1>6 DEF Next, PollerStep, WorkerStep, Handle, Fault

LEMMA AckedGoneStep ==
  ASSUME TypeOK, AckedGone, [Next]_vars
  PROVE  AckedGone'
<1> SUFFICES ASSUME NEW w \in Workers, NEW m \in work'[w], pc'[w] = "hdel", First(w, m)', m \in pending'
             PROVE  FALSE
  BY DEF AckedGone
<1>1. m \in work[w] /\ First(w, m) /\ m \in 1..lastDelivered /\ lastDelivered \in Nat
  BY HdelSource DEF First, TypeOK
<1>2. CASE pc[w] = "hdel"
  <2>1. m \notin pending
    BY <1>1, <1>2 DEF AckedGone
  <2> QED  BY <1>1, <2>1, PendingGrows
<1>3. ASSUME NEW k \in Ids, Ack(w, k) PROVE FALSE
  <2>1. k = m
    BY <1>1, <1>3 DEF Ack, First, TypeOK
  <2> QED  BY <1>3, <2>1 DEF Ack
<1> QED  BY <1>2, <1>3, HdelSource

\* Only HINCRBY and HDEL change the hash: one counts up to MaxCount, the other
\* takes an entry that is off the pending list.
LEMMA CounterStep ==
  ASSUME TypeOK, AckedGone, [Next]_vars, NEW m \in pending \intersect pending'
  PROVE  Count(m)' >= Count(m)
<1> USE DEF TypeOK
<1>1. Count(m) \in 0..MaxCount
  BY IngestAssumption DEF Count
<1>2. ASSUME NEW w \in Workers, NEW k \in Ids, Attempt(w, k)
      PROVE  Count(m)' >= Count(m)
  <2> DEFINE n == Lesser(Count(k) + 1, MaxCount)
  <2>1. /\ DOMAIN attempts' = DOMAIN attempts \union {k}
        /\ \A j \in DOMAIN attempts' : attempts'[j] = IF j = k THEN n ELSE attempts[j]
    BY <1>2 DEF Attempt
  <2>2. CASE m = k
    <3>1. Count(m)' = n
      BY <2>1, <2>2 DEF Count
    <3> QED  BY <1>1, <2>2, <3>1, IngestAssumption DEF Lesser
  <2>3. CASE m # k
    <3>1. Count(m)' = Count(m)
      BY <2>1, <2>3 DEF Count
    <3> QED  BY <1>1, <3>1
  <2> QED  BY <2>2, <2>3
<1>3. ASSUME NEW w \in Workers, NEW k \in Ids, ClearAttempts(w, k)
      PROVE  Count(m)' >= Count(m)
  <2>1. m # k
    BY <1>3 DEF ClearAttempts, AckedGone, First
  <2>2. /\ DOMAIN attempts' = DOMAIN attempts \ {k}
        /\ \A j \in DOMAIN attempts' : attempts'[j] = attempts[j]
    BY <1>3 DEF ClearAttempts, Restrict
  <2>3. Count(m)' = Count(m)
    BY <2>1, <2>2 DEF Count
  <2> QED  BY <1>1, <2>3
<1>4. ASSUME UNCHANGED attempts PROVE Count(m)' >= Count(m)
  BY <1>1, <1>4 DEF Count
<1>5. ASSUME NEW w \in Workers, NEW k \in Ids,
             \/ PublishFacts(w, k) \/ SourceRaises(w, k) \/ DeadLetter(w, k)
             \/ Ack(w, k) \/ Killed(w, k) \/ PublishFails(w, k)
      PROVE  UNCHANGED attempts
  BY <1>5 DEF PublishFacts, SourceRaises, DeadLetter, Ack, Killed, PublishFails, redis
<1>6. ASSUME NEW p \in Pollers, (\E f \in Filings : Mark(p, f)) \/ Announce(p) \/ PollerFails(p)
      PROVE  UNCHANGED attempts
  BY <1>6 DEF Mark, Announce, PollerFails, redis
<1>7. ASSUME NEW w \in Workers, Claim(w) \/ ReadNew(w) \/ Abandon(w) PROVE UNCHANGED attempts
  BY <1>7 DEF Claim, ReadNew, Abandon, redis
<1>8. ASSUME (\E k \in pending : Age(k)) \/ UNCHANGED vars PROVE UNCHANGED attempts
  BY <1>8 DEF Age, vars, redis
<1> QED
  BY <1>2, <1>3, <1>4, <1>5, <1>6, <1>7, <1>8 DEF Next, PollerStep, WorkerStep, Handle, Fault

LEMMA InitAckedGone == Init => AckedGone
BY DEF Init, AckedGone

\* An entry whose counter is about to go is off the pending list, also when it
\* was claimed from a slow worker meanwhile.
THEOREM AckedForGood == Spec => []AckedGone
BY InitAckedGone, AckedGoneStep, TypeCorrect, PTL DEF Spec

\* While an entry is pending its attempt counter never goes back, however many
\* workers share it, so a poison filing is given up in the end.
THEOREM CounterNeverFallsBack == Spec => CounterKeptWhilePending
<1>1. TypeOK /\ AckedGone /\ [Next]_vars => [\A m \in pending \intersect pending' : Count(m)' >= Count(m)]_vars
  BY CounterStep
<1> QED  BY <1>1, AckedForGood, TypeCorrect, PTL DEF Spec, CounterKeptWhilePending

-----------------------------------------------------------------------------
(* Only its poller's stop keeps a seen accession from the stream           *)

FewForgotten == IsFiniteSet(Forgotten) /\ Cardinality(Forgotten) <= stops

LEMMA FewForgottenStep ==
  ASSUME TypeOK, FewForgotten, [Next]_vars
  PROVE  FewForgotten'
<1> USE DEF TypeOK
<1>0. stops \in Nat /\ stops' \in Nat
  BY IngestAssumption, NextTypeOK, SMTT(30)
<1>1. ASSUME Forgotten' \subseteq Forgotten, stops' >= stops PROVE FewForgotten'
  <2>1. /\ IsFiniteSet(Forgotten') /\ Cardinality(Forgotten') <= Cardinality(Forgotten)
        /\ Cardinality(Forgotten) \in Nat /\ Cardinality(Forgotten') \in Nat
    BY <1>1, FS_Subset, FS_CardinalityType DEF FewForgotten
  <2> QED  BY <1>0, <1>1, <2>1 DEF FewForgotten
<1>2. ASSUME NEW p \in Pollers, NEW f \in Filings, Mark(p, f) PROVE FewForgotten'
  <2>1. /\ seen' = seen \union {f} /\ stream' = stream /\ stops' = stops
        /\ announcing[p] = NoFiling /\ f # NoFiling
        /\ \A q \in Pollers : announcing'[q] = IF q = p THEN f ELSE announcing[q]
    BY <1>2, IngestAssumption DEF Mark
  <2>2. Forgotten' \subseteq Forgotten
    BY <2>1, IngestAssumption DEF Forgotten
  <2> QED  BY <1>0, <1>1, <2>1, <2>2
<1>3. ASSUME NEW p \in Pollers, Announce(p) PROVE FewForgotten'
  <2> DEFINE f == announcing[p]
  <2>1. /\ f \in Filings /\ seen' = seen /\ stream' = Append(stream, f) /\ stops' = stops
        /\ \A q \in Pollers : announcing'[q] = IF q = p THEN NoFiling ELSE announcing[q]
    BY <1>3 DEF Announce
  <2>2. Range(stream') = Range(stream) \union {f}
    BY <2>1, AppendRange
  <2>3. Forgotten' \subseteq Forgotten
    BY <2>1, <2>2 DEF Forgotten
  <2> QED  BY <1>0, <1>1, <2>1, <2>3
<1>4. ASSUME NEW p \in Pollers, PollerFails(p) PROVE FewForgotten'
  <2> DEFINE f == announcing[p]
  <2>1. /\ seen' = seen /\ stream' = stream /\ stops' = stops + 1
        /\ \A q \in Pollers : announcing'[q] = IF q = p THEN NoFiling ELSE announcing[q]
    BY <1>4 DEF PollerFails, redis
  <2>2. Forgotten' \subseteq Forgotten \union {f}
    BY <2>1 DEF Forgotten
  <2>3. /\ IsFiniteSet(Forgotten \union {f}) /\ Cardinality(Forgotten) \in Nat
        /\ Cardinality(Forgotten \union {f}) <= Cardinality(Forgotten) + 1
        /\ Cardinality(Forgotten \union {f}) \in Nat
    <3>1. IsFiniteSet(Forgotten)
      BY DEF FewForgotten
    <3>2. Cardinality(Forgotten) \in Nat
      BY <3>1, FS_CardinalityType
    <3> HIDE DEF f, TypeOK
    <3>3. /\ IsFiniteSet(Forgotten \union {f})
          /\ Cardinality(Forgotten \union {f}) = IF f \in Forgotten THEN Cardinality(Forgotten)
                                                ELSE Cardinality(Forgotten) + 1
      BY <3>1, FS_AddElement
    <3> QED  BY <3>2, <3>3
  <2>4. /\ IsFiniteSet(Forgotten') /\ Cardinality(Forgotten') \in Nat
        /\ Cardinality(Forgotten') <= Cardinality(Forgotten \union {f})
    BY <2>2, <2>3, FS_Subset, FS_CardinalityType
  <2> QED  BY <1>0, <2>1, <2>3, <2>4 DEF FewForgotten
<1>5. ASSUME UNCHANGED <<seen, stream, announcing>>, stops' >= stops PROVE FewForgotten'
  BY <1>1, <1>5 DEF Forgotten
<1>6. ASSUME NEW w \in Workers, NEW k \in Ids,
             \/ Attempt(w, k) \/ PublishFacts(w, k) \/ SourceRaises(w, k) \/ DeadLetter(w, k)
             \/ Ack(w, k) \/ ClearAttempts(w, k) \/ Killed(w, k) \/ PublishFails(w, k)
      PROVE  UNCHANGED <<seen, stream, announcing>> /\ stops' >= stops
  BY <1>0, <1>6 DEF Attempt, PublishFacts, SourceRaises, DeadLetter, Ack, ClearAttempts, Killed, PublishFails, redis
<1>7. ASSUME NEW w \in Workers, Claim(w) \/ ReadNew(w) \/ Abandon(w)
      PROVE  UNCHANGED <<seen, stream, announcing>> /\ stops' >= stops
  BY <1>0, <1>7 DEF Claim, ReadNew, Abandon, redis
<1>8. ASSUME (\E k \in pending : Age(k)) \/ UNCHANGED vars
      PROVE  UNCHANGED <<seen, stream, announcing>> /\ stops' >= stops
  BY <1>0, <1>8 DEF Age, vars, redis
<1> QED
  BY <1>2, <1>3, <1>4, <1>5, <1>6, <1>7, <1>8 DEF Next, PollerStep, WorkerStep, Handle, Fault

LEMMA InitFewForgotten == Init => FewForgotten
<1> SUFFICES ASSUME Init PROVE FewForgotten
  OBVIOUS
<1>1. Forgotten = {} /\ stops = 0
  BY DEF Init, Forgotten
<1> QED  BY <1>1, FS_EmptySet DEF FewForgotten

\* However the pollers interleave and whatever happens to the workers, each filing
\* that is forgotten cost a poller a stop between SADD and XADD.
THEOREM FaultsForget == Spec => []LostOnlyByCrash
<1>1. FewForgotten => LostOnlyByCrash
  BY DEF FewForgotten, LostOnlyByCrash
<1> QED  BY <1>1, InitFewForgotten, FewForgottenStep, TypeCorrect, PTL DEF Spec

-----------------------------------------------------------------------------
(* One outcome for each filing                                             *)

\* What gives an entry an outcome; no other call does.
LEMMA OutcomeSource ==
  ASSUME TypeOK, [Next]_vars
  PROVE  \/ UNCHANGED <<facts, dlq>>
         \/ \E w \in Workers, k \in Ids : PublishFacts(w, k) \/ PublishFails(w, k) \/ DeadLetter(w, k)
<1>1. ASSUME NEW w \in Workers, NEW k \in Ids,
             Attempt(w, k) \/ SourceRaises(w, k) \/ Ack(w, k) \/ ClearAttempts(w, k) \/ Killed(w, k)
      PROVE  UNCHANGED <<facts, dlq>>
  BY <1>1 DEF Attempt, SourceRaises, Ack, ClearAttempts, Killed, redis
<1>2. ASSUME NEW p \in Pollers, (\E f \in Filings : Mark(p, f)) \/ Announce(p) \/ PollerFails(p)
      PROVE  UNCHANGED <<facts, dlq>>
  BY <1>2 DEF Mark, Announce, PollerFails, redis
<1>3. ASSUME NEW w \in Workers, Claim(w) \/ ReadNew(w) \/ Abandon(w) PROVE UNCHANGED <<facts, dlq>>
  BY <1>3 DEF Claim, ReadNew, Abandon, redis
<1>4. ASSUME (\E k \in pending : Age(k)) \/ UNCHANGED vars PROVE UNCHANGED <<facts, dlq>>
  BY <1>4 DEF Age, vars, redis
<1> QED  BY <1>1, <1>2, <1>3, <1>4 DEF Next, PollerStep, WorkerStep, Handle, Fault

\* ... and what it adds.
LEMMA OutcomeAdded ==
  ASSUME TypeOK, NEW w \in Workers, NEW k \in Ids
  PROVE  /\ PublishFacts(w, k) =>
              /\ Range(facts)' = Range(facts) \union {stream[k]} /\ DeadLettered' = DeadLettered
         /\ DeadLetter(w, k) =>
              /\ Range(facts)' = Range(facts) /\ DeadLettered' = DeadLettered \union {stream[k]}
         /\ PublishFails(w, k) =>
              /\ Range(facts)' \subseteq Range(facts) \union {stream[k]} /\ DeadLettered' = DeadLettered
<1>1. stream[k] \in Filings /\ facts \in Seq(Filings) /\ attempt[w] \in 0..MaxCount
  BY DEF TypeOK, Ids
<1>2. ASSUME PublishFacts(w, k)
      PROVE  Range(facts)' = Range(facts) \union {stream[k]} /\ DeadLettered' = DeadLettered
  BY <1>1, <1>2, AppendRange DEF PublishFacts, DeadLettered
<1>3. ASSUME DeadLetter(w, k)
      PROVE  Range(facts)' = Range(facts) /\ DeadLettered' = DeadLettered \union {stream[k]}
  <2> DEFINE e == [filing |-> stream[k], attempts |-> attempt[w]]
  <2>1. e \in [filing : Filings, attempts : 0..MaxCount] /\ dlq' = Append(dlq, e) /\ facts' = facts
    BY <1>1, <1>3 DEF DeadLetter
  <2>2. DeadLettered' = DeadLettered \union {e.filing}
    BY <2>1, RangeDeadLettered
  <2> QED  BY <2>1, <2>2
<1>4. ASSUME PublishFails(w, k)
      PROVE  Range(facts)' \subseteq Range(facts) \union {stream[k]} /\ DeadLettered' = DeadLettered
  <2>1. (facts' = facts \/ facts' = Append(facts, stream[k])) /\ dlq' = dlq
    BY <1>4 DEF PublishFails
  <2>2. Range(facts)' \subseteq Range(facts) \union {stream[k]}
    <3>1. CASE facts' = facts  BY <3>1
    <3>2. CASE facts' = Append(facts, stream[k])  BY <1>1, <3>2, AppendRange
    <3> QED  BY <2>1, <3>1, <3>2
  <2> QED  BY <2>1, <2>2 DEF DeadLettered
<1> QED  BY <1>2, <1>3, <1>4

LEMMA OutcomeOfEntryStep ==
  ASSUME TypeOK, OutcomeOfEntry, [Next]_vars
  PROVE  OutcomeOfEntry'
<1>1. Range(stream) \subseteq Range(stream)'
  <2>1. \A m \in Ids : m \in Ids' /\ stream'[m] = stream[m]
    BY Monotone
  <2>2. DOMAIN stream = Ids /\ DOMAIN stream' = Ids'
    BY NextTypeOK DEF TypeOK, Ids
  <2> QED  BY <2>1, <2>2 DEF Range
<1>2. \A k \in Ids : stream[k] \in Range(stream)
  BY DEF Ids, Range, TypeOK
<1>3. CASE UNCHANGED <<facts, dlq>>
  BY <1>1, <1>3 DEF OutcomeOfEntry, DeadLettered
<1>4. ASSUME NEW w \in Workers, NEW k \in Ids, PublishFacts(w, k) \/ PublishFails(w, k) \/ DeadLetter(w, k)
      PROVE  OutcomeOfEntry'
  <2>1. Range(facts)' \union DeadLettered' \subseteq Range(facts) \union DeadLettered \union {stream[k]}
    BY <1>4, OutcomeAdded
  <2> QED  BY <1>1, <1>2, <2>1 DEF OutcomeOfEntry
<1> QED  BY <1>3, <1>4, OutcomeSource

Fresh(k) == stream[k] \notin Range(facts) \union DeadLettered

\* A worker that handles an entry holds it without an outcome until it has one.
LEMMA HandledFresh ==
  ASSUME OutcomeHeld, Timely, faults = 0, NEW w \in Workers, NEW k \in Ids, k \in work[w],
         pc[w] \notin {"ack", "hdel"}
  PROVE  Fresh(k)
BY DEF OutcomeHeld, Fresh
\* The fault budget only grows: without a fault by now there was none, and the
\* step is not one.
LEMMA NoFaultYet ==
  ASSUME TypeOK, [Next]_vars, faults' = 0
  PROVE  /\ faults = 0
         /\ \/ \E p \in Pollers : PollerStep(p)
            \/ \E w \in Workers : WorkerStep(w)
            \/ \E k \in pending : Age(k)
            \/ UNCHANGED vars
<1>0. faults \in Nat
  BY IngestAssumption DEF TypeOK
<1>1. ASSUME Fault PROVE FALSE
  BY <1>0, <1>1 DEF Fault, PollerFails, Abandon, PublishFails
<1>2. ASSUME NEW p \in Pollers, PollerStep(p) PROVE faults' = faults
  BY <1>2 DEF PollerStep, Mark, Announce
<1>3. ASSUME NEW w \in Workers, WorkerStep(w) PROVE faults' = faults
  BY <1>3 DEF WorkerStep, Claim, ReadNew, Handle, Attempt, PublishFacts, SourceRaises, DeadLetter, Ack,
              ClearAttempts, Killed
<1>4. ASSUME (\E k \in pending : Age(k)) \/ UNCHANGED vars PROVE faults' = faults
  BY <1>4 DEF Age, vars
<1> QED  BY <1>1, <1>2, <1>3, <1>4 DEF Next

\* What OutcomeHeld says of an entry with an outcome.
Kept(m) ==
  /\ m <= lastDelivered
  /\ m \in pending => \E w \in Workers : m \in work[w]
  /\ \A w \in Workers : m \in work[w] => First(w, m) /\ pc[w] \in {"ack", "hdel"}

LEMMA KeptByOthers ==
  ASSUME NEW m, Kept(m), m <= lastDelivered', m \in pending' => m \in pending,
         \A v \in Workers : \/ work'[v] = work[v] /\ pc'[v] = pc[v]
                            \/ m \notin work'[v] /\ m \notin work[v]
  PROVE  Kept(m)'
BY DEF Kept, First

\* A worker's step keeps an entry that has its outcome: either the worker does
\* not hold it, or it is taking it off the list.
LEMMA KeptByWorker ==
  ASSUME TypeOK, Timely, HeldNotIdle, AckedGone, NEW m \in Ids, Kept(m), NEW w \in Workers, WorkerStep(w)
  PROVE  Kept(m)'
<1> USE DEF TypeOK
<1>0. m \in Int /\ lastDelivered \in Int /\ m <= lastDelivered
  BY DEF Ids, Kept
<1>1. CASE Claim(w)
  <2> DEFINE S == FirstBatch(Claimable) \ 1..trimmed
  <2>1. S \subseteq pending \intersect idle
    BY DEF FirstBatch, Claimable
  <2>2. /\ work[w] = {} /\ work' = [work EXCEPT ![w] = S] /\ pc' = pc
        /\ pending' \subseteq pending /\ lastDelivered' = lastDelivered
    BY <1>1 DEF Claim
  <2> HIDE DEF S
  <2>3. m \notin S
    BY <2>1 DEF Kept, HeldNotIdle
  <2>4. \A v \in Workers : \/ work'[v] = work[v] /\ pc'[v] = pc[v]
                           \/ m \notin work'[v] /\ m \notin work[v]
    BY <2>2, <2>3
  <2> QED  BY <1>0, <2>2, <2>4, KeptByOthers
<1>2. CASE ReadNew(w)
  <2>1. \A k \in NewIds : k \in Int /\ k > lastDelivered
    BY DEF NewIds, Greater
  <2>2. /\ work[w] = {} /\ work' = [work EXCEPT ![w] = NewIds] /\ pc' = pc
        /\ pending' = pending \union NewIds
        /\ lastDelivered' = lastDelivered \/ lastDelivered' \in NewIds
    BY <1>2 DEF ReadNew
  <2>3. m \notin NewIds
    BY <1>0, <2>1
  <2>4. m <= lastDelivered'
    BY <1>0, <2>1, <2>2
  <2>5. \A v \in Workers : \/ work'[v] = work[v] /\ pc'[v] = pc[v]
                           \/ m \notin work'[v] /\ m \notin work[v]
    BY <2>2, <2>3
  <2> QED  BY <2>2, <2>3, <2>4, <2>5, KeptByOthers
<1>3. ASSUME m \notin work[w], NEW k \in Ids, Handle(w, k) PROVE Kept(m)'
  <2>1. /\ lastDelivered' = lastDelivered /\ pending' \subseteq pending
        /\ \A v \in Workers : v # w => work'[v] = work[v] /\ pc'[v] = pc[v]
    BY <1>3 DEF Handle, Attempt, PublishFacts, SourceRaises, Except, DeadLetter, Ack, ClearAttempts, Killed,
                ForgetRound, redis
  <2>2. work'[w] \subseteq work[w]
    <3>1. CASE SourceRaises(w, k)
      BY <3>1 DEF SourceRaises, Except
    <3>2. CASE ~ SourceRaises(w, k)
      BY <1>3, <3>2 DEF Handle, Attempt, PublishFacts, DeadLetter, Ack, ClearAttempts, Killed, ForgetRound
    <3> QED  BY <3>1, <3>2
  <2>3. \A v \in Workers : \/ work'[v] = work[v] /\ pc'[v] = pc[v]
                           \/ m \notin work'[v] /\ m \notin work[v]
    BY <1>3, <2>1, <2>2
  <2> QED  BY <1>0, <2>1, <2>3, KeptByOthers
<1>4. ASSUME m \in work[w], NEW k \in Ids, Handle(w, k) PROVE Kept(m)'
  <2>1. First(w, m) /\ pc[w] \in {"ack", "hdel"}
    BY <1>4 DEF Kept
  <2>2. Ack(w, k) \/ ClearAttempts(w, k)
    BY <1>4, <2>1 DEF Handle, Attempt, PublishFacts, SourceRaises, DeadLetter, Killed
  <2>3. k = m
    BY <2>1, <2>2 DEF Ack, ClearAttempts, First, Ids
  <2>4. CASE Ack(w, m)
    <3>1. /\ lastDelivered' = lastDelivered /\ m \notin pending' /\ work' = work
          /\ pc'[w] = "hdel" /\ \A v \in Workers : v # w => pc'[v] = pc[v]
      BY <2>4 DEF Ack
    <3> QED  BY <2>1, <3>1 DEF Kept, First
  <2>5. CASE ClearAttempts(w, m)
    <3>1. /\ lastDelivered' = lastDelivered /\ pending' = pending /\ m \notin work'[w]
          /\ \A v \in Workers : v # w => work'[v] = work[v] /\ pc'[v] = pc[v]
      BY <2>5 DEF ClearAttempts
    <3>2. m \notin pending
      BY <2>5 DEF ClearAttempts, AckedGone, First
    <3> QED  BY <3>1, <3>2 DEF Kept, First
  <2> QED  BY <2>2, <2>3, <2>4, <2>5
<1> QED  BY <1>1, <1>2, <1>3, <1>4 DEF WorkerStep

\* An outcome is an old one, or the worker that holds the entry has just given it.
LEMMA OldOrNew ==
  ASSUME TypeOK, PublishedOnce, SoleAnnouncer, OutcomeOfEntry, [Next]_vars, faults' = 0,
         NEW m \in Ids', stream'[m] \in (Range(facts) \union DeadLettered)'
  PROVE  /\ m \in Ids
         /\ \/ stream[m] \in Range(facts) \union DeadLettered
            \/ \E w \in Workers : PublishFacts(w, m) \/ DeadLetter(w, m)
<1> DEFINE Outcome == Range(facts) \union DeadLettered
<1>1. /\ \A i \in Ids : i \in Ids' /\ stream'[i] = stream[i]
      /\ DOMAIN stream = Ids /\ DOMAIN stream' = Ids'
  <2>1. \A i \in Ids : i \in Ids' /\ stream'[i] = stream[i]
    BY Monotone
  <2>2. stream \in Seq(Filings) /\ stream' \in Seq(Filings)
    BY NextTypeOK DEF TypeOK
  <2>3. DOMAIN stream = Ids /\ DOMAIN stream' = Ids'
    BY <2>2 DEF Ids
  <2> QED  BY <2>1, <2>3
<1>2. \A i, j \in Ids' : stream'[i] = stream'[j] => i = j
  BY <1>1, PublishedOnceStep DEF PublishedOnce, IsInjective
<1>3. \/ UNCHANGED <<facts, dlq>>
      \/ \E w \in Workers, k \in Ids : PublishFacts(w, k) \/ DeadLetter(w, k)
  <2>1. \A w \in Workers, k \in Ids : ~ PublishFails(w, k)
    BY NoFaultYet, IngestAssumption DEF PublishFails, TypeOK
  <2> QED  BY <2>1, OutcomeSource
<1>4. CASE UNCHANGED <<facts, dlq>>
  <2>1. Outcome' = Outcome
    BY <1>4 DEF DeadLettered
  <2>2. PICK i \in Ids : stream[i] = stream'[m]
    BY <1>1, <2>1 DEF OutcomeOfEntry, Range
  <2> QED  BY <1>1, <1>2, <2>1, <2>2
<1>5. ASSUME NEW w \in Workers, NEW k \in Ids, PublishFacts(w, k) \/ DeadLetter(w, k),
             stream'[m] \notin Outcome
      PROVE  m = k
  <2>1. Outcome' = Outcome \union {stream[k]}
    BY <1>5, OutcomeAdded
  <2> QED  BY <1>1, <1>2, <1>5, <2>1
<1>6. CASE stream'[m] \in Outcome
  <2>1. PICK i \in Ids : stream[i] = stream'[m]
    BY <1>1, <1>6 DEF OutcomeOfEntry, Range
  <2> QED  BY <1>1, <1>2, <1>6, <2>1
<1> QED  BY <1>3, <1>4, <1>5, <1>6

LEMMA OutcomeHeldStep ==
  ASSUME TypeOK, IInv, AckedGone, OutcomeOfEntry, OutcomeHeld, [Next]_vars
  PROVE  OutcomeHeld'
<1> SUFFICES ASSUME Timely, faults' = 0, NEW m \in Ids', stream'[m] \in (Range(facts) \union DeadLettered)'
             PROVE  Kept(m)'
  BY DEF OutcomeHeld, Kept
<1> USE DEF IInv
<1>1. /\ faults = 0
      /\ \/ \E p \in Pollers : PollerStep(p)
         \/ \E w \in Workers : WorkerStep(w)
         \/ \E k \in pending : Age(k)
         \/ UNCHANGED vars
  BY NoFaultYet
<1>2. /\ m \in Ids
      /\ \/ stream[m] \in Range(facts) \union DeadLettered
         \/ \E w \in Workers : PublishFacts(w, m) \/ DeadLetter(w, m)
  BY OldOrNew
<1>3. CASE stream[m] \in Range(facts) \union DeadLettered
  <2>1. Kept(m)
    BY <1>1, <1>2, <1>3 DEF OutcomeHeld, Kept
  <2>2. ASSUME NEW w \in Workers, WorkerStep(w) PROVE Kept(m)'
    BY <1>2, <2>1, <2>2, KeptByWorker
  <2>3. ASSUME UNCHANGED <<lastDelivered, pending, work, pc>> PROVE Kept(m)'
    BY <2>1, <2>3, KeptByOthers DEF Kept
  <2>4. ASSUME NEW p \in Pollers, PollerStep(p) PROVE UNCHANGED <<lastDelivered, pending, work, pc>>
    BY <2>4 DEF PollerStep, Mark, Announce, local
  <2>5. ASSUME (\E k \in pending : Age(k)) \/ UNCHANGED vars PROVE UNCHANGED <<lastDelivered, pending, work, pc>>
    BY <2>5 DEF Age, vars, redis, local
  <2> QED  BY <1>1, <2>2, <2>3, <2>4, <2>5
<1>4. ASSUME NEW w \in Workers, PublishFacts(w, m) \/ DeadLetter(w, m) PROVE Kept(m)'
  <2>1. /\ First(w, m) /\ m \in work[w] /\ work' = work /\ pc'[w] = "ack"
        /\ lastDelivered' = lastDelivered
    BY <1>4 DEF PublishFacts, AfterPublish, DeadLetter, First, TypeOK
  <2>2. m <= lastDelivered
    BY <2>1 DEF TypeOK
  <2>3. \A v \in Workers : m \in work[v] => v = w
    BY <2>1 DEF SoleHolder
  <2> QED  BY <2>1, <2>2, <2>3 DEF Kept, First
<1> QED  BY <1>2, <1>3, <1>4

LEMMA OneOutcomeStep ==
  ASSUME TypeOK, OutcomeHeld, OneOutcome, [Next]_vars
  PROVE  OneOutcome'
<1> SUFFICES ASSUME Timely, faults' = 0 PROVE OneOutcome'
  BY DEF OneOutcome
<1> DEFINE Once == \A i, j \in DOMAIN dlq : dlq[i].filing = dlq[j].filing => i = j
<1>1. /\ faults = 0 /\ IsInjective(facts) /\ Once /\ Range(facts) \intersect DeadLettered = {}
  BY NoFaultYet DEF OneOutcome
<1>2. CASE UNCHANGED <<facts, dlq>>
  BY <1>1, <1>2 DEF OneOutcome, DeadLettered
<1>3. ASSUME NEW w \in Workers, NEW k \in Ids, PublishFacts(w, k) PROVE OneOutcome'
  <2>0. Fresh(k)
    BY <1>1, <1>3, HandledFresh DEF PublishFacts, First
  <2>1. Fresh(k) /\ facts' = Append(facts, stream[k]) /\ dlq' = dlq /\ stream[k] \in Filings
    BY <1>3, <2>0 DEF PublishFacts, TypeOK, Ids
  <2>2. Range(facts)' = Range(facts) \union {stream[k]} /\ DeadLettered' = DeadLettered
    BY <1>3, OutcomeAdded
  <2>3. /\ DOMAIN facts' = 1..Len(facts) + 1 /\ DOMAIN facts = 1..Len(facts) /\ Len(facts) \in Nat
        /\ facts'[Len(facts) + 1] = stream[k]
        /\ \A i \in 1..Len(facts) : facts'[i] = facts[i]
    BY <2>1, AppendEntry DEF TypeOK
  <2>4. \A i \in 1..Len(facts) : facts[i] # stream[k]
    BY <2>1, <2>3 DEF Fresh, Range
  <2>5. \A i, j \in 1..Len(facts) : facts[i] = facts[j] => i = j
    BY <1>1, <2>3 DEF IsInjective
  <2>6. IsInjective(facts')
    <3>0. DOMAIN facts' = 1..Len(facts) \union {Len(facts) + 1}
      BY <2>3
    <3>1. ASSUME NEW i \in DOMAIN facts', NEW j \in DOMAIN facts', facts'[i] = facts'[j] PROVE i = j
      BY <2>3, <2>4, <2>5, <3>0, <3>1
    <3> QED  BY <3>1 DEF IsInjective
  <2>7. Once' /\ (Range(facts) \intersect DeadLettered)' = {}
    BY <1>1, <2>1, <2>2 DEF Fresh
  <2> QED  BY <2>6, <2>7 DEF OneOutcome
<1>4. ASSUME NEW w \in Workers, NEW k \in Ids, DeadLetter(w, k) PROVE OneOutcome'
  <2> DEFINE e == [filing |-> stream[k], attempts |-> attempt[w]]
             R == [filing : Filings, attempts : 0..MaxCount]
  <2>1. Fresh(k) /\ facts' = facts /\ dlq' = Append(dlq, e) /\ e \in R /\ dlq \in Seq(R)
    BY <1>1, <1>4, HandledFresh DEF DeadLetter, First, TypeOK, Ids
  <2>2. DeadLettered' = DeadLettered \union {stream[k]}
    BY <1>4, OutcomeAdded
  <2>3. /\ DOMAIN dlq' = 1..Len(dlq) + 1 /\ DOMAIN dlq = 1..Len(dlq) /\ Len(dlq) \in Nat
        /\ dlq'[Len(dlq) + 1] = e
        /\ \A i \in 1..Len(dlq) : dlq'[i] = dlq[i]
    BY <2>1, AppendEntry
  <2>4. \A i \in 1..Len(dlq) : dlq[i].filing # e.filing
    BY <2>1, <2>3 DEF Fresh, DeadLettered
  <2>5. \A i, j \in 1..Len(dlq) : dlq[i].filing = dlq[j].filing => i = j
    BY <1>1, <2>3
  <2> HIDE DEF e
  <2>6. Once'
    <3>0. DOMAIN dlq' = 1..Len(dlq) \union {Len(dlq) + 1}
      BY <2>3
    <3>1. ASSUME NEW i \in DOMAIN dlq', NEW j \in DOMAIN dlq', dlq'[i].filing = dlq'[j].filing PROVE i = j
      BY <2>3, <2>4, <2>5, <3>0, <3>1
    <3> QED  BY <3>1
  <2>7. IsInjective(facts') /\ (Range(facts) \intersect DeadLettered)' = {}
    BY <1>1, <2>1, <2>2 DEF Fresh
  <2> QED  BY <2>6, <2>7 DEF OneOutcome
<1>5. \A w \in Workers, k \in Ids : ~ PublishFails(w, k)
  BY <1>1, IngestAssumption DEF PublishFails
<1> QED  BY <1>2, <1>3, <1>4, <1>5, OutcomeSource

LEMMA InitOutcomeInv == Init => OutcomeOfEntry /\ OutcomeHeld /\ OneOutcome
BY DEF Init, OutcomeOfEntry, OutcomeHeld, OneOutcome, Ids, Range, DeadLettered, IsInjective

\* The invariant behind OneOutcome: an outcome has a holder, who is about to take
\* the entry off the pending list, or the entry is off it.
THEOREM OutcomeInvariant == Spec => []OutcomeInv
<1>1. TypeOK /\ IInv /\ OutcomeInv /\ [Next]_vars => OutcomeInv'
  BY AckedGoneStep, OutcomeOfEntryStep, OutcomeHeldStep, OneOutcomeStep DEF OutcomeInv
<1>2. Init => OutcomeInv
  BY InitAckedGone, InitOutcomeInv DEF OutcomeInv
<1> QED  BY <1>1, <1>2, TypeCorrect, Invariant, PTL DEF Spec

\* With timely workers and no fault, a filing is broadcast once or dead-lettered
\* once, however claims and reads interleave.
THEOREM ExactlyOneOutcome == Spec => []OneOutcome
BY OutcomeInvariant, PTL DEF OutcomeInv
=============================================================================
