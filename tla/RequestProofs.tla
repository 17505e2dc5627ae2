---------------------------- MODULE RequestProofs ---------------------------
(***************************************************************************)
(* Theorems about what surrounds an answer: the rate limit of RateLimiter, *)
(* and the audit row and the spans of AskService, for any number of        *)
(* replicas, requests and probes, any limit and any pool of threads.       *)
(***************************************************************************)
EXTENDS AskService, RateLimiter, TLAPS

-----------------------------------------------------------------------------
(* The rate limit                                                          *)

LEMMA KeyType ==
  ASSUME LimiterTypeOK, NEW q \in Requests
  PROVE  /\ KeyOf(q) \in Keys
         /\ KeyOf(q)[1] = Store(q) /\ KeyOf(q)[3] = window[q]
BY LimiterAssumption, ThreadsAssumption DEF LimiterTypeOK, KeyOf, Keys, Store, Threads

LEMMA LimiterInitType == LimiterInit => LimiterTypeOK
<1> SUFFICES ASSUME LimiterInit PROVE LimiterTypeOK
  OBVIOUS
<1>1. 0 \in 0..MaxWindow /\ 0 \in 0..MaxErrors /\ 0 \in Nat
  BY LimiterAssumption
<1>2. /\ counts \in [Keys -> Nat] /\ admitted \in [Keys -> Nat]
      /\ window \in [Requests -> 0..MaxWindow]
  BY <1>1 DEF LimiterInit
<1> QED  BY <1>1, <1>2 DEF LimiterInit, LimiterTypeOK, Verdicts

LEMMA LimiterNextType == LimiterTypeOK /\ [LimiterNext]_limiterVars => LimiterTypeOK'
<1> SUFFICES ASSUME LimiterTypeOK, [LimiterNext]_limiterVars PROVE LimiterTypeOK'
  OBVIOUS
<1> USE LimiterAssumption DEF LimiterTypeOK, Verdicts
<1>1. ASSUME NEW q \in Requests, ReadClock(q) PROVE LimiterTypeOK'
  BY <1>1 DEF ReadClock, WindowNow
<1>2. ASSUME NEW q \in Requests, NEW ok \in BOOLEAN, Decide(q, ok)
      PROVE  /\ verdict' \in [Requests -> Verdicts]
             /\ admitted' \in [Keys -> Nat]
             /\ late' \in BOOLEAN
  <2>1. KeyOf(q) \in Keys
    BY KeyType
  <2>2. admitted[KeyOf(q)] \in Nat
    BY <2>1
  <2> QED  BY <1>2, <2>1, <2>2 DEF Decide
<1>3. ASSUME NEW q \in Requests, HitMemory(q) PROVE LimiterTypeOK'
  <2>1. counts' \in [Keys -> Nat]
    BY <1>3 DEF HitMemory
  <2>2. Allowed(counts[KeyOf(q)] + 1) \in BOOLEAN
    BY DEF Allowed
  <2> QED  BY <1>2, <1>3, <2>1, <2>2 DEF HitMemory
<1>4. ASSUME NEW q \in Requests, HitRedis(q) PROVE LimiterTypeOK'
  <2>1. KeyOf(q) \in Keys /\ counts[KeyOf(q)] \in Nat
    BY KeyType
  <2>2. counts' \in [Keys -> Nat]
    BY <1>4, <2>1 DEF HitRedis
  <2>3. Allowed(counts[KeyOf(q)] + 1) \in BOOLEAN
    BY DEF Allowed
  <2> QED  BY <1>2, <1>4, <2>2, <2>3 DEF HitRedis
<1>5. ASSUME NEW q \in Requests, FailOpen(q) PROVE LimiterTypeOK'
  <2>1. KeyOf(q) \in Keys /\ counts[KeyOf(q)] \in Nat
    BY KeyType
  <2>2. counts' \in [Keys -> Nat] /\ errors' \in 0..MaxErrors
    BY <1>5, <2>1 DEF FailOpen
  <2> QED  BY <1>2, <1>5, <2>2 DEF FailOpen
<1>6. ASSUME Tick PROVE LimiterTypeOK'
  BY <1>6 DEF Tick
<1>7. CASE UNCHANGED limiterVars
  BY <1>7 DEF limiterVars
<1> QED  BY <1>1, <1>3, <1>4, <1>5, <1>6, <1>7 DEF LimiterNext, Hit

\* The counters and requests of the limiter keep their types.
THEOREM LimiterTypeCorrect == LimiterSpec => []LimiterTypeOK
BY LimiterInitType, LimiterNextType, PTL DEF LimiterSpec

\* A counter counts the requests it let through, until the limit is reached.
CountsAdmitted == \A k \in Keys : counts[k] <= admitted[k] \/ admitted[k] >= Limit

LEMMA DenialStep ==
  ASSUME LimiterTypeOK, CountsAdmitted, NoEarlyDenial, [LimiterNext]_limiterVars
  PROVE  CountsAdmitted' /\ NoEarlyDenial'
<1> DEFINE G == CountsAdmitted' /\ NoEarlyDenial'
<1> USE LimiterAssumption DEF LimiterTypeOK
<1>1. \A q \in Requests : KeyOf(q) \in Keys
  BY KeyType
<1>2. ASSUME NEW q \in Requests, ReadClock(q) PROVE G
  <2>1. CountsAdmitted'
    BY <1>2 DEF ReadClock, CountsAdmitted
  <2>2. \A p \in Requests : verdict'[p] = "denied" => p # q
    BY <1>2 DEF ReadClock
  <2>3. \A p \in Requests : p # q => KeyOf(p)' = KeyOf(p) /\ verdict'[p] = verdict[p]
    BY <1>2 DEF ReadClock, KeyOf, Store
  <2>4. admitted' = admitted
    BY <1>2 DEF ReadClock
  <2> QED  BY <2>1, <2>2, <2>3, <2>4 DEF NoEarlyDenial
<1>3. ASSUME NEW q \in Requests, NEW ok \in BOOLEAN, Decide(q, ok), UNCHANGED <<withRedis, window>>,
             \A k \in Keys : k # KeyOf(q) => counts'[k] \in {counts[k], 0},
             counts'[KeyOf(q)] <= counts[KeyOf(q)] + 1, counts'[KeyOf(q)] \in Nat,
             ok \/ counts[KeyOf(q)] >= Limit
      PROVE  G
  <2> DEFINE K == KeyOf(q)
  <2>1. /\ K \in Keys
        /\ \A k \in Keys : admitted'[k] = IF k = K /\ ok THEN admitted[k] + 1 ELSE admitted[k]
        /\ verdict' = [verdict EXCEPT ![q] = IF ok THEN "allowed" ELSE "denied"]
    BY <1>1, <1>3 DEF Decide
  <2>2. ~ok => admitted[K] >= Limit
    BY <1>3, <2>1 DEF CountsAdmitted
  <2>3. \A p \in Requests : KeyOf(p)' = KeyOf(p)
    BY <1>3 DEF KeyOf, Store
  <2> HIDE DEF K
  <2>4. K = KeyOf(q)
    BY DEF K
  <2>5. CountsAdmitted'
    <3> SUFFICES ASSUME NEW k \in Keys PROVE (counts[k] <= admitted[k] \/ admitted[k] >= Limit)'
      BY DEF CountsAdmitted
    <3>0. counts[k] <= admitted[k] \/ admitted[k] >= Limit
      BY DEF CountsAdmitted
    <3>1. counts[k] \in Nat /\ admitted[k] \in Nat
      OBVIOUS
    <3>2. CASE k = K
      BY <1>3, <2>1, <2>2, <2>4, <3>0, <3>1, <3>2
    <3>3. CASE k # K
      <4>1. counts'[k] = counts[k] \/ counts'[k] = 0
        BY <1>3, <2>4, <3>3
      <4> QED  BY <2>1, <3>0, <3>1, <3>3, <4>1
    <3> QED  BY <3>2, <3>3
  <2>6. NoEarlyDenial'
    <3> SUFFICES ASSUME NEW p \in Requests, verdict'[p] = "denied" PROVE admitted'[KeyOf(p)] >= Limit
      BY <2>3 DEF NoEarlyDenial
    <3>1. admitted'[KeyOf(p)] >= admitted[KeyOf(p)] /\ admitted[KeyOf(p)] \in Nat /\ admitted'[KeyOf(p)] \in Nat
      BY <1>1, <2>1
    <3>2. CASE p = q
      BY <2>1, <2>2, <2>4, <3>1, <3>2
    <3>3. CASE p # q
      <4>1. verdict[p] = "denied"
        BY <2>1, <3>3
      <4> QED  BY <3>1, <4>1 DEF NoEarlyDenial
    <3> QED  BY <3>2, <3>3
  <2> QED  BY <2>5, <2>6
<1>4. ASSUME NEW q \in Requests, HitMemory(q) PROVE G
  <2> DEFINE ok == Allowed(counts[KeyOf(q)] + 1)
  <2>1. counts[KeyOf(q)] \in Nat /\ ok \in BOOLEAN /\ (ok \/ counts[KeyOf(q)] >= Limit)
    BY <1>1 DEF Allowed
  <2>2. Decide(q, ok) /\ UNCHANGED <<withRedis, window>>
    BY <1>4 DEF HitMemory
  <2>3. \A k \in Keys : counts'[k] = IF k = KeyOf(q) THEN counts[k] + 1 ELSE IF Kept(k, q) THEN counts[k] ELSE 0
    BY <1>4 DEF HitMemory
  <2> HIDE DEF ok
  <2>4. counts'[KeyOf(q)] = counts[KeyOf(q)] + 1
    BY <1>1, <2>3
  <2> QED  BY <1>3, <2>1, <2>2, <2>3, <2>4
<1>5. ASSUME NEW q \in Requests, HitRedis(q) PROVE G
  <2> DEFINE ok == Allowed(counts[KeyOf(q)] + 1)
  <2>1. counts[KeyOf(q)] \in Nat /\ ok \in BOOLEAN /\ (ok \/ counts[KeyOf(q)] >= Limit)
    BY <1>1 DEF Allowed
  <2>2. Decide(q, ok) /\ UNCHANGED <<withRedis, window>>
    BY <1>5 DEF HitRedis
  <2>3. \A k \in Keys : counts'[k] = IF k = KeyOf(q) THEN counts[k] + 1 ELSE counts[k]
    BY <1>5 DEF HitRedis
  <2> HIDE DEF ok
  <2>4. counts'[KeyOf(q)] = counts[KeyOf(q)] + 1
    BY <1>1, <2>3
  <2> QED  BY <1>3, <2>1, <2>2, <2>3, <2>4
<1>6. ASSUME NEW q \in Requests, FailOpen(q) PROVE G
  <2> DEFINE ok == TRUE
  <2>1. counts[KeyOf(q)] \in Nat /\ ok \in BOOLEAN /\ ok
    BY <1>1
  <2>2. Decide(q, ok) /\ UNCHANGED <<withRedis, window>>
    BY <1>6 DEF FailOpen
  <2>3. /\ \A k \in Keys : k # KeyOf(q) => counts'[k] = counts[k]
        /\ counts'[KeyOf(q)] \in {counts[KeyOf(q)], counts[KeyOf(q)] + 1}
    BY <1>1, <1>6 DEF FailOpen
  <2> HIDE DEF ok
  <2>4. counts'[KeyOf(q)] <= counts[KeyOf(q)] + 1 /\ counts'[KeyOf(q)] \in Nat
    BY <2>1, <2>3
  <2> QED  BY <1>3, <2>1, <2>2, <2>3, <2>4
<1>7. ASSUME Tick PROVE G
  BY <1>7 DEF Tick, CountsAdmitted, NoEarlyDenial, KeyOf, Store
<1>8. CASE UNCHANGED limiterVars
  BY <1>8 DEF limiterVars, CountsAdmitted, NoEarlyDenial, KeyOf, Store
<1> QED  BY <1>2, <1>4, <1>5, <1>6, <1>7, <1>8 DEF LimiterNext, Hit

\* Whatever errors and late requests there were, no caller is turned away
\* before the limit of its window was used up.
THEOREM NeverDeniedEarly == LimiterSpec => []NoEarlyDenial
<1>1. LimiterInit => CountsAdmitted /\ NoEarlyDenial
  BY LimiterAssumption DEF LimiterInit, CountsAdmitted, NoEarlyDenial
<1> QED  BY <1>1, DenialStep, LimiterTypeCorrect, PTL DEF LimiterSpec

\* A request is late by one window at most.
BarelyLate == \A q \in Requests : verdict[q] = "reading" => window[q] <= clock /\ clock <= window[q] + 1

\* The counters that may be hit again: in memory those of this window, in Redis
\* those of the last one too.
Live(k) == IF withRedis THEN k[3] + 1 >= clock ELSE k[3] >= clock

Exact == IF withRedis THEN errors = 0 ELSE ~late

\* While the limiter counts exactly, a live counter has counted whatever it
\* let through.
AdmittedCounted ==
  Exact => \A k \in Keys : admitted[k] <= Limit /\ (Live(k) => admitted[k] <= counts[k])

LEMMA LimitStep ==
  ASSUME LimiterTypeOK, BarelyLate, AdmittedCounted, [LimiterNext]_limiterVars
  PROVE  BarelyLate' /\ AdmittedCounted'
<1> USE LimiterAssumption DEF LimiterTypeOK
<1>0. \A k \in Keys : k[3] \in 0..MaxWindow /\ admitted[k] \in Nat /\ counts[k] \in Nat
  BY DEF Keys
<1>1. \A q \in Requests : KeyOf(q) \in Keys /\ KeyOf(q)[1] = Store(q) /\ KeyOf(q)[3] = window[q]
  BY KeyType
<1>2. BarelyLate'
  <2>1. ASSUME NEW q \in Requests, ReadClock(q) PROVE BarelyLate'
    BY <2>1 DEF ReadClock, WindowNow, BarelyLate
  <2>2. ASSUME NEW q \in Requests, HitMemory(q) \/ HitRedis(q) \/ FailOpen(q) PROVE BarelyLate'
    BY <2>2 DEF HitMemory, HitRedis, FailOpen, Decide, BarelyLate
  <2>3. ASSUME Tick PROVE BarelyLate'
    BY <2>3 DEF Tick, BarelyLate
  <2>4. CASE UNCHANGED limiterVars
    BY <2>4 DEF limiterVars, BarelyLate
  <2> QED  BY <2>1, <2>2, <2>3, <2>4 DEF LimiterNext, Hit
<1>3. AdmittedCounted'
  <2> SUFFICES ASSUME Exact'
               PROVE  \A k \in Keys : admitted'[k] <= Limit /\ (Live(k)' => admitted'[k] <= counts'[k])
    BY DEF AdmittedCounted
  <2>1. ASSUME NEW q \in Requests, HitMemory(q)
        PROVE  \A k \in Keys : admitted'[k] <= Limit /\ (Live(k)' => admitted'[k] <= counts'[k])
    <3> SUFFICES ASSUME NEW k \in Keys
                 PROVE  admitted'[k] <= Limit /\ (Live(k)' => admitted'[k] <= counts'[k])
      OBVIOUS
    <3>1. ~withRedis /\ withRedis' = withRedis /\ clock' = clock /\ late' = (late \/ window[q] < clock)
      BY <2>1 DEF HitMemory, Decide
    <3>2. Exact /\ window[q] >= clock /\ Live(k)' = Live(k)
      <4>1. ~late'
        BY <3>1 DEF Exact
      <4> HIDE DEF LimiterTypeOK
      <4>2. ~late /\ ~(window[q] < clock)
        BY <3>1, <4>1, Zenon
      <4>3. window[q] \in Int /\ clock \in Int
        BY DEF LimiterTypeOK
      <4>4. window[q] >= clock
        BY <4>2, <4>3
      <4>5. Exact
        BY <3>1, <4>2, Zenon DEF Exact
      <4>6. Live(k)' = Live(k)
        BY <3>1, Zenon DEF Live
      <4> QED  BY <4>4, <4>5, <4>6
    <3>3. window[q] = clock
      BY <2>1, <3>2 DEF BarelyLate, HitMemory
    <3>4. admitted[k] <= Limit /\ (Live(k) => admitted[k] <= counts[k])
      BY <3>2 DEF AdmittedCounted
    <3>5. CASE k = KeyOf(q)
      <4>1. /\ counts'[k] = counts[k] + 1
            /\ admitted'[k] = IF Allowed(counts[k] + 1) THEN admitted[k] + 1 ELSE admitted[k]
        BY <2>1, <3>5 DEF HitMemory, Decide
      <4>2. Live(k)
        BY <1>1, <3>1, <3>3, <3>5 DEF Live
      <4> QED  BY <1>0, <3>4, <4>1, <4>2 DEF Allowed
    <3>6. CASE k # KeyOf(q)
      <4>1. admitted'[k] = admitted[k]
        BY <1>1, <2>1, <3>6 DEF HitMemory, Decide
      <4>2. Live(k) => counts'[k] = counts[k]
        BY <2>1, <3>1, <3>3, <3>6 DEF HitMemory, Kept, Live
      <4> QED  BY <3>2, <3>4, <4>1, <4>2
    <3> QED  BY <3>5, <3>6
  <2>2. ASSUME NEW q \in Requests, HitRedis(q)
        PROVE  \A k \in Keys : admitted'[k] <= Limit /\ (Live(k)' => admitted'[k] <= counts'[k])
    <3> SUFFICES ASSUME NEW k \in Keys
                 PROVE  admitted'[k] <= Limit /\ (Live(k)' => admitted'[k] <= counts'[k])
      OBVIOUS
    <3>1. withRedis /\ withRedis' = withRedis /\ clock' = clock /\ errors' = errors
      BY <2>2 DEF HitRedis
    <3>2. Exact /\ Live(k)' = Live(k)
      BY <3>1 DEF Exact, Live
    <3>3. clock <= window[q] + 1
      BY <2>2 DEF BarelyLate, HitRedis
    <3>4. admitted[k] <= Limit /\ (Live(k) => admitted[k] <= counts[k])
      BY <3>2 DEF AdmittedCounted
    <3>5. CASE k = KeyOf(q)
      <4>1. /\ counts'[k] = counts[k] + 1
            /\ admitted'[k] = IF Allowed(counts[k] + 1) THEN admitted[k] + 1 ELSE admitted[k]
        BY <2>2, <3>5 DEF HitRedis, Decide
      <4>2. Live(k)
        BY <1>1, <3>1, <3>3, <3>5 DEF Live
      <4> QED  BY <1>0, <3>4, <4>1, <4>2 DEF Allowed
    <3>6. CASE k # KeyOf(q)
      <4>1. admitted'[k] = admitted[k] /\ counts'[k] = counts[k]
        BY <1>1, <2>2, <3>6 DEF HitRedis, Decide
      <4> QED  BY <3>2, <3>4, <4>1
    <3> QED  BY <3>5, <3>6
  <2>3. ASSUME NEW q \in Requests, FailOpen(q) PROVE FALSE
    BY <2>3 DEF FailOpen, Exact
  <2>4. ASSUME Tick
        PROVE  \A k \in Keys : admitted'[k] <= Limit /\ (Live(k)' => admitted'[k] <= counts'[k])
    <3> SUFFICES ASSUME NEW k \in Keys
                 PROVE  admitted'[k] <= Limit /\ (Live(k)' => admitted'[k] <= counts'[k])
      OBVIOUS
    <3>1. /\ UNCHANGED <<withRedis, late, errors, admitted>> /\ clock' = clock + 1
          /\ counts'[k] = IF k[1] = Redis /\ k[3] + 2 <= clock THEN 0 ELSE counts[k]
      BY <2>4 DEF Tick
    <3>2. Exact
      BY <3>1 DEF Exact
    <3>3. Live(k)' => Live(k) /\ ~(k[3] + 2 <= clock)
      BY <1>0, <3>1 DEF Live
    <3> QED  BY <3>1, <3>2, <3>3 DEF AdmittedCounted
  <2>5. ASSUME (\E q \in Requests : ReadClock(q)) \/ UNCHANGED limiterVars
        PROVE  \A k \in Keys : admitted'[k] <= Limit /\ (Live(k)' => admitted'[k] <= counts'[k])
    <3>1. UNCHANGED <<withRedis, clock, late, errors, admitted, counts>>
      BY <2>5 DEF ReadClock, limiterVars
    <3>2. Exact /\ \A k \in Keys : Live(k)' = Live(k)
      BY <3>1 DEF Exact, Live
    <3> QED  BY <3>1, <3>2 DEF AdmittedCounted
  <2> QED  BY <2>1, <2>2, <2>3, <2>4, <2>5 DEF LimiterNext, Hit
<1> QED  BY <1>2, <1>3

\* No caller gets more than the limit of a window through, with Redis as long as
\* it answers, in memory as long as no request counts itself after its window.
THEOREM LimitHolds == LimiterSpec => []WindowLimit
<1>1. LimiterInit => BarelyLate /\ AdmittedCounted
  BY LimiterAssumption DEF LimiterInit, BarelyLate, AdmittedCounted
<1>2. AdmittedCounted => WindowLimit
  BY DEF AdmittedCounted, WindowLimit, Exact
<1> QED  BY <1>1, <1>2, LimitStep, LimiterTypeCorrect, PTL DEF LimiterSpec
-----------------------------------------------------------------------------
(* Types of a request's surroundings                                       *)

\* What a request may rely on where it is: nothing was done before the graph,
\* the graph has nodes left, a span has a trace, and the audit call begins when
\* the answer is there and is over when the response is out.
Progress ==
  \A q \in Requests :
    /\ step[q] \in {"auth", "guard"} => done[q] = 0 /\ outcome[q] = "none"
    /\ step[q] = "graph" => done[q] < Nodes
    /\ step[q] \in {"graph", "root", "pop"} => traceOf[q] \in Traces
    /\ step[q] \in {"auth", "guard", "graph", "root", "pop"} => call[q] = "none"
    /\ step[q] = "respond" /\ outcome[q] # "none" => call[q] \in {"done", "failed"}

\* A call of the audit sink, its beginning included.
AuditMove(t) ==
  \/ AuditCall(t) \/ DbFails(t)
  \/ BeginAudit(t) /\ UNCHANGED <<ready, initLock, advisory, table, rows, dbErrors>>

LEMMA AuditMoves ==
  ASSUME [Next]_vars
  PROVE  UNCHANGED auditVars \/ \E t \in Threads : AuditMove(t)
<1>1. ASSUME NEW t \in Threads, Audit(t) PROVE AuditMove(t)
  BY <1>1 DEF Audit, AuditMove
<1>2. ASSUME NEW q \in Requests, Blocked(q) \/ FromCache(q) \/ TakeTrace(q) PROVE AuditMove(q)
  BY <1>2 DEF Blocked, FromCache, Early, TakeTrace, AuditMove
<1>3. ASSUME NEW q \in Requests, RootEnds(q) PROVE AuditMove(q) \/ UNCHANGED auditVars
  BY <1>3 DEF RootEnds, AuditMove, auditVars
<1>4. ASSUME NEW q \in Requests,
             \/ Authenticate(q) \/ Denied(q) \/ (\E t \in Traces : StartGraph(q, t)) \/ NodeEnds(q)
             \/ AuditOver(q) \/ ServerSpanEnds(q)
      PROVE  UNCHANGED auditVars
  BY <1>4 DEF Authenticate, Denied, StartGraph, NodeEnds, AuditOver, ServerSpanEnds
<1>5. ASSUME NEW p \in Probes, Probe(p) PROVE AuditMove(p)
  BY <1>5 DEF Probe, AuditMove
<1>6. ASSUME AllOver \/ UNCHANGED vars PROVE UNCHANGED auditVars
  BY <1>6 DEF AllOver, vars
<1> QED  BY <1>1, <1>2, <1>3, <1>4, <1>5, <1>6 DEF Next, Serve, Threads

LEMMA AuditTypeStep ==
  ASSUME AuditTypeOK, [Next]_vars
  PROVE  AuditTypeOK'
<1> USE AuditAssumption, ThreadsAssumption DEF AuditTypeOK, Calls
<1>1. ASSUME NEW t \in Threads, AuditMove(t) PROVE AuditTypeOK'
  <2>0. At[t] \in Replicas
    OBVIOUS
  <2>1. CASE Check(t)
    BY <2>0, <2>1 DEF Check, Goes
  <2>2. CASE Lock(t)
    BY <2>0, <2>2 DEF Lock, Goes
  <2>3. CASE TakeAdvisory(t)
    BY <2>3 DEF TakeAdvisory, Goes
  <2>4. ASSUME ReleaseLocks(t)
        PROVE  advisory' \in Threads \union {NoThread} /\ initLock' \in [Replicas -> Threads \union {NoThread}]
    BY <2>0, <2>4 DEF ReleaseLocks, Released
  <2>5. CASE FindTable(t)
    BY <2>0, <2>4, <2>5 DEF FindTable, Goes
  <2>6. CASE MissTable(t)
    BY <2>6 DEF MissTable, Goes
  <2>7. ASSUME Raise(t)
        PROVE  /\ call' \in [Threads -> Calls] /\ ready' \in [Replicas -> BOOLEAN]
               /\ advisory' \in Threads \union {NoThread} /\ initLock' \in [Replicas -> Threads \union {NoThread}]
    BY <2>0, <2>4, <2>7 DEF Raise, ReadyAfterRaise
  <2>8. CASE CreateTable(t)
    <3>1. CASE Raise(t)
      BY <2>7, <2>8, <3>1 DEF CreateTable
    <3>2. CASE ~Raise(t)
      BY <2>0, <2>4, <2>8, <3>2 DEF CreateTable, Goes
    <3> QED  BY <3>1, <3>2
  <2>9. CASE Insert(t)
    BY <2>9 DEF Insert, Goes
  <2>10. CASE DbFails(t)
    <3>1. rows' \in [Requests -> Nat]
      BY <2>10 DEF DbFails
    <3>2. table' \in BOOLEAN
      BY <2>10 DEF DbFails
    <3>3. dbErrors' \in 0..MaxDbErrors
      BY <2>10 DEF DbFails
    <3> QED  BY <2>7, <2>10, <3>1, <3>2, <3>3 DEF DbFails
  <2>11. CASE BeginAudit(t) /\ UNCHANGED <<ready, initLock, advisory, table, rows, dbErrors>>
    BY <2>11 DEF BeginAudit, Goes
  <2> QED
    BY <1>1, <2>1, <2>2, <2>3, <2>5, <2>6, <2>8, <2>9, <2>10, <2>11 DEF AuditMove, AuditCall
<1>2. CASE UNCHANGED auditVars
  BY <1>2 DEF auditVars
<1> QED  BY <1>1, <1>2, AuditMoves

\* A call of the sink concerns its own thread, and none but a thread that is in
\* a call.
LEMMA OthersCall ==
  ASSUME AuditTypeOK, NEW t \in Threads, AuditCall(t) \/ DbFails(t)
  PROVE  /\ \A u \in Threads : u # t => call'[u] = call[u]
         /\ call[t] \notin {"none", "done", "failed"}
         /\ call'[t] \in Calls \ {"none", "check"}
<1> USE DEF AuditTypeOK, Calls
<1>1. CASE Check(t) \/ Lock(t) \/ TakeAdvisory(t) \/ FindTable(t) \/ MissTable(t) \/ Insert(t)
  BY <1>1 DEF Check, Lock, TakeAdvisory, FindTable, MissTable, Insert, Goes
<1>2. CASE CreateTable(t) \/ DbFails(t)
  BY <1>2 DEF CreateTable, DbFails, Goes, Raise
<1> QED  BY <1>1, <1>2 DEF AuditCall

LEMMA ProgressStep ==
  ASSUME TypeOK, Progress, [Next]_vars
  PROVE  /\ Progress'
         /\ step' \in [Requests -> Steps] /\ done' \in [Requests -> 0..Nodes]
         /\ traceOf' \in [Requests -> Traces \union {NoTrace}] /\ outcome' \in [Requests -> Outcomes]
<1> DEFINE G == /\ Progress'
                /\ step' \in [Requests -> Steps] /\ done' \in [Requests -> 0..Nodes]
                /\ traceOf' \in [Requests -> Traces \union {NoTrace}] /\ outcome' \in [Requests -> Outcomes]
<1> USE SpansAssumption, ServiceAssumption DEF TypeOK, Steps, Outcomes
<1>0. call \in [Threads -> Calls] /\ Requests \subseteq Threads
  BY DEF AuditTypeOK, Threads
<1>1. ASSUME NEW q \in Requests, Authenticate(q) \/ Denied(q) PROVE G
  BY <1>1 DEF Authenticate, Denied, Moves, Progress, auditVars
<1>2. ASSUME NEW q \in Requests, Blocked(q) \/ FromCache(q) PROVE G
  BY <1>0, <1>2 DEF Blocked, FromCache, Early, Moves, Progress, BeginAudit, Goes
<1>3. ASSUME NEW q \in Requests, NEW t \in Traces, StartGraph(q, t) PROVE G
  BY <1>3 DEF StartGraph, Moves, Progress, auditVars
<1>4. ASSUME NEW q \in Requests, NodeEnds(q) PROVE G
  <2>1. step[q] = "graph" /\ done[q] < Nodes /\ done[q] \in 0..Nodes
    BY <1>4 DEF NodeEnds, Moves, Progress
  <2>2. done' = [done EXCEPT ![q] = @ + 1] /\ call' = call /\ traceOf' = traceOf
    BY <1>4 DEF NodeEnds, auditVars
  <2>3. CASE step' = [step EXCEPT ![q] = "graph"] /\ outcome' = outcome /\ GoesOn(q)
    BY <2>1, <2>2, <2>3 DEF Progress, GoesOn
  <2>4. CASE step' = [step EXCEPT ![q] = "root"] /\ \E o \in {"ok", "error"} : outcome' = [outcome EXCEPT ![q] = o]
    BY <2>1, <2>2, <2>4 DEF Progress
  <2> QED  BY <1>4, <2>3, <2>4 DEF NodeEnds, Moves
<1>5. ASSUME NEW q \in Requests, RootEnds(q) PROVE G
  <2>1. /\ step[q] = "root" /\ step' = [step EXCEPT ![q] = "pop"]
        /\ done' = [done EXCEPT ![q] = 0] /\ UNCHANGED <<traceOf, outcome, call>>
    BY <1>5 DEF RootEnds, Moves, AfterFailure
  <2> QED  BY <2>1 DEF Progress
<1>6. ASSUME NEW q \in Requests, TakeTrace(q) PROVE G
  BY <1>0, <1>6 DEF TakeTrace, Moves, Progress, BeginAudit, Goes
<1>7. ASSUME NEW t \in Threads, Audit(t) PROVE G
  <2>1. UNCHANGED <<step, done, traceOf, outcome>>
    BY <1>7 DEF Audit, askVars
  <2>2. /\ \A u \in Threads : u # t => call'[u] = call[u]
        /\ call[t] \notin {"none", "done", "failed"}
    BY <1>7, OthersCall DEF Audit
  <2> QED  BY <1>0, <2>1, <2>2 DEF Progress
<1>8. ASSUME NEW q \in Requests, AuditOver(q) PROVE G
  BY <1>8 DEF AuditOver, Moves, Progress, auditVars
<1>9. ASSUME NEW q \in Requests, ServerSpanEnds(q) PROVE G
  BY <1>9 DEF ServerSpanEnds, Moves, Progress, auditVars
<1>10. ASSUME NEW p \in Probes, Probe(p) PROVE G
  BY <1>0, <1>10, ThreadsAssumption DEF Probe, askVars, Progress, BeginAudit, Goes
<1>11. CASE AllOver \/ UNCHANGED vars
  BY <1>11 DEF AllOver, vars, askVars, auditVars, Progress
<1> QED
  BY <1>1, <1>2, <1>3, <1>4, <1>5, <1>6, <1>7, <1>8, <1>9, <1>10, <1>11 DEF Next, Serve, Threads
-----------------------------------------------------------------------------
(* The buffer                                                              *)

\* What the step of another request, or of the audit, does to the buffer.
SpanMove(q) ==
  \/ \E n \in 0..Nodes : /\ step[q] \in {"graph", "root"} /\ step'[q] \in {"graph", "root", "pop"}
                         /\ Export(q, traceOf[q], n, "INTERNAL")
  \/ step[q] = "pop" /\ step'[q] = "audit" /\ Pop(q, traceOf[q])
  \/ /\ step[q] = "audit" /\ step'[q] = "respond"
     /\ exported' = exported \ Own(q)
     /\ read' = [read EXCEPT ![q] = {}] /\ crowd' = [crowd EXCEPT ![q] = 0]
     /\ UNCHANGED <<byTrace, order>>

\* A step that is not between two of the graph.
Skips(p) ==
  /\ step[p] \in {"auth", "guard", "respond"}
  /\ step'[p] \notin {"auth", "graph", "root", "pop"}
  /\ step'[p] = "guard" => step[p] = "auth"

\* Every step exports a span, pops a trace, forgets a request, opens a trace, or
\* leaves the traces alone.
LEMMA SpanMoves ==
  ASSUME TypeOK, Progress, [Next]_vars
  PROVE  \/ \E q \in Requests : /\ SpanMove(q)
                                /\ traceOf' = traceOf /\ \A p \in Requests : p # q => step'[p] = step[p]
         \/ \E q \in Requests, t \in Traces :
              /\ step[q] = "guard" /\ step'[q] = "graph" /\ \A p \in Requests : p # q => step'[p] = step[p]
              /\ traceOf' = [traceOf EXCEPT ![q] = t]
              /\ UNCHANGED spanVars
         \/ /\ UNCHANGED <<spanVars, traceOf>>
            /\ \A p \in Requests :
                 \/ step'[p] = step[p]
                 \/ Skips(p)
<1> DEFINE Opens == \E q \in Requests, t \in Traces :
                      /\ step[q] = "guard" /\ step'[q] = "graph" /\ \A p \in Requests : p # q => step'[p] = step[p]
                      /\ traceOf' = [traceOf EXCEPT ![q] = t]
                      /\ UNCHANGED spanVars
           Rest == /\ UNCHANGED <<spanVars, traceOf>>
                   /\ \A p \in Requests :
                        \/ step'[p] = step[p]
                        \/ Skips(p)
<1> USE SpansAssumption DEF TypeOK, Steps
<1>1. ASSUME NEW q \in Requests, NodeEnds(q)
      PROVE  SpanMove(q) /\ traceOf' = traceOf /\ \A p \in Requests : p # q => step'[p] = step[p]
  <2>1. /\ step[q] = "graph" /\ step'[q] \in {"graph", "root"}
        /\ \A p \in Requests : p # q => step'[p] = step[p]
    BY <1>1 DEF NodeEnds, Moves
  <2>2. done[q] + 1 \in 0..Nodes
    BY <2>1 DEF Progress
  <2>3. Export(q, traceOf[q], done[q] + 1, "INTERNAL") /\ traceOf' = traceOf
    BY <1>1 DEF NodeEnds
  <2> QED  BY <2>1, <2>2, <2>3 DEF SpanMove
<1>2. ASSUME NEW q \in Requests, RootEnds(q)
      PROVE  SpanMove(q) /\ traceOf' = traceOf /\ \A p \in Requests : p # q => step'[p] = step[p]
  <2>1. /\ step[q] = "root" /\ step'[q] = "pop"
        /\ \A p \in Requests : p # q => step'[p] = step[p]
    BY <1>2 DEF RootEnds, Moves, AfterFailure
  <2>2. 0 \in 0..Nodes /\ Export(q, traceOf[q], 0, "INTERNAL") /\ traceOf' = traceOf
    BY <1>2 DEF RootEnds
  <2> QED  BY <2>1, <2>2 DEF SpanMove
<1>3. ASSUME NEW q \in Requests, TakeTrace(q)
      PROVE  SpanMove(q) /\ traceOf' = traceOf /\ \A p \in Requests : p # q => step'[p] = step[p]
  BY <1>3 DEF TakeTrace, Moves, SpanMove
<1>4. ASSUME NEW q \in Requests, AuditOver(q)
      PROVE  SpanMove(q) /\ traceOf' = traceOf /\ \A p \in Requests : p # q => step'[p] = step[p]
  BY <1>4 DEF AuditOver, Moves, SpanMove
<1>5. ASSUME NEW q \in Requests, NEW t \in Traces, StartGraph(q, t) PROVE Opens
  BY <1>5 DEF StartGraph, Moves
<1>6. ASSUME NEW q \in Requests, Authenticate(q) \/ Denied(q) \/ Blocked(q) \/ FromCache(q) PROVE Rest
  BY <1>6 DEF Authenticate, Denied, Blocked, FromCache, Early, Moves, Skips
<1>7. ASSUME NEW q \in Requests, ServerSpanEnds(q) PROVE Rest
  BY <1>7 DEF ServerSpanEnds, Moves, Export, Buffered, Skips
<1>8. ASSUME NEW t \in Threads, Audit(t) \/ Probe(t) PROVE Rest
  BY <1>8 DEF Audit, Probe, askVars
<1>9. ASSUME AllOver \/ UNCHANGED vars PROVE Rest
  BY <1>9 DEF AllOver, vars, askVars
<1> QED
  BY <1>1, <1>2, <1>3, <1>4, <1>5, <1>6, <1>7, <1>8, <1>9 DEF Next, Serve, Threads

\* w is o without its first d traces and with trace t at its end: what _order is
\* after a new trace.
Moved(w, o, d, t) ==
  /\ w \in Seq(Traces)
  /\ Len(w) = Len(o) + 1 - d
  /\ \A i \in 1..Len(o) - d : w[i] = o[i + d]
  /\ w[Len(o) + 1 - d] = t

LEMMA OrderWithTrace ==
  ASSUME NEW r \in Replicas, NEW t \in Traces, order[r] \in Seq(Traces), IsNew(r, t),
         NEW d \in {0, 1}, d = IF IsFull(r) THEN 1 ELSE 0
  PROVE  Moved(WithTrace(r, t), order[r], d, t)
<1> USE DEF Moved
<1> DEFINE o == order[r]
<1>1. CASE IsFull(r)
  <2>1. Len(o) = MaxTraces /\ MaxTraces \in Nat \ {0} /\ o # <<>>
    BY <1>1, SpansAssumption DEF IsFull
  <2> HIDE DEF o
  <2>2. o \in Seq(Traces)
    BY DEF o
  <2>3. /\ Tail(o) \in Seq(Traces) /\ Len(Tail(o)) = Len(o) - 1
        /\ \A i \in 1..Len(o) - 1 : Tail(o)[i] = o[i + 1]
    BY <2>1, <2>2
  <2>4. WithTrace(r, t) = Append(Tail(o), t)
    BY <1>1 DEF WithTrace, o
  <2>5. /\ Append(Tail(o), t) \in Seq(Traces) /\ Len(Append(Tail(o), t)) = Len(o)
        /\ \A i \in 1..Len(o) - 1 : Append(Tail(o), t)[i] = Tail(o)[i]
        /\ Append(Tail(o), t)[Len(o)] = t
    BY <2>1, <2>3
  <2>6. d = 1
    BY <1>1
  <2>7. /\ WithTrace(r, t) \in Seq(Traces) /\ Len(WithTrace(r, t)) = Len(o) + 1 - d
        /\ \A i \in 1..Len(o) - d : WithTrace(r, t)[i] = o[i + d]
        /\ WithTrace(r, t)[Len(o) + 1 - d] = t
    BY <2>1, <2>3, <2>4, <2>5, <2>6
  <2> QED  BY <2>7 DEF o
<1>2. CASE ~IsFull(r)
  <2>1. WithTrace(r, t) = Append(o, t) /\ o \in Seq(Traces) /\ d = 0
    BY <1>2 DEF WithTrace
  <2> HIDE DEF o
  <2>2. /\ Append(o, t) \in Seq(Traces) /\ Len(Append(o, t)) = Len(o) + 1
        /\ \A i \in 1..Len(o) : Append(o, t)[i] = o[i]
        /\ Append(o, t)[Len(o) + 1] = t
    BY <2>1
  <2>3. /\ WithTrace(r, t) \in Seq(Traces) /\ Len(WithTrace(r, t)) = Len(o) + 1 - d
        /\ \A i \in 1..Len(o) - d : WithTrace(r, t)[i] = o[i + d]
        /\ WithTrace(r, t)[Len(o) + 1 - d] = t
    BY <2>1, <2>2
  <2> QED  BY <2>3 DEF o
<1> QED  BY <1>1, <1>2

LEMMA SpansTypeStep ==
  ASSUME TypeOK, Progress, [Next]_vars
  PROVE  SpansTypeOK'
<1> USE ThreadsAssumption, SpansAssumption DEF TypeOK, SpansTypeOK
<1>0. \A q \in Requests : At[q] \in Replicas
  BY DEF Threads
<1>1. ASSUME NEW q \in Requests, NEW n \in 0..Nodes, step[q] \in {"graph", "root"},
             Export(q, traceOf[q], n, "INTERNAL")
      PROVE  SpansTypeOK'
  <2> DEFINE r == At[q]
             t == traceOf[q]
             s == <<q, n>>
  <2>1. r \in Replicas /\ t \in Traces /\ s \in Span
    BY <1>0, <1>1 DEF Progress, Span
  <2>2. /\ byTrace' = [byTrace EXCEPT ![r] = WithSpan(r, t, s)]
        /\ order' = [order EXCEPT ![r] = WithTrace(r, t)]
        /\ exported' = exported \union {s} /\ read' = read
        /\ crowd' = [p \in Requests |->
             IF p # q /\ At[p] = r /\ IsNew(r, t) /\ Own(p) # {} THEN crowd[p] + 1 ELSE crowd[p]]
    BY <1>1 DEF Export, Buffered
  <2> HIDE DEF r, t, s
  <2>3. DOMAIN WithSpan(r, t, s) \subseteq Traces /\ WithSpan(r, t, s) \in [DOMAIN WithSpan(r, t, s) -> SUBSET Span]
    BY <2>1 DEF WithSpan
  <2>4. WithTrace(r, t) \in Seq(Traces)
    <3>1. CASE IsNew(r, t)
      <4>1. PICK d \in {0, 1} : d = IF IsFull(r) THEN 1 ELSE 0
        OBVIOUS
      <4> QED  BY <2>1, <3>1, <4>1, OrderWithTrace DEF Moved
    <3>2. CASE ~IsNew(r, t)
      BY <2>1, <3>2 DEF WithTrace
    <3> QED  BY <3>1, <3>2
  <2>5. DOMAIN byTrace' = Replicas
    BY <2>2
  <2>6. \A x \in Replicas :
          DOMAIN byTrace'[x] \subseteq Traces /\ byTrace'[x] \in [DOMAIN byTrace'[x] -> SUBSET Span]
    BY <2>1, <2>2, <2>3
  <2>7. order' \in [Replicas -> Seq(Traces)]
    BY <2>1, <2>2, <2>4
  <2>8. crowd' \in [Requests -> Nat]
    BY <2>2
  <2> QED  BY <2>1, <2>2, <2>5, <2>6, <2>7, <2>8
<1>2. ASSUME NEW q \in Requests, Pop(q, traceOf[q]) PROVE SpansTypeOK'
  <2> DEFINE r == At[q]
             t == traceOf[q]
             m == Restrict(byTrace[r], DOMAIN byTrace[r] \ {t})
  <2>1. /\ r \in Replicas
        /\ byTrace' = [byTrace EXCEPT ![r] = m]
        /\ read' = [read EXCEPT ![q] = IF IsNew(r, t) THEN {} ELSE byTrace[r][t]]
        /\ UNCHANGED <<order, exported, crowd>>
    BY <1>0, <1>2 DEF Pop
  <2>2. DOMAIN m \subseteq Traces /\ m \in [DOMAIN m -> SUBSET Span]
    BY <2>1 DEF Restrict
  <2>3. (IF IsNew(r, t) THEN {} ELSE byTrace[r][t]) \in SUBSET Span
    BY <2>1 DEF IsNew
  <2> HIDE DEF r, t, m
  <2>4. \A x \in Replicas :
          DOMAIN byTrace'[x] \subseteq Traces /\ byTrace'[x] \in [DOMAIN byTrace'[x] -> SUBSET Span]
    BY <2>1, <2>2
  <2>5. DOMAIN byTrace' = Replicas /\ read' \in [Requests -> SUBSET Span]
    BY <2>1, <2>3
  <2> QED  BY <2>1, <2>4, <2>5
<1>3. ASSUME NEW q \in Requests, exported' = exported \ Own(q), read' = [read EXCEPT ![q] = {}],
             crowd' = [crowd EXCEPT ![q] = 0], UNCHANGED <<byTrace, order>>
      PROVE  SpansTypeOK'
  BY <1>3
<1>4. CASE UNCHANGED spanVars
  BY <1>4 DEF spanVars
<1> QED  BY <1>1, <1>2, <1>3, <1>4, SpanMoves DEF SpanMove

LEMMA InitTypes == Init => TypeOK /\ Progress
<1> SUFFICES ASSUME Init PROVE TypeOK /\ Progress
  OBVIOUS
<1> USE ThreadsAssumption, SpansAssumption, AuditAssumption, ServiceAssumption
<1>1. AuditTypeOK
  BY DEF Init, AuditInit, AuditTypeOK, Calls
<1>2. SpansTypeOK
  BY DEF Init, SpansInit, SpansTypeOK
<1>3. /\ step \in [Requests -> Steps] /\ done \in [Requests -> 0..Nodes]
      /\ traceOf \in [Requests -> Traces \union {NoTrace}] /\ outcome \in [Requests -> Outcomes]
  BY DEF Init, Steps, Outcomes
<1>4. Progress
  BY DEF Init, AuditInit, Progress, Threads
<1> QED  BY <1>1, <1>2, <1>3, <1>4 DEF TypeOK

LEMMA TypeStep == TypeOK /\ Progress /\ [Next]_vars => (TypeOK /\ Progress)'
<1> SUFFICES ASSUME TypeOK, Progress, [Next]_vars PROVE TypeOK' /\ Progress'
  OBVIOUS
<1>1. AuditTypeOK'
  BY AuditTypeStep DEF TypeOK
<1> QED  BY <1>1, SpansTypeStep, ProgressStep DEF TypeOK

\* The spans, the audit sink and the requests keep their types, and a request is
\* never further than its spans and its audit call allow.
THEOREM ServiceTypeCorrect == Spec => [](TypeOK /\ Progress)
BY InitTypes, TypeStep, PTL DEF Spec
-----------------------------------------------------------------------------
(* The audit row                                                           *)

\* The advisory lock makes one transaction at a time look for the table, so that
\* none finds it created in between; a row is written by the last call alone.
OneCreates ==
  \A t \in Threads :
    /\ call[t] \in {"exists", "create"} => advisory = t
    /\ call[t] = "create" => ~table

RowsInCalls ==
  \A q \in Requests :
    /\ rows[q] <= 1
    /\ call[q] \notin {"done", "failed"} => rows[q] = 0
    /\ call[q] = "done" => rows[q] = 1

FailedByDb == \A t \in Threads : call[t] = "failed" => dbErrors > 0

AuditInv == OneCreates /\ RowsInCalls /\ FailedByDb /\ ReadyMeansTable

LEMMA AuditStep ==
  ASSUME AuditTypeOK, AuditInv, NEW t \in Threads, AuditMove(t)
  PROVE  AuditInv'
<1> USE AuditAssumption, ThreadsAssumption DEF AuditTypeOK, Calls
<1>0. /\ At[t] \in Replicas /\ t # NoThread /\ Requests \subseteq Threads
      /\ dbErrors \in Nat
  BY DEF Threads
<1>1. ASSUME UNCHANGED <<advisory, table, ready, rows, dbErrors>>,
             \A u \in Threads : u # t => call'[u] = call[u],
             call[t] \notin {"done", "failed"},
             call'[t] \notin {"done", "failed"},
             call'[t] \in {"exists", "create"} => advisory = t,
             call'[t] = "create" => ~table,
             call'[t] = "insert" => table
      PROVE  AuditInv'
  BY <1>0, <1>1 DEF AuditInv, OneCreates, RowsInCalls, FailedByDb, ReadyMeansTable
<1>2. CASE Check(t)
  <2>1. ready[At[t]] => table
    BY <1>0 DEF AuditInv, ReadyMeansTable
  <2> QED  BY <1>1, <1>2, <2>1 DEF Check, Goes
<1>3. CASE Lock(t)
  <2>1. ready[At[t]] => table
    BY <1>0 DEF AuditInv, ReadyMeansTable
  <2> QED  BY <1>1, <1>3, <2>1 DEF Lock, Goes
<1>4. CASE BeginAudit(t) /\ UNCHANGED <<ready, initLock, advisory, table, rows, dbErrors>>
  BY <1>1, <1>4 DEF BeginAudit, Goes
<1>5. CASE MissTable(t)
  <2>1. advisory = t
    BY <1>5 DEF MissTable, Goes, AuditInv, OneCreates
  <2> QED  BY <1>1, <1>5, <2>1 DEF MissTable, Goes
<1>6. CASE TakeAdvisory(t)
  <2>1. \A u \in Threads : call[u] \notin {"exists", "create"}
    BY <1>6 DEF TakeAdvisory, AdvisoryFree, AuditInv, OneCreates
  <2>2. /\ advisory' = t /\ UNCHANGED <<table, ready, rows, dbErrors>>
        /\ call[t] = "advisory" /\ call' = [call EXCEPT ![t] = "exists"]
    BY <1>6 DEF TakeAdvisory, Goes
  <2> QED  BY <1>0, <2>1, <2>2 DEF AuditInv, OneCreates, RowsInCalls, FailedByDb, ReadyMeansTable
<1>7. ASSUME ReleaseLocks(t) PROVE \A u \in Threads : u # t /\ advisory = u => advisory' = u
  BY <1>0, <1>7 DEF ReleaseLocks, Released
<1>8. CASE FindTable(t)
  <2>1. /\ table /\ UNCHANGED <<table, rows, dbErrors>>
        /\ call[t] = "exists" /\ call' = [call EXCEPT ![t] = "insert"]
        /\ \A r \in Replicas : ready'[r] => ready[r] \/ r = At[t]
    BY <1>8 DEF FindTable, Goes
  <2>2. \A u \in Threads : u # t /\ advisory = u => advisory' = u
    BY <1>7, <1>8 DEF FindTable
  <2> QED  BY <1>0, <2>1, <2>2 DEF AuditInv, OneCreates, RowsInCalls, FailedByDb, ReadyMeansTable
<1>9. CASE CreateTable(t)
  <2>1. ~table /\ advisory = t
    BY <1>9 DEF CreateTable, AuditInv, OneCreates
  <2>2. /\ table' = TRUE /\ UNCHANGED <<rows, dbErrors>>
        /\ call[t] = "create" /\ call' = [call EXCEPT ![t] = "insert"]
        /\ ReleaseLocks(t)
    BY <1>9, <2>1 DEF CreateTable, Goes
  <2>3. \A u \in Threads : u # t => call[u] \notin {"exists", "create"}
    BY <2>1 DEF AuditInv, OneCreates
  <2> QED  BY <1>0, <2>2, <2>3 DEF AuditInv, OneCreates, RowsInCalls, FailedByDb, ReadyMeansTable
<1>10. CASE Insert(t)
  <2>1. /\ UNCHANGED <<advisory, table, ready, dbErrors>>
        /\ call[t] = "insert" /\ call' = [call EXCEPT ![t] = "done"]
        /\ \A q \in Requests : rows'[q] = IF q = t THEN rows[q] + 1 ELSE rows[q]
    BY <1>10 DEF Insert, Goes
  <2>2. RowsInCalls'
    BY <1>0, <2>1 DEF AuditInv, RowsInCalls
  <2> QED  BY <1>0, <2>1, <2>2 DEF AuditInv, OneCreates, FailedByDb, ReadyMeansTable
<1>11. CASE DbFails(t)
  <2>1. /\ dbErrors' = dbErrors + 1 /\ call' = [call EXCEPT ![t] = "failed"]
        /\ ready' = [ready EXCEPT ![At[t]] = ready[At[t]]] /\ ReleaseLocks(t)
        /\ call[t] \in {"advisory", "exists", "create", "insert"}
        /\ table' = table \/ (call[t] = "create" /\ table' = TRUE)
        /\ \A q \in Requests : rows'[q] = rows[q] \/ (q = t /\ rows'[q] = rows[q] + 1)
    BY <1>11 DEF DbFails, Raise, ReadyAfterRaise
  <2>2. \A u \in Threads : u # t /\ advisory = u => advisory' = u
    BY <1>7, <2>1
  <2>3. call[t] = "create" => \A u \in Threads : u # t => call[u] \notin {"exists", "create"}
    BY DEF AuditInv, OneCreates
  <2>4. OneCreates'
    BY <2>1, <2>2, <2>3 DEF AuditInv, OneCreates
  <2>5. RowsInCalls'
    BY <1>0, <2>1 DEF AuditInv, RowsInCalls
  <2>6. FailedByDb'
    BY <1>0, <2>1 DEF AuditInv, FailedByDb
  <2>7. ReadyMeansTable'
    <3>1. table => table'
      BY <2>1
    <3>2. \A r \in Replicas : ready'[r] = ready[r]
      BY <2>1
    <3>3. \A u \in Threads : call'[u] = "insert" => call[u] = "insert"
      BY <2>1
    <3> QED  BY <3>1, <3>2, <3>3 DEF AuditInv, ReadyMeansTable
  <2> QED  BY <2>4, <2>5, <2>6, <2>7 DEF AuditInv
<1> QED
  BY <1>2, <1>3, <1>4, <1>5, <1>6, <1>8, <1>9, <1>10, <1>11 DEF AuditMove, AuditCall

\* Whoever creates the schema, one transaction at a time looks for it, and what
\* each call has written follows from where it is.
THEOREM AuditInvariant == Spec => []AuditInv
<1>1. Init => AuditInv
  BY AuditAssumption DEF Init, AuditInit, AuditInv, OneCreates, RowsInCalls, FailedByDb, ReadyMeansTable, Threads
<1>2. TypeOK /\ Progress /\ AuditInv /\ [Next]_vars => AuditInv'
  <2> SUFFICES ASSUME TypeOK, AuditInv, [Next]_vars PROVE AuditInv'
    OBVIOUS
  <2>1. CASE UNCHANGED auditVars
    BY <2>1 DEF auditVars, AuditInv, OneCreates, RowsInCalls, FailedByDb, ReadyMeansTable
  <2> QED  BY <2>1, AuditStep, AuditMoves DEF TypeOK
<1> QED  BY <1>1, <1>2, ServiceTypeCorrect, PTL DEF Spec

\* While the database answers no audit write fails, though replicas create the
\* schema at the same time, and a write leaves one row.
THEOREM EveryWriteOneRow == Spec => []NoRowLost
<1>1. TypeOK /\ AuditInv => NoRowLost
  BY DEF AuditInv, RowsInCalls, FailedByDb, NoRowLost
<1> QED  BY <1>1, AuditInvariant, ServiceTypeCorrect, PTL

\* No insert meets a missing table.
THEOREM ReadyHasTable == Spec => []ReadyMeansTable
BY AuditInvariant, PTL DEF AuditInv

\* Every request that got past the rate limit has its audit row when it is over,
\* unless the database failed.
THEOREM EveryRequestAudited == Spec => []AuditedOnce
<1>1. TypeOK /\ Progress /\ AuditInv => AuditedOnce
  BY DEF Progress, AuditInv, RowsInCalls, FailedByDb, AuditedOnce, Threads
<1> QED  BY <1>1, AuditInvariant, ServiceTypeCorrect, PTL

-----------------------------------------------------------------------------
(* The locks                                                               *)

\* Who holds the lock of its process, or PostgreSQL's, is at a call inside it;
\* whatever raises, a thread that is past _ensure holds neither.
LocksHeld ==
  \A t \in Threads :
    /\ \A r \in Replicas : initLock[r] = t <=> r = At[t] /\ call[t] \in {"advisory", "exists", "create"}
    /\ advisory = t <=> call[t] \in {"exists", "create"}

\* t waits for a lock that u holds.
WaitsFor(t, u) ==
  \/ call[t] = "lock" /\ initLock[At[t]] = u
  \/ call[t] = "advisory" /\ advisory = u

\* How far inside the locks a call is.
Depth(c) == CASE c = "lock" -> 0 [] c = "advisory" -> 1 [] OTHER -> 2

\* Whoever a thread waits for is further inside, and what is innermost, the
\* statements of the transaction, waits for no lock: no circle of threads
\* waits for each other.
NoCircularWait ==
  \A t, u \in Threads : WaitsFor(t, u) => Depth(call[t]) < Depth(call[u])

LEMMA LockStep ==
  ASSUME AuditTypeOK, LocksHeld, NEW t \in Threads, AuditMove(t)
  PROVE  LocksHeld'
<1> USE AuditAssumption, ThreadsAssumption DEF AuditTypeOK, Calls
<1>0. At[t] \in Replicas /\ t # NoThread
  OBVIOUS
<1>1. ASSUME UNCHANGED <<advisory, initLock>>,
             \A u \in Threads : u # t => call'[u] = call[u],
             call[t] \notin {"advisory", "exists", "create"} <=> call'[t] \notin {"advisory", "exists", "create"},
             call[t] \in {"exists", "create"} <=> call'[t] \in {"exists", "create"}
      PROVE  LocksHeld'
  BY <1>1 DEF LocksHeld
<1>2. CASE Check(t) \/ MissTable(t) \/ Insert(t)
  BY <1>1, <1>2 DEF Check, MissTable, Insert, Goes
<1>3. CASE BeginAudit(t) /\ UNCHANGED <<ready, initLock, advisory, table, rows, dbErrors>>
  BY <1>1, <1>3 DEF BeginAudit, Goes
<1>4. CASE Lock(t)
  <2>1. CASE ready[At[t]]
    BY <1>1, <1>4, <2>1 DEF Lock, Goes
  <2>2. CASE ~ready[At[t]]
    BY <1>0, <1>4, <2>2 DEF Lock, Goes, LocksHeld
  <2> QED  BY <2>1, <2>2
<1>5. CASE TakeAdvisory(t)
  BY <1>0, <1>5 DEF TakeAdvisory, AdvisoryFree, Goes, LocksHeld
<1>6. ASSUME ReleaseLocks(t), call[t] \in {"advisory", "exists", "create", "insert"},
             \A u \in Threads : u # t => call'[u] = call[u],
             call'[t] \notin {"advisory", "exists", "create"}
      PROVE  LocksHeld'
  <2>1. /\ advisory' # t /\ initLock'[At[t]] # t
        /\ \A r \in Replicas : r # At[t] => initLock'[r] = initLock[r]
    BY <1>0, <1>6 DEF ReleaseLocks, Released
  <2>2. \A u \in Threads : u # t =>
          (advisory' = u <=> advisory = u) /\ (initLock'[At[t]] = u <=> initLock[At[t]] = u)
    BY <1>0, <1>6 DEF ReleaseLocks, Released
  <2> QED  BY <1>0, <1>6, <2>1, <2>2 DEF LocksHeld
<1>7. CASE FindTable(t)
  BY <1>6, <1>7 DEF FindTable, Goes
<1>8. CASE CreateTable(t)
  BY <1>6, <1>8 DEF CreateTable, Goes, Raise
<1>9. CASE DbFails(t)
  BY <1>6, <1>9 DEF DbFails, Raise
<1> QED
  BY <1>2, <1>3, <1>4, <1>5, <1>7, <1>8, <1>9 DEF AuditMove, AuditCall

\* A lock is held by a thread inside it and by no other, also after _ensure, a
\* write or a commit raised.
THEOREM LocksReleased == Spec => []LocksHeld
<1>1. Init => LocksHeld
  BY AuditAssumption, ThreadsAssumption DEF Init, AuditInit, LocksHeld
<1>2. TypeOK /\ Progress /\ LocksHeld /\ [Next]_vars => LocksHeld'
  <2> SUFFICES ASSUME TypeOK, LocksHeld, [Next]_vars PROVE LocksHeld'
    OBVIOUS
  <2>1. CASE UNCHANGED auditVars
    BY <2>1 DEF auditVars, LocksHeld
  <2> QED  BY <2>1, LockStep, AuditMoves DEF TypeOK
<1> QED  BY <1>1, <1>2, ServiceTypeCorrect, PTL DEF Spec

\* The threads that write audit rows and those of readiness probes, of any number
\* of replicas, never wait for each other in a circle, for _init_lock or for the
\* advisory lock.
THEOREM NoDeadlock == Spec => []NoCircularWait
<1>1. AuditTypeOK /\ LocksHeld => NoCircularWait
  <2> SUFFICES ASSUME AuditTypeOK, LocksHeld, NEW t \in Threads, NEW u \in Threads, WaitsFor(t, u)
               PROVE  Depth(call[t]) < Depth(call[u])
    BY DEF NoCircularWait
  <2>0. At[t] \in Replicas
    BY ThreadsAssumption
  <2>1. CASE call[t] = "lock" /\ initLock[At[t]] = u
    <3>1. call[u] \in {"advisory", "exists", "create"}
      BY <2>0, <2>1 DEF LocksHeld
    <3> QED  BY <2>1, <3>1 DEF Depth
  <2>2. CASE call[t] = "advisory" /\ advisory = u
    <3>1. call[u] \in {"exists", "create"}
      BY <2>2 DEF LocksHeld
    <3> QED  BY <2>2, <3>1 DEF Depth
  <2> QED  BY <2>1, <2>2 DEF WaitsFor
<1> QED  BY <1>1, LocksReleased, ServiceTypeCorrect, PTL DEF TypeOK

-----------------------------------------------------------------------------
(* The spans                                                               *)

LEMMA SpanLeakStep ==
  ASSUME TypeOK, Progress, NoSpanLeak, [Next]_vars
  PROVE  NoSpanLeak'
<1> USE ThreadsAssumption DEF TypeOK, SpansTypeOK
<1>0. \A q \in Requests : At[q] \in Replicas
  BY DEF Threads
<1>1. ASSUME NEW q \in Requests, NEW n \in 0..Nodes, step[q] \in {"graph", "root"},
             step'[q] \in {"graph", "root", "pop"}, Export(q, traceOf[q], n, "INTERNAL"),
             traceOf' = traceOf, \A p \in Requests : p # q => step'[p] = step[p]
      PROVE  NoSpanLeak'
  <2>1. /\ byTrace' = [byTrace EXCEPT ![At[q]] = WithSpan(At[q], traceOf[q], <<q, n>>)]
        /\ DOMAIN WithSpan(At[q], traceOf[q], <<q, n>>) \subseteq DOMAIN byTrace[At[q]] \union {traceOf[q]}
    BY <1>1 DEF Export, Buffered, WithSpan
  <2> SUFFICES ASSUME NEW r \in Replicas, NEW t \in DOMAIN byTrace'[r]
               PROVE  \E p \in Requests : At[p] = r /\ traceOf'[p] = t /\ step'[p] \in {"graph", "root", "pop"}
    BY DEF NoSpanLeak
  <2>2. t \in DOMAIN byTrace[r] \/ (r = At[q] /\ t = traceOf[q])
    BY <1>0, <2>1
  <2>3. CASE t \in DOMAIN byTrace[r]
    <3>1. PICK p \in Requests : At[p] = r /\ traceOf[p] = t /\ step[p] \in {"graph", "root", "pop"}
      BY <2>3 DEF NoSpanLeak
    <3>2. step'[p] \in {"graph", "root", "pop"}
      BY <1>1, <3>1
    <3> QED  BY <1>1, <3>1, <3>2
  <2>4. CASE r = At[q] /\ t = traceOf[q]
    BY <1>1, <2>4
  <2> QED  BY <2>2, <2>3, <2>4
<1>2. ASSUME NEW q \in Requests, step[q] = "pop", Pop(q, traceOf[q]),
             traceOf' = traceOf, \A p \in Requests : p # q => step'[p] = step[p]
      PROVE  NoSpanLeak'
  <2>1. byTrace' = [byTrace EXCEPT ![At[q]] = Restrict(byTrace[At[q]], DOMAIN byTrace[At[q]] \ {traceOf[q]})]
    BY <1>2 DEF Pop
  <2> SUFFICES ASSUME NEW r \in Replicas, NEW t \in DOMAIN byTrace'[r]
               PROVE  \E p \in Requests : At[p] = r /\ traceOf'[p] = t /\ step'[p] \in {"graph", "root", "pop"}
    BY DEF NoSpanLeak
  <2>2. t \in DOMAIN byTrace[r] /\ ~(r = At[q] /\ t = traceOf[q])
    BY <1>0, <2>1 DEF Restrict
  <2>3. PICK p \in Requests : At[p] = r /\ traceOf[p] = t /\ step[p] \in {"graph", "root", "pop"}
    BY <2>2 DEF NoSpanLeak
  <2>4. p # q
    BY <2>2, <2>3
  <2>5. step'[p] = step[p] /\ traceOf'[p] = traceOf[p]
    BY <1>2, <2>4
  <2> QED  BY <2>3, <2>5
<1>3. ASSUME byTrace' = byTrace,
             \A p \in Requests : step[p] \in {"graph", "root", "pop"} =>
                                   step'[p] = step[p] /\ traceOf'[p] = traceOf[p]
      PROVE  NoSpanLeak'
  <2> SUFFICES ASSUME NEW r \in Replicas, NEW t \in DOMAIN byTrace'[r]
               PROVE  \E p \in Requests : At[p] = r /\ traceOf'[p] = t /\ step'[p] \in {"graph", "root", "pop"}
    BY DEF NoSpanLeak
  <2>1. PICK p \in Requests : At[p] = r /\ traceOf[p] = t /\ step[p] \in {"graph", "root", "pop"}
    BY <1>3 DEF NoSpanLeak
  <2>2. step'[p] = step[p] /\ traceOf'[p] = traceOf[p]
    BY <1>3, <2>1
  <2> QED  BY <2>1, <2>2
<1>4. ASSUME NEW q \in Requests, step[q] = "audit", byTrace' = byTrace, traceOf' = traceOf,
             \A p \in Requests : p # q => step'[p] = step[p]
      PROVE  NoSpanLeak'
  BY <1>3, <1>4
<1>5. ASSUME NEW q \in Requests, NEW t \in Traces, step[q] = "guard", UNCHANGED spanVars,
             traceOf' = [traceOf EXCEPT ![q] = t], \A p \in Requests : p # q => step'[p] = step[p]
      PROVE  NoSpanLeak'
  BY <1>3, <1>5 DEF spanVars
<1>6. ASSUME UNCHANGED <<spanVars, traceOf>>,
             \A p \in Requests :
               \/ step'[p] = step[p]
               \/ Skips(p)
      PROVE  NoSpanLeak'
  BY <1>3, <1>6 DEF spanVars, Skips
<1> QED  BY <1>1, <1>2, <1>4, <1>5, <1>6, SpanMoves DEF SpanMove

\* A trace is in the buffer of a replica only while a request of its runs there.
THEOREM BufferEmpties == Spec => []NoSpanLeak
<1>1. Init => NoSpanLeak
  BY DEF Init, SpansInit, NoSpanLeak
<1> QED  BY <1>1, SpanLeakStep, ServiceTypeCorrect, PTL DEF Spec
-----------------------------------------------------------------------------
(* A trace is read back                                                    *)

\* A trace in a buffer, or in its order, was opened by a request.
TracesOpened ==
  \A r \in Replicas : \A t \in DOMAIN byTrace[r] \union Range(order[r]) : \E p \in Requests : traceOf[p] = t

Open(q) == step[q] \in {"graph", "root", "pop"}

\* Before its graph a request has exported nothing, after it something.
SpansWithSteps ==
  \A q \in Requests :
    /\ step[q] \in {"auth", "guard"} => Own(q) = {} /\ traceOf[q] = NoTrace
    /\ step[q] \in {"root", "pop"} => Own(q) # {}
    /\ step[q] = "audit" /\ outcome[q] \in {"ok", "error"} => traceOf[q] \in Traces

\* The buffer has no trace of q yet.
Untouched(q) ==
  traceOf[q] \notin DOMAIN byTrace[At[q]] \union Range(order[At[q]])

\* The buffer has q's spans, and no more traces were started since than crowd[q].
Whole(q) ==
  /\ traceOf[q] \in DOMAIN byTrace[At[q]]
  /\ byTrace[At[q]][traceOf[q]] = Own(q)
  /\ \A i \in 1..Len(order[At[q]]) : order[At[q]][i] = traceOf[q] => Len(order[At[q]]) - i <= crowd[q]

BufferHolds ==
  \A q \in Requests :
    Open(q) /\ HasTraceAlone(q) /\ crowd[q] < MaxTraces =>
      IF Own(q) = {} THEN Untouched(q) ELSE Whole(q)

TraceInv == TracesOpened /\ SpansWithSteps /\ BufferHolds /\ ReadsOwnTrace

\* Where a request comes to its audit from, and that its outcome stays then.
LEMMA OutcomeKept ==
  ASSUME TypeOK, [Next]_vars, NEW p \in Requests, step'[p] = "audit", outcome'[p] \in {"ok", "error"}
  PROVE  step[p] = "pop" \/ (step[p] = "audit" /\ outcome'[p] = outcome[p])
<1> USE DEF TypeOK
<1>1. ASSUME NEW q \in Requests, Blocked(q) \/ FromCache(q)
      PROVE  step[p] = "audit" /\ outcome'[p] = outcome[p]
  BY <1>1 DEF Blocked, FromCache, Early, Moves
<1>2. ASSUME NEW q \in Requests, NodeEnds(q) PROVE step[p] = "audit" /\ outcome'[p] = outcome[p]
  BY <1>2 DEF NodeEnds, Moves
<1>3. ASSUME NEW q \in Requests, RootEnds(q) PROVE step[p] = "audit" /\ outcome'[p] = outcome[p]
  BY <1>3 DEF RootEnds, Moves, AfterFailure
<1>4. ASSUME NEW q \in Requests, TakeTrace(q)
      PROVE  step[p] = "pop" \/ (step[p] = "audit" /\ outcome'[p] = outcome[p])
  BY <1>4 DEF TakeTrace, Moves
<1>5. ASSUME NEW q \in Requests,
             Authenticate(q) \/ Denied(q) \/ (\E t \in Traces : StartGraph(q, t)) \/ AuditOver(q)
      PROVE  step[p] = "audit" /\ outcome'[p] = outcome[p]
  BY <1>5 DEF Authenticate, Denied, StartGraph, AuditOver, Moves
<1>6. ASSUME NEW q \in Requests, ServerSpanEnds(q) PROVE step[p] = "audit" /\ outcome'[p] = outcome[p]
  BY <1>6 DEF ServerSpanEnds, Moves
<1>7. ASSUME NEW t \in Threads, Audit(t) \/ Probe(t) PROVE step[p] = "audit" /\ outcome'[p] = outcome[p]
  BY <1>7 DEF Audit, Probe, askVars
<1>8. ASSUME AllOver \/ UNCHANGED vars PROVE step[p] = "audit" /\ outcome'[p] = outcome[p]
  BY <1>8 DEF AllOver, vars, askVars
<1> QED
  BY <1>1, <1>2, <1>3, <1>4, <1>5, <1>6, <1>7, <1>8 DEF Next, Serve, Threads

\* Where the entries of _order are once d of them are dropped and one is added.
LEMMA MovedIndex ==
  ASSUME NEW m \in Nat, NEW d \in {0, 1}, NEW i \in 1..m + 1 - d, i # m + 1 - d
  PROVE  i \in 1..m - d /\ i + d \in 1..m
OBVIOUS

LEMMA StartedSince ==
  ASSUME NEW m \in Nat, NEW d \in {0, 1}, NEW i \in 1..m + 1 - d, NEW c \in Nat,
         i = m + 1 - d \/ m - (i + d) <= c
  PROVE  m + 1 - d - i <= c + 1 /\ (i = m + 1 - d => m + 1 - d - i <= c)
OBVIOUS

\* What an export changes.
LEMMA ExportEffect ==
  ASSUME TypeOK, NEW q \in Requests, NEW n \in 0..Nodes, NEW t \in Traces, t = traceOf[q],
         NEW r \in Replicas, r = At[q], Export(q, t, n, "INTERNAL")
  PROVE  /\ \A x \in Replicas : x # r => byTrace'[x] = byTrace[x] /\ order'[x] = order[x]
         /\ byTrace'[r] = WithSpan(r, t, <<q, n>>) /\ order'[r] = WithTrace(r, t)
         /\ DOMAIN byTrace'[r] \union Range(order'[r]) \subseteq DOMAIN byTrace[r] \union Range(order[r]) \union {t}
         /\ read' = read
         /\ Own(q)' = Own(q) \union {<<q, n>>}
         /\ \A p \in Requests : p # q => Own(p)' = Own(p)
         /\ \A p \in Requests :
              crowd'[p] = IF p # q /\ At[p] = r /\ IsNew(r, t) /\ Own(p) # {} THEN crowd[p] + 1 ELSE crowd[p]
<1> USE DEF TypeOK, SpansTypeOK
<1>1. /\ byTrace' = [byTrace EXCEPT ![r] = WithSpan(r, t, <<q, n>>)]
      /\ order' = [order EXCEPT ![r] = WithTrace(r, t)]
      /\ exported' = exported \union {<<q, n>>} /\ read' = read
      /\ crowd' = [p \in Requests |->
           IF p # q /\ At[p] = r /\ IsNew(r, t) /\ Own(p) # {} THEN crowd[p] + 1 ELSE crowd[p]]
  BY DEF Export, Buffered
<1>2. \A x \in Replicas : x # r => byTrace'[x] = byTrace[x] /\ order'[x] = order[x]
  BY <1>1
<1>3. byTrace'[r] = WithSpan(r, t, <<q, n>>) /\ order'[r] = WithTrace(r, t)
  BY <1>1
<1>4. DOMAIN byTrace'[r] \subseteq DOMAIN byTrace[r] \union {t}
  BY <1>3 DEF WithSpan
<1>5. Range(order'[r]) \subseteq Range(order[r]) \union {t}
  <2>1. CASE IsNew(r, t)
    <3>1. PICK d \in {0, 1} : d = IF IsFull(r) THEN 1 ELSE 0
      OBVIOUS
    <3>2. order[r] \in Seq(Traces) /\ Len(order[r]) \in Nat
      OBVIOUS
    <3> HIDE DEF TypeOK, SpansTypeOK
    <3>3. /\ WithTrace(r, t) \in Seq(Traces)
          /\ Len(WithTrace(r, t)) = Len(order[r]) + 1 - d
          /\ \A i \in 1..Len(order[r]) - d : WithTrace(r, t)[i] = order[r][i + d]
          /\ WithTrace(r, t)[Len(order[r]) + 1 - d] = t
      <4>1. Moved(WithTrace(r, t), order[r], d, t)
        BY <2>1, <3>1, <3>2, OrderWithTrace
      <4> QED  BY <4>1 DEF Moved
    <3>4. ASSUME NEW i \in 1..Len(order[r]) + 1 - d PROVE WithTrace(r, t)[i] \in Range(order[r]) \union {t}
      <4>1. CASE i = Len(order[r]) + 1 - d
        BY <3>3, <4>1
      <4>2. CASE i # Len(order[r]) + 1 - d
        <5>1. i \in 1..Len(order[r]) - d /\ i + d \in 1..Len(order[r])
          BY <3>2, <4>2, MovedIndex
        <5>2. order[r][i + d] \in Range(order[r])
          BY <3>2, <5>1 DEF Range
        <5> QED  BY <3>3, <5>1, <5>2
      <4> QED  BY <4>1, <4>2
    <3> DEFINE w == WithTrace(r, t)
    <3>5. DOMAIN w = 1..Len(order[r]) + 1 - d
      BY <3>3
    <3> HIDE DEF w
    <3>6. \A i \in DOMAIN w : w[i] \in Range(order[r]) \union {t}
      BY <3>4, <3>5 DEF w
    <3> QED  BY <1>3, <3>6 DEF w, Range
  <2>2. CASE ~IsNew(r, t)
    BY <1>3, <2>2 DEF WithTrace
  <2> QED  BY <2>1, <2>2
<1>6. Own(q)' = Own(q) \union {<<q, n>>}
  BY <1>1 DEF Own
<1>7. \A p \in Requests : p # q => Own(p)' = Own(p)
  BY <1>1 DEF Own
<1> QED  BY <1>1, <1>2, <1>3, <1>4, <1>5, <1>6, <1>7

\* A request reads back its own spans, if it does not lose them on the way.
LEMMA ReadStep ==
  ASSUME TypeOK, Progress, TraceInv, [Next]_vars,
         \A p \in Requests : step[p] = "audit" /\ step'[p] = "audit" =>
           /\ read'[p] = read[p] /\ Own(p)' = Own(p) /\ crowd[p] <= crowd'[p]
           /\ outcome[p] \in {"ok", "error"} /\ HasTraceAlone(p)' => HasTraceAlone(p),
         \A p \in Requests : step[p] = "pop" /\ step'[p] = "audit" => Pop(p, traceOf[p]) /\ traceOf' = traceOf
  PROVE  ReadsOwnTrace'
<1> SUFFICES ASSUME NEW p \in Requests, outcome'[p] \in {"ok", "error"}, step'[p] = "audit",
                    HasTraceAlone(p)', crowd'[p] < MaxTraces
             PROVE  read'[p] = Own(p)'
  BY DEF ReadsOwnTrace
<1> USE ThreadsAssumption, SpansAssumption DEF TypeOK, SpansTypeOK
<1>1. CASE step[p] = "pop"
  <2>1. Pop(p, traceOf[p]) /\ traceOf' = traceOf /\ HasTraceAlone(p)
    BY <1>1 DEF HasTraceAlone
  <2>2. /\ read' = [read EXCEPT ![p] = IF IsNew(At[p], traceOf[p]) THEN {} ELSE byTrace[At[p]][traceOf[p]]]
        /\ UNCHANGED <<order, exported, crowd>>
    BY <2>1 DEF Pop
  <2>3. Whole(p)
    BY <1>1, <2>1, <2>2 DEF TraceInv, BufferHolds, SpansWithSteps, Open
  <2>4. read'[p] = byTrace[At[p]][traceOf[p]]
    BY <2>2, <2>3 DEF Whole, IsNew
  <2> QED  BY <2>2, <2>3, <2>4 DEF Whole, Own
<1>2. CASE step[p] = "audit" /\ outcome'[p] = outcome[p]
  <2>0. crowd[p] <= crowd'[p] /\ read'[p] = read[p] /\ Own(p)' = Own(p) /\ HasTraceAlone(p)
    BY <1>2
  <2>1. crowd[p] < MaxTraces
    <3>1. crowd[p] \in Nat /\ MaxTraces \in Nat
      OBVIOUS
    <3>2. crowd'[p] \in Int
      BY TypeStep
    <3> HIDE DEF TypeOK, SpansTypeOK
    <3> QED  BY <2>0, <3>1, <3>2
  <2> QED  BY <1>2, <2>0, <2>1 DEF TraceInv, ReadsOwnTrace
<1> QED  BY <1>1, <1>2, OutcomeKept

LEMMA ExportKeepsTraces ==
  ASSUME TypeOK, Progress, TraceInv, [Next]_vars, NEW q \in Requests, NEW n \in 0..Nodes,
         step[q] \in {"graph", "root"}, step'[q] \in {"graph", "root", "pop"},
         Export(q, traceOf[q], n, "INTERNAL"), traceOf' = traceOf,
         \A p \in Requests : p # q => step'[p] = step[p]
  PROVE  TraceInv'
<1> DEFINE t == traceOf[q]
           r == At[q]
<1> USE ThreadsAssumption, SpansAssumption DEF TypeOK, SpansTypeOK
<1>0. t \in Traces /\ \A p \in Requests : At[p] \in Replicas
  BY DEF Progress, Threads
<1>1. /\ \A x \in Replicas : x # r => byTrace'[x] = byTrace[x] /\ order'[x] = order[x]
      /\ byTrace'[r] = WithSpan(r, t, <<q, n>>) /\ order'[r] = WithTrace(r, t)
      /\ DOMAIN byTrace'[r] \union Range(order'[r]) \subseteq DOMAIN byTrace[r] \union Range(order[r]) \union {t}
      /\ read' = read
      /\ Own(q)' = Own(q) \union {<<q, n>>}
      /\ \A p \in Requests : p # q => Own(p)' = Own(p)
      /\ \A p \in Requests :
           crowd'[p] = IF p # q /\ At[p] = r /\ IsNew(r, t) /\ Own(p) # {} THEN crowd[p] + 1 ELSE crowd[p]
  <2> HIDE DEF TypeOK, SpansTypeOK
  <2> QED  BY <1>0, ExportEffect
<1>2. \A p \in Requests : HasTraceAlone(p)' <=> HasTraceAlone(p)
  BY DEF HasTraceAlone
<1>3. \A p \in Requests : crowd[p] <= crowd'[p] /\ crowd[p] \in Nat /\ crowd'[p] \in Nat
  <2>1. \A p \in Requests : crowd[p] \in Nat
    OBVIOUS
  <2> HIDE DEF TypeOK, SpansTypeOK, t, r
  <2> QED  BY <1>1, <2>1
<1>4. TracesOpened'
  BY <1>0, <1>1 DEF TraceInv, TracesOpened
<1>5. SpansWithSteps'
  <2>1. \A p \in Requests : p # q /\ step'[p] = "audit" /\ outcome'[p] \in {"ok", "error"} =>
                              traceOf[p] \in Traces
    BY OutcomeKept DEF TraceInv, SpansWithSteps, Progress
  <2> QED  BY <1>1, <2>1 DEF TraceInv, SpansWithSteps
<1>6. ReadsOwnTrace'
  BY <1>1, <1>2, <1>3, ReadStep
<1>7. BufferHolds'
  <2> SUFFICES ASSUME NEW p \in Requests, Open(p)', HasTraceAlone(p), crowd'[p] < MaxTraces
               PROVE  IF Own(p)' = {} THEN Untouched(p)' ELSE Whole(p)'
    BY <1>2 DEF BufferHolds
  <2>0. Open(p) /\ (IF Own(p) = {} THEN Untouched(p) ELSE Whole(p))
    BY <1>3 DEF TraceInv, BufferHolds, Open
  <2> DEFINE u == traceOf[p]
             o == order[r]
  <2>1. PICK d \in {0, 1} : d = IF IsFull(r) THEN 1 ELSE 0
    OBVIOUS
  <2>2. o \in Seq(Traces) /\ Len(o) \in Nat /\ r \in Replicas
    BY <1>0
  <2>3. IsNew(r, t) =>
          /\ Len(order'[r]) = Len(o) + 1 - d
          /\ \A i \in 1..Len(o) - d : order'[r][i] = o[i + d]
          /\ order'[r][Len(o) + 1 - d] = t
    <3> SUFFICES ASSUME IsNew(r, t) PROVE Moved(order'[r], o, d, t)
      BY DEF Moved
    <3> HIDE DEF TypeOK, SpansTypeOK, t, r
    <3>1. Moved(WithTrace(r, t), o, d, t)
      BY <1>0, <2>1, <2>2, OrderWithTrace
    <3> QED  BY <1>1, <3>1
  <2>4. CASE p = q
    <3>1. Own(p)' # {}
      BY <1>1, <2>4
    <3>2. CASE Own(q) = {}
      <4>1. IsNew(r, t) /\ t \notin Range(o) /\ t \notin DOMAIN byTrace[r]
        BY <2>0, <2>4, <3>2 DEF Untouched, IsNew
      <4>2. t \in DOMAIN byTrace'[r] /\ byTrace'[r][t] = {<<q, n>>}
        BY <1>1, <4>1 DEF WithSpan
      <4>3. \A i \in 1..Len(o) : o[i] # t
        BY <2>2, <4>1 DEF Range
      <4>4. ASSUME NEW i \in 1..Len(order'[r]), order'[r][i] = t PROVE Len(order'[r]) - i <= crowd'[q]
        <5>1. i = Len(o) + 1 - d
          <6> SUFFICES ASSUME i # Len(o) + 1 - d PROVE FALSE
            OBVIOUS
          <6>1. i \in 1..Len(o) - d /\ i + d \in 1..Len(o)
            <7> HIDE DEF TypeOK, SpansTypeOK
            <7> QED  BY <2>2, <2>3, <4>1, <4>4, MovedIndex
          <6> QED  BY <2>3, <4>1, <4>3, <4>4, <6>1
        <5>2. Len(order'[r]) = Len(o) + 1 - d /\ crowd'[q] \in Nat
          BY <1>3, <2>3, <4>1
        <5> HIDE DEF TypeOK, SpansTypeOK, o
        <5> QED  BY <2>2, <4>4, <5>1, <5>2, StartedSince
      <4>5. Whole(q)'
        BY <1>1, <3>2, <4>2, <4>4 DEF Whole
      <4> QED  BY <2>4, <3>1, <4>5
    <3>3. CASE Own(q) # {}
      <4>1. ~IsNew(r, t) /\ Whole(q)
        BY <2>0, <2>4, <3>3 DEF Whole, IsNew
      <4>2. Victims(r, t) = {} /\ order'[r] = o
        BY <1>1, <4>1 DEF Victims, WithTrace
      <4>3. t \in DOMAIN byTrace'[r] /\ byTrace'[r][t] = byTrace[r][t] \union {<<q, n>>}
        BY <1>1, <4>1, <4>2 DEF WithSpan, Whole
      <4>4. crowd'[q] = crowd[q]
        BY <1>1
      <4>5. Whole(q)'
        BY <1>1, <4>1, <4>2, <4>3, <4>4 DEF Whole
      <4> QED  BY <2>4, <3>1, <4>5
    <3> QED  BY <3>2, <3>3
  <2>5. CASE p # q /\ At[p] # r
    <3>1. /\ byTrace'[At[p]] = byTrace[At[p]] /\ order'[At[p]] = order[At[p]]
          /\ Own(p)' = Own(p) /\ crowd'[p] = crowd[p]
      BY <1>0, <1>1, <2>5
    <3> QED  BY <2>0, <3>1 DEF Untouched, Whole
  <2>6. CASE p # q /\ At[p] = r
    <3>0. u # t /\ Own(p)' = Own(p)
      BY <1>1, <2>6 DEF HasTraceAlone
    <3>1. CASE Own(p) = {}
      <4>1. u \notin DOMAIN byTrace'[r] \union Range(order'[r])
        BY <1>1, <2>0, <2>6, <3>0, <3>1 DEF Untouched
      <4> QED  BY <2>6, <3>0, <3>1, <4>1 DEF Untouched
    <3>2. CASE Own(p) # {}
      <4>0. /\ u \in DOMAIN byTrace[r] /\ byTrace[r][u] = Own(p)
            /\ \A i \in 1..Len(o) : o[i] = u => Len(o) - i <= crowd[p]
        BY <2>0, <2>6, <3>2 DEF Whole
      <4>1. u \notin Victims(r, t)
        <5> SUFFICES ASSUME IsNew(r, t), IsFull(r), u = Head(o) PROVE FALSE
          BY DEF Victims
        <5>1. Len(o) = MaxTraces /\ MaxTraces \in Nat \ {0}
          BY DEF IsFull
        <5>2. o[1] = u
          BY <2>2, <5>1
        <5>3. MaxTraces - 1 <= crowd[p]
          BY <4>0, <5>1, <5>2
        <5>4. crowd'[p] = crowd[p] + 1
          BY <1>1, <2>6, <3>2
        <5> QED  BY <1>3, <5>1, <5>3, <5>4
      <4>2. u \in DOMAIN byTrace'[r] /\ byTrace'[r][u] = Own(p)
        BY <1>1, <3>0, <4>0, <4>1 DEF WithSpan
      <4>3. ASSUME NEW i \in 1..Len(order'[r]), order'[r][i] = u PROVE Len(order'[r]) - i <= crowd'[p]
        <5>1. CASE IsNew(r, t)
          <6>1. i # Len(o) + 1 - d
            BY <2>3, <3>0, <4>3, <5>1
          <6>2. i \in 1..Len(o) - d /\ i + d \in 1..Len(o)
            <7> HIDE DEF TypeOK, SpansTypeOK, o
            <7> QED  BY <2>2, <2>3, <4>3, <5>1, <6>1, MovedIndex
          <6>3. Len(o) - (i + d) <= crowd[p]
            BY <2>3, <4>0, <4>3, <5>1, <6>2
          <6>4. crowd'[p] = crowd[p] + 1
            BY <1>1, <2>6, <3>2, <5>1
          <6>5. crowd[p] \in Nat /\ Len(order'[r]) = Len(o) + 1 - d
            BY <1>3, <2>3, <5>1
          <6> HIDE DEF TypeOK, SpansTypeOK, o
          <6> QED  BY <2>2, <4>3, <6>3, <6>4, <6>5, StartedSince
        <5>2. CASE ~IsNew(r, t)
          <6>1. order'[r] = o /\ crowd'[p] = crowd[p]
            BY <1>1, <5>2 DEF WithTrace
          <6> QED  BY <4>0, <4>3, <6>1
        <5> QED  BY <5>1, <5>2
      <4>4. Whole(p)'
        BY <2>6, <3>0, <4>2, <4>3 DEF Whole
      <4> QED  BY <3>0, <3>2, <4>4
    <3> QED  BY <3>1, <3>2
  <2> QED  BY <2>4, <2>5, <2>6
<1> QED  BY <1>4, <1>5, <1>6, <1>7 DEF TraceInv

LEMMA PopKeepsTraces ==
  ASSUME TypeOK, Progress, TraceInv, [Next]_vars, NEW q \in Requests,
         step[q] = "pop", step'[q] = "audit", Pop(q, traceOf[q]), traceOf' = traceOf,
         \A p \in Requests : p # q => step'[p] = step[p]
  PROVE  TraceInv'
<1> DEFINE t == traceOf[q]
           r == At[q]
<1> USE ThreadsAssumption, SpansAssumption DEF TypeOK, SpansTypeOK
<1>0. t \in Traces /\ \A p \in Requests : At[p] \in Replicas
  BY DEF Progress, Threads
<1>1. /\ read' = [read EXCEPT ![q] = IF IsNew(r, t) THEN {} ELSE byTrace[r][t]]
      /\ byTrace' = [byTrace EXCEPT ![r] = Restrict(byTrace[r], DOMAIN byTrace[r] \ {t})]
      /\ UNCHANGED <<order, exported, crowd>>
  BY DEF Pop
<1>2. \A p \in Requests : Own(p)' = Own(p) /\ (HasTraceAlone(p)' <=> HasTraceAlone(p))
  BY <1>1 DEF Own, HasTraceAlone
<1>3. \A x \in Replicas : DOMAIN byTrace'[x] \subseteq DOMAIN byTrace[x]
  BY <1>0, <1>1 DEF Restrict
<1>4. TracesOpened'
  BY <1>1, <1>3, ZenonT(30) DEF TraceInv, TracesOpened
<1>5. SpansWithSteps'
  <2>1. \A p \in Requests : step'[p] = "audit" /\ outcome'[p] \in {"ok", "error"} => traceOf[p] \in Traces
    BY OutcomeKept DEF TraceInv, SpansWithSteps, Progress
  <2> QED  BY <1>2, <2>1 DEF TraceInv, SpansWithSteps
<1>6. ReadsOwnTrace'
  <2>1. \A p \in Requests : step[p] = "audit" => p # q /\ read'[p] = read[p] /\ crowd[p] <= crowd'[p]
    BY <1>1
  <2>2. \A p \in Requests : step[p] = "pop" /\ step'[p] = "audit" => p = q
    OBVIOUS
  <2> QED  BY <1>2, <2>1, <2>2, ReadStep
<1>7. BufferHolds'
  <2> SUFFICES ASSUME NEW p \in Requests, Open(p)', HasTraceAlone(p), crowd[p] < MaxTraces
               PROVE  IF Own(p)' = {} THEN Untouched(p)' ELSE Whole(p)'
    BY <1>1, <1>2 DEF BufferHolds
  <2>0. p # q /\ Open(p) /\ (IF Own(p) = {} THEN Untouched(p) ELSE Whole(p))
    BY DEF TraceInv, BufferHolds, Open
  <2>1. traceOf[p] # t
    BY <2>0 DEF HasTraceAlone
  <2>2. CASE Own(p) = {}
    BY <1>0, <1>1, <1>2, <1>3, <2>0, <2>2 DEF Untouched
  <2>3. CASE Own(p) # {}
    <3>1. traceOf[p] \in DOMAIN byTrace'[At[p]] /\ byTrace'[At[p]][traceOf[p]] = byTrace[At[p]][traceOf[p]]
      BY <1>0, <1>1, <2>0, <2>1, <2>3 DEF Whole, Restrict
    <3> QED  BY <1>1, <1>2, <2>0, <2>3, <3>1 DEF Whole
  <2> QED  BY <2>2, <2>3
<1> QED  BY <1>4, <1>5, <1>6, <1>7 DEF TraceInv

LEMMA ForgetKeepsTraces ==
  ASSUME TypeOK, Progress, TraceInv, [Next]_vars, NEW q \in Requests,
         step[q] = "audit", step'[q] = "respond", exported' = exported \ Own(q),
         read' = [read EXCEPT ![q] = {}], crowd' = [crowd EXCEPT ![q] = 0],
         UNCHANGED <<byTrace, order>>, traceOf' = traceOf,
         \A p \in Requests : p # q => step'[p] = step[p]
  PROVE  TraceInv'
<1> USE DEF TypeOK, SpansTypeOK
<1>1. \A p \in Requests : p # q => Own(p)' = Own(p) /\ read'[p] = read[p] /\ crowd'[p] = crowd[p]
  BY DEF Own
<1>2. \A p \in Requests : HasTraceAlone(p)' <=> HasTraceAlone(p)
  BY DEF HasTraceAlone
<1>3. TracesOpened'
  BY DEF TraceInv, TracesOpened
<1>4. SpansWithSteps'
  <2>1. \A p \in Requests : step'[p] = "audit" /\ outcome'[p] \in {"ok", "error"} => traceOf[p] \in Traces
    BY OutcomeKept DEF TraceInv, SpansWithSteps, Progress
  <2> QED  BY <1>1, <2>1 DEF TraceInv, SpansWithSteps
<1>5. ReadsOwnTrace'
  <2>1. \A p \in Requests : step'[p] = "audit" => p # q /\ step[p] = "audit"
    OBVIOUS
  <2>2. \A p \in Requests : p # q => crowd[p] <= crowd'[p]
    BY <1>1
  <2> QED  BY <1>1, <1>2, <2>1, <2>2, ReadStep
<1>6. BufferHolds'
  <2>1. \A p \in Requests : Open(p)' => p # q /\ Open(p)
    BY DEF Open
  <2> QED  BY <1>1, <1>2, <2>1 DEF TraceInv, BufferHolds, Untouched, Whole
<1> QED  BY <1>3, <1>4, <1>5, <1>6 DEF TraceInv

LEMMA OpeningKeepsTraces ==
  ASSUME TypeOK, Progress, TraceInv, [Next]_vars, NEW q \in Requests, NEW t \in Traces,
         step[q] = "guard", step'[q] = "graph", traceOf' = [traceOf EXCEPT ![q] = t], UNCHANGED spanVars,
         \A p \in Requests : p # q => step'[p] = step[p]
  PROVE  TraceInv'
<1> USE ThreadsAssumption, ServiceAssumption DEF TypeOK, SpansTypeOK
<1>0. \A p \in Requests : At[p] \in Replicas
  BY DEF Threads
<1>1. /\ UNCHANGED <<byTrace, order, exported, read, crowd>>
      /\ \A p \in Requests : Own(p)' = Own(p)
      /\ \A p \in Requests : traceOf'[p] = IF p = q THEN t ELSE traceOf[p]
  BY DEF spanVars, Own
<1>2. traceOf[q] = NoTrace /\ Own(q) = {}
  BY DEF TraceInv, SpansWithSteps
<1>3. ASSUME NEW p \in Requests, p # q, traceOf[p] \in Traces, HasTraceAlone(p)' PROVE HasTraceAlone(p)
  BY <1>1, <1>2, <1>3 DEF HasTraceAlone
<1>4. TracesOpened'
  <2> SUFFICES ASSUME NEW r \in Replicas, NEW u \in DOMAIN byTrace[r] \union Range(order[r])
               PROVE  \E p \in Requests : traceOf'[p] = u
    BY <1>1 DEF TracesOpened
  <2>1. u \in Traces
    BY DEF Range
  <2>2. PICK p \in Requests : traceOf[p] = u
    BY DEF TraceInv, TracesOpened
  <2> QED  BY <1>1, <1>2, <2>1, <2>2
<1>5. SpansWithSteps'
  <2>1. \A p \in Requests : p # q /\ step'[p] = "audit" /\ outcome'[p] \in {"ok", "error"} =>
                              traceOf[p] \in Traces
    BY OutcomeKept DEF TraceInv, SpansWithSteps, Progress
  <2> QED  BY <1>1, <2>1 DEF TraceInv, SpansWithSteps
<1>6. ReadsOwnTrace'
  <2>1. \A p \in Requests : step[p] = "audit" /\ outcome[p] \in {"ok", "error"} /\ HasTraceAlone(p)' =>
                              HasTraceAlone(p)
    BY <1>3 DEF TraceInv, SpansWithSteps
  <2>2. \A p \in Requests : crowd[p] <= crowd'[p]
    BY <1>1
  <2>3. \A p \in Requests : ~(step[p] = "pop" /\ step'[p] = "audit")
    OBVIOUS
  <2> QED  BY <1>1, <2>1, <2>2, <2>3, ReadStep
<1>7. BufferHolds'
  <2> SUFFICES ASSUME NEW p \in Requests, Open(p)', HasTraceAlone(p)', crowd[p] < MaxTraces
               PROVE  IF Own(p)' = {} THEN Untouched(p)' ELSE Whole(p)'
    BY <1>1 DEF BufferHolds
  <2>1. CASE p = q
    <3>1. \A x \in Requests : traceOf[x] # t
      BY <1>1, <1>2, <2>1 DEF HasTraceAlone
    <3>2. t \notin DOMAIN byTrace[At[q]] \union Range(order[At[q]])
      BY <1>0, <3>1 DEF TraceInv, TracesOpened
    <3> QED  BY <1>1, <1>2, <2>1, <3>2 DEF Untouched
  <2>2. CASE p # q
    <3>1. Open(p) /\ traceOf[p] \in Traces
      BY <2>2 DEF Open, Progress
    <3>2. IF Own(p) = {} THEN Untouched(p) ELSE Whole(p)
      BY <1>3, <2>2, <3>1 DEF TraceInv, BufferHolds
    <3> QED  BY <1>1, <2>2, <3>2 DEF Untouched, Whole
  <2> QED  BY <2>1, <2>2
<1> QED  BY <1>4, <1>5, <1>6, <1>7 DEF TraceInv

LEMMA RestKeepsTraces ==
  ASSUME TypeOK, Progress, TraceInv, [Next]_vars, UNCHANGED <<spanVars, traceOf>>,
         \A p \in Requests :
           \/ step'[p] = step[p]
           \/ Skips(p)
  PROVE  TraceInv'
<1> USE DEF TypeOK, SpansTypeOK, Skips
<1>1. /\ UNCHANGED <<byTrace, order, exported, read, crowd>>
      /\ \A p \in Requests : Own(p)' = Own(p) /\ (HasTraceAlone(p)' <=> HasTraceAlone(p))
  BY DEF spanVars, Own, HasTraceAlone
<1>2. TracesOpened'
  BY <1>1 DEF TraceInv, TracesOpened
<1>3. SpansWithSteps'
  <2>1. \A p \in Requests : step'[p] = "audit" /\ outcome'[p] \in {"ok", "error"} => traceOf[p] \in Traces
    BY OutcomeKept DEF TraceInv, SpansWithSteps, Progress
  <2> QED  BY <1>1, <2>1 DEF TraceInv, SpansWithSteps
<1>4. ReadsOwnTrace'
  <2>1. \A p \in Requests : crowd[p] <= crowd'[p]
    BY <1>1
  <2>2. \A p \in Requests : ~(step[p] = "pop" /\ step'[p] = "audit")
    OBVIOUS
  <2> QED  BY <1>1, <2>1, <2>2, ReadStep
<1>5. BufferHolds'
  <2>1. \A p \in Requests : Open(p)' => Open(p)
    BY DEF Open
  <2> QED  BY <1>1, <2>1 DEF TraceInv, BufferHolds, Untouched, Whole
<1> QED  BY <1>2, <1>3, <1>4, <1>5 DEF TraceInv

LEMMA TraceStep ==
  ASSUME TypeOK, Progress, TraceInv, [Next]_vars
  PROVE  TraceInv'
<1>1. ASSUME NEW q \in Requests, SpanMove(q), traceOf' = traceOf, \A p \in Requests : p # q => step'[p] = step[p]
      PROVE  TraceInv'
  BY <1>1, ExportKeepsTraces, PopKeepsTraces, ForgetKeepsTraces DEF SpanMove
<1>2. ASSUME NEW q \in Requests, NEW t \in Traces, step[q] = "guard", step'[q] = "graph",
             traceOf' = [traceOf EXCEPT ![q] = t], UNCHANGED spanVars,
             \A p \in Requests : p # q => step'[p] = step[p]
      PROVE  TraceInv'
  BY <1>2, OpeningKeepsTraces
<1> QED  BY <1>1, <1>2, RestKeepsTraces, SpanMoves

\* A request alone with its trace reads back its own spans and no others, while
\* fewer traces than the buffer keeps were started at its replica since its own.
THEOREM OwnTraceBack == Spec => []ReadsOwnTrace
<1>1. Init => TraceInv
  <2> SUFFICES ASSUME Init PROVE TraceInv
    OBVIOUS
  <2>1. \A q \in Requests : Own(q) = {} /\ step[q] = "auth" /\ traceOf[q] = NoTrace
    BY DEF Init, SpansInit, Own
  <2>2. \A r \in Replicas : DOMAIN byTrace[r] = {} /\ Range(order[r]) = {}
    BY DEF Init, SpansInit, Range
  <2> QED  BY <2>1, <2>2 DEF TraceInv, TracesOpened, SpansWithSteps, BufferHolds, Open, ReadsOwnTrace
<1>2. TraceInv => ReadsOwnTrace
  BY DEF TraceInv
<1> QED  BY <1>1, <1>2, TraceStep, ServiceTypeCorrect, PTL DEF Spec
=============================================================================
