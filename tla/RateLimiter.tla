---------------------------- MODULE RateLimiter -----------------------------
(***************************************************************************)
(* The fixed-window rate limiter of src/copilot/infra/ratelimit.py: a      *)
(* request reads the clock, then counts itself in the window it read, in   *)
(* Redis (one MULTI/EXEC) or, without Redis, in the dict of its process    *)
(* under a lock.  The window may end between the two.  A Redis error lets  *)
(* the request through, whether or not Redis executed the increment.       *)
(***************************************************************************)
EXTENDS Integers, ApiThreads

CONSTANTS
  Callers,     \* the subjects or client addresses quotas belong to
  CallerOf,    \* CallerOf[q]: its caller
  Redis,       \* the shared backend
  Limit,       \* rate_limit_per_minute
  MaxWindow,   \* bound: windows of a behaviour
  MaxErrors    \* bound: Redis errors

ASSUME LimiterAssumption ==
  /\ CallerOf \in [Requests -> Callers]
  /\ Redis \notin Replicas
  /\ Limit \in Nat \ {0} /\ MaxWindow \in Nat /\ MaxErrors \in Nat

VARIABLES
  withRedis,   \* settings.redis_url is set
  clock,       \* the current window
  window,      \* window[q]: the window hit() computed
  counts,      \* the counters: _counts, or the Redis keys; 0 is a missing key
  verdict,     \* verdict[q]: "none", "reading", "allowed" or "denied"
  admitted,    \* history: the requests allowed, by counter
  late,        \* history: a request counted itself in a window that was over
  errors

limiterVars == <<withRedis, clock, window, counts, verdict, admitted, late, errors>>

\* Where a request's counter lives.
Store(q) == IF withRedis THEN Redis ELSE At[q]

Keys == (Replicas \union {Redis}) \X Callers \X (0..MaxWindow)

KeyOf(q) == <<Store(q), CallerOf[q], window[q]>>

Verdicts == {"none", "reading", "allowed", "denied"}

-----------------------------------------------------------------------------
(* Mutated forms, none of which a step uses.                               *)

Allowed_below_limit(n) == n < Limit
Kept_none(k, q) == FALSE
-----------------------------------------------------------------------------
\* _window: the start of the window the clock is in.
WindowNow == clock

\* hit() reads the clock before it takes the lock or calls Redis.
ReadClock(q) ==
  /\ verdict[q] = "none"
  /\ window' = [window EXCEPT ![q] = WindowNow]
  /\ verdict' = [verdict EXCEPT ![q] = "reading"]
  /\ UNCHANGED <<withRedis, clock, counts, admitted, late, errors>>

\* A request is within the limit when it is among the first Limit counted.
Allowed(n) == n <= Limit

\* The process-local dict drops the windows before the one being hit.
Kept(k, q) == k[1] # At[q] \/ k[3] >= window[q]

Decide(q, ok) ==
  /\ verdict' = [verdict EXCEPT ![q] = IF ok THEN "allowed" ELSE "denied"]
  /\ admitted' = [admitted EXCEPT ![KeyOf(q)] = IF ok THEN @ + 1 ELSE @]
  /\ late' = (late \/ window[q] < clock)

\* InMemoryRateLimiter.hit, under its lock.
HitMemory(q) ==
  /\ verdict[q] = "reading" /\ ~withRedis
  /\ counts' = [k \in Keys |-> IF k = KeyOf(q) THEN counts[k] + 1 ELSE IF Kept(k, q) THEN counts[k] ELSE 0]
  /\ Decide(q, Allowed(counts[KeyOf(q)] + 1))
  /\ UNCHANGED <<withRedis, clock, window, errors>>

\* RedisRateLimiter.hit: INCR and EXPIRE in one transaction.
HitRedis(q) ==
  /\ verdict[q] = "reading" /\ withRedis
  /\ counts' = [counts EXCEPT ![KeyOf(q)] = @ + 1]
  /\ Decide(q, Allowed(counts[KeyOf(q)] + 1))
  /\ UNCHANGED <<withRedis, clock, window, errors>>

\* A RedisError fails open, before or after Redis ran the transaction.
FailOpen(q) ==
  /\ verdict[q] = "reading" /\ withRedis
  /\ errors < MaxErrors
  /\ errors' = errors + 1
  /\ counts' \in {counts, [counts EXCEPT ![KeyOf(q)] = @ + 1]}
  /\ Decide(q, TRUE)
  /\ UNCHANGED <<withRedis, clock, window>>

Hit(q) == HitMemory(q) \/ HitRedis(q)

\* The window ends.  A hit takes less than a window (the Redis client times
\* out after a quarter of a second), so it is late by one window at most; a
\* Redis key outlives its window by one more.
Tick ==
  /\ clock < MaxWindow
  /\ \A q \in Requests : verdict[q] = "reading" => window[q] = clock
  /\ clock' = clock + 1
  /\ counts' = [k \in Keys |-> IF k[1] = Redis /\ k[3] + 2 <= clock THEN 0 ELSE counts[k]]
  /\ UNCHANGED <<withRedis, window, verdict, admitted, late, errors>>

-----------------------------------------------------------------------------
LimiterInit ==
  /\ withRedis \in BOOLEAN
  /\ clock = 0 /\ late = FALSE /\ errors = 0
  /\ window = [q \in Requests |-> 0]
  /\ counts = [k \in Keys |-> 0]
  /\ verdict = [q \in Requests |-> "none"]
  /\ admitted = [k \in Keys |-> 0]

LimiterNext ==
  \/ \E q \in Requests : ReadClock(q) \/ Hit(q) \/ FailOpen(q)
  \/ Tick

LimiterSpec == LimiterInit /\ [][LimiterNext]_limiterVars

-----------------------------------------------------------------------------
(* Properties                                                              *)

LimiterTypeOK ==
  /\ withRedis \in BOOLEAN /\ late \in BOOLEAN
  /\ clock \in 0..MaxWindow /\ errors \in 0..MaxErrors
  /\ window \in [Requests -> 0..MaxWindow]
  /\ counts \in [Keys -> Nat]
  /\ verdict \in [Requests -> Verdicts]
  /\ admitted \in [Keys -> Nat]

\* No caller is let through more than Limit times a window: with Redis as long
\* as Redis answers, also when the window ends while a request is being
\* counted; in memory when no request is that late.  A late request finds its
\* counter pruned by a newer one, and starts it over.
WindowLimit ==
  (IF withRedis THEN errors = 0 ELSE ~late) => \A k \in Keys : admitted[k] <= Limit

\* No caller is turned away before Limit of its requests got through in that
\* window, whatever errors and late requests there were.
NoEarlyDenial ==
  \A q \in Requests : verdict[q] = "denied" => admitted[KeyOf(q)] >= Limit
=============================================================================
