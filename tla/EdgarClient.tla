---------------------------- MODULE EdgarClient -----------------------------
(***************************************************************************)
(* The SEC client of src/filings/edgar.py: the calls of several threads,   *)
(* each with its retries and backoff, share one token bucket.              *)
(*                                                                         *)
(* Time is counted in ticks of 1/(rate * Grain) seconds and tokens in      *)
(* units of 1/Grain, so that one tick refills one unit: the code's floats  *)
(* with Grain as their resolution.  Only relative times are kept.          *)
(***************************************************************************)
EXTENDS Integers

CONSTANTS
  Threads,      \* threads that share the client
  Capacity,     \* capacity of the bucket, in tokens
  Grain,        \* units of a token
  MaxRetries,   \* max_retries
  Backoff,      \* Backoff[a]: the longest sleep after attempt a, in ticks
  Window,       \* the longest span over which requests are counted, in ticks
  Calls         \* bound: calls a thread makes

ASSUME EdgarAssumption ==
  /\ Capacity \in Nat \ {0} /\ Grain \in Nat \ {0}
  /\ MaxRetries \in Nat /\ Window \in Nat /\ Calls \in Nat
  /\ Backoff \in [0..MaxRetries -> Nat]

VARIABLES
  tokens,    \* bucket._tokens, in units
  elapsed,   \* ticks since bucket._last, as many as can matter
  pc,        \* pc[t]: where a thread is
  left,      \* left[t]: ticks it still has to sleep
  attempt,   \* attempt[t]: `attempt` in _get
  todo,      \* todo[t]: calls it has still to make
  since,     \* history: since[a], the requests of the last a ticks and the current one
  beaten     \* history: beaten[t], another thread took a token since t looked

vars == <<tokens, elapsed, pc, left, attempt, todo, since, beaten>>

Full == Capacity * Grain

Min2(a, b) == IF a <= b THEN a ELSE b

Spans == 0..Window

-----------------------------------------------------------------------------
(* Mutated forms, none of which a step uses.                               *)

Refilled_uncapped == tokens + elapsed
Shortfall_rounded_down == Grain - tokens - elapsed - 1
NextAttempt_same(a) == a
-----------------------------------------------------------------------------
\* What the bucket holds once the time since the last look is credited.
Refilled == Min2(Full, tokens + elapsed)

\* The time until a whole token is there, as the thread that looks computes it.
Shortfall == Grain - Refilled

\* acquire() under the bucket's lock: refill, then take a token if there is one.
TakeToken(t) ==
  /\ pc[t] = "acquire" /\ Refilled >= Grain
  /\ tokens' = Refilled - Grain /\ elapsed' = 0
  /\ pc' = [pc EXCEPT ![t] = "http"]
  /\ since' = [a \in Spans |-> since[a] + 1]
  /\ beaten' = [u \in Threads |-> u # t]
  /\ UNCHANGED <<left, attempt, todo>>

\* acquire() finds no token: it sleeps outside the lock and looks again.
Wait(t) ==
  /\ pc[t] = "acquire" /\ Refilled < Grain
  /\ tokens' = Refilled /\ elapsed' = 0
  /\ pc' = [pc EXCEPT ![t] = "wait"]
  /\ left' = [left EXCEPT ![t] = Shortfall]
  /\ beaten' = [beaten EXCEPT ![t] = FALSE]
  /\ UNCHANGED <<attempt, todo, since>>

\* A sleep ends, that of the bucket or that of the backoff.
WakeUp(t) ==
  /\ pc[t] \in {"wait", "backoff"} /\ left[t] = 0
  /\ pc' = [pc EXCEPT ![t] = "acquire"]
  /\ UNCHANGED <<tokens, elapsed, left, attempt, todo, since, beaten>>

\* company_facts, submissions and filing_document are one _get each.
Call(t) ==
  /\ pc[t] = "idle" /\ todo[t] > 0
  /\ pc' = [pc EXCEPT ![t] = "acquire"]
  /\ attempt' = [attempt EXCEPT ![t] = 0]
  /\ todo' = [todo EXCEPT ![t] = @ - 1]
  /\ UNCHANGED <<tokens, elapsed, left, since, beaten>>

\* A response below 400 is returned; any other that is not retryable raises.
Answered(t) ==
  /\ pc[t] = "http"
  /\ pc' = [pc EXCEPT ![t] = "idle"]
  /\ UNCHANGED <<tokens, elapsed, left, attempt, todo, since, beaten>>

GivesUp(t) == attempt[t] = MaxRetries

NextAttempt(a) == a + 1

\* 429, 5xx or a transport error: sleep with full jitter and try again, or
\* raise after the last attempt.
Failed(t) ==
  /\ pc[t] = "http"
  /\ \/ /\ GivesUp(t)
        /\ pc' = [pc EXCEPT ![t] = "idle"]
        /\ UNCHANGED <<left, attempt>>
     \/ /\ ~GivesUp(t)
        /\ \E d \in 0..Backoff[attempt[t]] : left' = [left EXCEPT ![t] = d]
        /\ attempt' = [attempt EXCEPT ![t] = NextAttempt(@)]
        /\ pc' = [pc EXCEPT ![t] = "backoff"]
  /\ UNCHANGED <<tokens, elapsed, todo, since, beaten>>

\* A tick of time.  Time since the last look beyond what fills an empty
\* bucket does not matter.
Tick ==
  /\ elapsed' = Min2(Full, elapsed + 1)
  /\ left' = [t \in Threads |-> IF left[t] = 0 THEN 0 ELSE left[t] - 1]
  /\ since' = [a \in Spans |-> IF a = 0 THEN 0 ELSE since[a - 1]]
  /\ UNCHANGED <<tokens, pc, attempt, todo, beaten>>

-----------------------------------------------------------------------------
Init ==
  /\ tokens = Full /\ elapsed = 0
  /\ pc = [t \in Threads |-> "idle"]
  /\ left = [t \in Threads |-> 0]
  /\ attempt = [t \in Threads |-> 0]
  /\ todo = [t \in Threads |-> Calls]
  /\ since = [a \in Spans |-> 0]
  /\ beaten = [t \in Threads |-> FALSE]

Thread(t) ==
  TakeToken(t) \/ Wait(t) \/ WakeUp(t) \/ Call(t) \/ Answered(t) \/ Failed(t)

Next == Tick \/ \E t \in Threads : Thread(t)

Spec == Init /\ [][Next]_vars

\* Threads keep running, requests end (the HTTP client has a timeout) and time
\* passes.
FairSpec == Spec /\ WF_vars(Tick) /\ \A t \in Threads : WF_vars(Thread(t))

-----------------------------------------------------------------------------
(* Properties                                                              *)

Places == {"idle", "acquire", "wait", "http", "backoff"}

TypeOK ==
  /\ tokens \in 0..Full /\ elapsed \in 0..Full
  /\ pc \in [Threads -> Places]
  /\ left \in [Threads -> Nat]
  /\ attempt \in [Threads -> 0..MaxRetries]
  /\ todo \in [Threads -> 0..Calls]
  /\ since \in [Spans -> Nat]
  /\ beaten \in [Threads -> BOOLEAN]

\* In any span of time the requests of all threads are at most the bucket's
\* capacity and one for each token the span refills.
WithinBudget == \A a \in Spans : Grain * since[a] <= Full + a

\* What the bucket can grant at once is part of the same budget.
BudgetInv == \A a \in Spans : Grain * since[a] + Refilled <= Full + a

\* A sleep is long enough: unless another thread takes a token meanwhile, a
\* thread that wakes up finds one.
WaitIsEnough ==
  \A t \in Threads : pc[t] = "wait" /\ ~beaten[t] => Refilled + left[t] >= Grain

\* Every call returns or raises, whatever SEC answers and whoever else takes
\* tokens.
Returns == \A t \in Threads : pc[t] # "idle" ~> pc[t] = "idle"
=============================================================================
