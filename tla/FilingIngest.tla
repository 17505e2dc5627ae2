---------------------------- MODULE FilingIngest ----------------------------
(***************************************************************************)
(* Ingestion of filings over Redis Streams: the pollers that publish each  *)
(* filing once (src/streaming/poller.py), the consumer group `ingest` on   *)
(* edgar:filings with its pending list, and the workers that turn a filing *)
(* into facts on edgar:facts or into an entry of the dead-letter stream    *)
(* (src/streaming/worker.py).                                              *)
(*                                                                         *)
(* One action is one Redis call, since another process may run between any *)
(* two.  A message id is the position of its entry in edgar:filings.  A    *)
(* process crash and a RedisError that run_forever catches leave the same  *)
(* state behind: the local variables of the round are gone, and what Redis *)
(* executed stays executed, whether or not its reply arrived.              *)
(***************************************************************************)
EXTENDS Integers, Sequences, FiniteSets, Functions

CONSTANTS
  Pollers,        \* processes running the poller
  Workers,        \* consumers of the group
  Filings,        \* the accessions EDGAR lists
  Parses,         \* the filings whose source may return facts
  Raises,         \* the filings whose source may raise an Exception
  Kills,          \* the filings whose source may kill the worker process
  NoFiling,       \* "no filing in hand"
  MaxDeliveries,  \* max_deliveries
  Batch,          \* batch: the COUNT of a read or a claim
  MaxLen,         \* STREAM_MAXLEN of edgar:filings
  Timely,         \* TRUE when a worker ends its batch within claim_idle_ms
  MaxFaults,      \* bound: crashes and Redis errors of a behaviour
  MaxCount        \* bound: the attempt counter saturates here

ASSUME IngestAssumption ==
  /\ NoFiling \notin Filings
  /\ Parses \subseteq Filings /\ Raises \subseteq Filings /\ Kills \subseteq Filings
  /\ MaxDeliveries \in Nat \ {0}
  /\ Batch \in Nat \ {0}
  /\ MaxLen \in Nat \ {0}
  /\ Timely \in BOOLEAN
  /\ MaxFaults \in Nat
  /\ MaxCount \in Nat /\ MaxCount > MaxDeliveries

VARIABLES
  seen,           \* edgar:seen_accessions
  stream,         \* every entry ever added to edgar:filings
  trimmed,        \* the entries 1..trimmed were dropped by the cap
  lastDelivered,  \* the group's last delivered id
  pending,        \* the group's pending entries (all consumers)
  idle,           \* the pending entries idle for claim_idle_ms or longer
  attempts,       \* edgar:filings:attempts, a hash
  facts,          \* the accessions of the messages added to edgar:facts
  dlq,            \* the dead-letter stream
  announcing,     \* announcing[p]: added to the seen set, not yet to the stream
  phase,          \* phase[w]: the fetch that follows an empty batch
  work,           \* work[w]: the ids of the batch still to handle
  pc,             \* pc[w]: the next call of handle()
  attempt,        \* attempt[w]: handle()'s local `attempt`
  faults,         \* crashes and Redis errors so far
  stops           \* history: those that hit a poller between its two calls

redis   == <<seen, stream, trimmed, lastDelivered, pending, idle, attempts, facts, dlq>>
local   == <<phase, work, pc, attempt>>
vars    == <<redis, announcing, local, faults, stops>>

Ids == 1..Len(stream)

Phase == {"claim", "read"}
Step  == {"idle", "source", "dead_letter", "ack", "hdel"}

\* The message handle() is working on: a batch is handled in id order.
First(w, m) == m \in work[w] /\ \A k \in work[w] : m <= k

Lesser(a, b)  == IF a <= b THEN a ELSE b
Greater(a, b) == IF a <= b THEN b ELSE a

-----------------------------------------------------------------------------
(* Mutated forms of definitions below: plausible mistakes, none of which   *)
(* Next uses.  Each breaks a property of this module.                      *)

FirstSight_ignored(f) == TRUE
Mark_listing(p, f) ==
  /\ announcing[p] = NoFiling /\ f \notin seen
  /\ seen' = Filings /\ announcing' = [announcing EXCEPT ![p] = f]
  /\ UNCHANGED <<stream, trimmed, lastDelivered, pending, idle, attempts, facts, dlq, local, faults, stops>>
GiveUpStep_acks(w) == IF attempt[w] >= MaxDeliveries THEN "ack" ELSE "idle"
GiveUpStep_off(w) == "idle"
ResetIdle_off(S) == UNCHANGED idle
NewIds_skips == Greater(lastDelivered, trimmed) + 2 .. Lesser(lastDelivered + 1 + Batch, Len(stream))
AfterPublish_clears == "hdel"
-----------------------------------------------------------------------------
(* Poller                                                                  *)

\* SADD returns 1 for this accession.
FirstSight(f) == f \notin seen

\* publish(), first call: SADD.  An accession seen before changes nothing.
Mark(p, f) ==
  /\ announcing[p] = NoFiling
  /\ FirstSight(f)
  /\ seen' = seen \union {f}
  /\ announcing' = [announcing EXCEPT ![p] = f]
  /\ UNCHANGED <<stream, trimmed, lastDelivered, pending, idle, attempts, facts, dlq, local, faults, stops>>

\* XADD with an approximate MAXLEN keeps at least MaxLen entries; how many
\* more is up to the server.
Trim(len) == trimmed' \in {t \in trimmed..len : t = trimmed \/ len - t >= MaxLen}

\* publish(), second call: XADD.
Announce(p) ==
  /\ announcing[p] # NoFiling
  /\ stream' = Append(stream, announcing[p])
  /\ Trim(Len(stream) + 1)
  /\ announcing' = [announcing EXCEPT ![p] = NoFiling]
  /\ UNCHANGED <<seen, lastDelivered, pending, idle, attempts, facts, dlq, local, faults, stops>>

\* The poller stops between its two calls, or XADD raises: main() logs it and
\* polls again, but the accession stays in the seen set.
PollerFails(p) ==
  /\ faults < MaxFaults
  /\ announcing[p] # NoFiling
  /\ faults' = faults + 1 /\ stops' = stops + 1
  /\ announcing' = [announcing EXCEPT ![p] = NoFiling]
  /\ UNCHANGED <<redis, local>>

-----------------------------------------------------------------------------
(* Consumer group                                                          *)

\* XAUTOCLAIM from 0-0 and XREADGROUP set the idle time of S to zero.
ResetIdle(S) == idle' = idle \ S

\* The first Batch elements of S, in id order.
FirstBatch(S) == {m \in S : Cardinality({k \in S : k < m}) < Batch}

\* What XAUTOCLAIM looks at: entries idle long enough, and entries the cap
\* dropped, which it deletes from the pending list instead of returning them.
Claimable == {m \in pending : m <= trimmed \/ m \in idle}

\* run_once, 1: reclaim entries of any consumer, this one included.
Claim(w) ==
  LET S == FirstBatch(Claimable) IN
  /\ pc[w] = "idle" /\ work[w] = {} /\ phase[w] = "claim"
  /\ pending' = pending \ (S \intersect 1..trimmed)
  /\ ResetIdle(S)
  /\ work' = [work EXCEPT ![w] = S \ 1..trimmed]
  /\ phase' = [phase EXCEPT ![w] = "read"]
  /\ UNCHANGED <<seen, stream, trimmed, lastDelivered, attempts, facts, dlq, announcing, pc, attempt, faults, stops>>

\* The entries XREADGROUP ">" returns: never delivered, not dropped by the cap.
NewIds ==
  LET last == Greater(lastDelivered, trimmed) IN last + 1 .. Lesser(last + Batch, Len(stream))

\* run_once, 2: new entries become pending as they are delivered.
ReadNew(w) ==
  /\ pc[w] = "idle" /\ work[w] = {} /\ phase[w] = "read"
  /\ IF NewIds = {} THEN UNCHANGED lastDelivered
     ELSE lastDelivered' \in NewIds /\ \A m \in NewIds : m <= lastDelivered'
  /\ pending' = pending \union NewIds
  /\ work' = [work EXCEPT ![w] = NewIds]
  /\ phase' = [phase EXCEPT ![w] = "claim"]
  /\ UNCHANGED <<seen, stream, trimmed, idle, attempts, facts, dlq, announcing, pc, attempt, faults, stops>>

\* A worker that ends its batch within claim_idle_ms never lets an entry it
\* holds go idle.
MayAge(m) == Timely => \A w \in Workers : m \notin work[w]

\* claim_idle_ms passes without a delivery of m.
Age(m) ==
  /\ m \in pending \ idle
  /\ MayAge(m)
  /\ idle' = idle \union {m}
  /\ UNCHANGED <<seen, stream, trimmed, lastDelivered, pending, attempts, facts, dlq, announcing, local, faults, stops>>

-----------------------------------------------------------------------------
(* Worker: handle()                                                        *)

\* HINCRBY counts from 0 when the field is missing.
Count(m) == IF m \in DOMAIN attempts THEN attempts[m] ELSE 0

\* _attempt: count the delivery before anything can go wrong with it.
Attempt(w, m) ==
  LET n == Lesser(Count(m) + 1, MaxCount) IN
  /\ pc[w] = "idle" /\ First(w, m)
  /\ attempts' = [k \in DOMAIN attempts \union {m} |-> IF k = m THEN n ELSE attempts[k]]
  /\ attempt' = [attempt EXCEPT ![w] = n]
  /\ pc' = [pc EXCEPT ![w] = "source"]
  /\ UNCHANGED <<seen, stream, trimmed, lastDelivered, pending, idle, facts, dlq, announcing, phase, work, faults, stops>>

\* The call after XADD to edgar:facts.
AfterPublish == "ack"

\* The source returns the filing's facts and XADD broadcasts them.
PublishFacts(w, m) ==
  /\ pc[w] = "source" /\ First(w, m)
  /\ stream[m] \in Parses
  /\ facts' = Append(facts, stream[m])
  /\ pc' = [pc EXCEPT ![w] = AfterPublish]
  /\ UNCHANGED <<seen, stream, trimmed, lastDelivered, pending, idle, attempts, dlq, announcing, phase, work,
                 attempt, faults, stops>>

\* The except branch: dead-letter the filing at its last attempt, else leave
\* it pending for a later claim.
GiveUpStep(w) == IF attempt[w] >= MaxDeliveries THEN "dead_letter" ELSE "idle"

Except(w, m) ==
  /\ pc' = [pc EXCEPT ![w] = GiveUpStep(w)]
  /\ IF GiveUpStep(w) = "idle"
     THEN /\ work' = [work EXCEPT ![w] = @ \ {m}]
          /\ attempt' = [attempt EXCEPT ![w] = 0]
     ELSE UNCHANGED <<work, attempt>>

\* The source raises.
SourceRaises(w, m) ==
  /\ pc[w] = "source" /\ First(w, m)
  /\ stream[m] \in Raises
  /\ Except(w, m)
  /\ UNCHANGED <<redis, announcing, phase, faults, stops>>

\* XADD to edgar:facts raises; Redis may have executed it.
PublishFails(w, m) ==
  /\ faults < MaxFaults
  /\ pc[w] = "source" /\ First(w, m)
  /\ stream[m] \in Parses
  /\ faults' = faults + 1
  /\ facts' \in {facts, Append(facts, stream[m])}
  /\ Except(w, m)
  /\ UNCHANGED <<seen, stream, trimmed, lastDelivered, pending, idle, attempts, dlq, announcing, phase, stops>>

\* XADD to the dead-letter stream, with the attempt number in its payload.
DeadLetter(w, m) ==
  /\ pc[w] = "dead_letter" /\ First(w, m)
  /\ dlq' = Append(dlq, [filing |-> stream[m], attempts |-> attempt[w]])
  /\ pc' = [pc EXCEPT ![w] = "ack"]
  /\ UNCHANGED <<seen, stream, trimmed, lastDelivered, pending, idle, attempts, facts, announcing, phase, work,
                 attempt, faults, stops>>

\* _done, first call: XACK takes the entry off the pending list, whoever owns it.
Ack(w, m) ==
  /\ pc[w] = "ack" /\ First(w, m)
  /\ pending' = pending \ {m}
  /\ idle' = idle \ {m}
  /\ pc' = [pc EXCEPT ![w] = "hdel"]
  /\ UNCHANGED <<seen, stream, trimmed, lastDelivered, attempts, facts, dlq, announcing, phase, work, attempt, faults, stops>>

\* _done, second call: HDEL; then the next message of the batch.
ClearAttempts(w, m) ==
  /\ pc[w] = "hdel" /\ First(w, m)
  /\ attempts' = Restrict(attempts, DOMAIN attempts \ {m})
  /\ work' = [work EXCEPT ![w] = @ \ {m}]
  /\ attempt' = [attempt EXCEPT ![w] = 0]
  /\ pc' = [pc EXCEPT ![w] = "idle"]
  /\ UNCHANGED <<seen, stream, trimmed, lastDelivered, pending, idle, facts, dlq, announcing, phase, faults, stops>>

\* A new process of the deployment, or the same one after run_forever caught
\* a RedisError: the next round starts with a claim.
ForgetRound(w) ==
  /\ phase' = [phase EXCEPT ![w] = "claim"]
  /\ work' = [work EXCEPT ![w] = {}]
  /\ attempt' = [attempt EXCEPT ![w] = 0]
  /\ pc' = [pc EXCEPT ![w] = "idle"]

\* Handling this filing takes the process down (out of memory, say), which
\* no except clause sees.
Killed(w, m) ==
  /\ pc[w] = "source" /\ First(w, m)
  /\ stream[m] \in Kills
  /\ ForgetRound(w)
  /\ UNCHANGED <<redis, announcing, faults, stops>>

\* A crash anywhere, or a RedisError outside handle()'s try block.
Abandon(w) ==
  /\ faults < MaxFaults
  /\ work[w] # {}
  /\ faults' = faults + 1
  /\ ForgetRound(w)
  /\ UNCHANGED <<redis, announcing, stops>>

-----------------------------------------------------------------------------
Init ==
  /\ seen = {} /\ stream = <<>> /\ trimmed = 0
  /\ lastDelivered = 0 /\ pending = {} /\ idle = {}   \* ensure_group: id="0"
  /\ attempts = <<>> /\ facts = <<>> /\ dlq = <<>>
  /\ announcing = [p \in Pollers |-> NoFiling]
  /\ phase = [w \in Workers |-> "claim"]
  /\ work = [w \in Workers |-> {}]
  /\ pc = [w \in Workers |-> "idle"]
  /\ attempt = [w \in Workers |-> 0]
  /\ faults = 0 /\ stops = 0

PollerStep(p) == (\E f \in Filings : Mark(p, f)) \/ Announce(p)

Handle(w, m) ==
  \/ Attempt(w, m) \/ PublishFacts(w, m) \/ SourceRaises(w, m) \/ DeadLetter(w, m)
  \/ Ack(w, m) \/ ClearAttempts(w, m) \/ Killed(w, m)

WorkerStep(w) == Claim(w) \/ ReadNew(w) \/ \E m \in Ids : Handle(w, m)

Fault ==
  \/ \E p \in Pollers : PollerFails(p)
  \/ \E w \in Workers : Abandon(w) \/ \E m \in Ids : PublishFails(w, m)

Next ==
  \/ \E p \in Pollers : PollerStep(p)
  \/ \E w \in Workers : WorkerStep(w)
  \/ \E m \in pending : Age(m)
  \/ Fault

Spec == Init /\ [][Next]_vars

\* Every process keeps running (a killed one is restarted) and time passes.
\* No fairness on faults.
Fairness ==
  /\ \A p \in Pollers : WF_vars(PollerStep(p))
  /\ \A w \in Workers : WF_vars(WorkerStep(w))
  /\ \A m \in 1..Cardinality(Filings) : WF_vars(m \in Ids /\ Age(m))

FairSpec == Spec /\ Fairness

-----------------------------------------------------------------------------
(* Properties                                                              *)

DeadLettered == {dlq[i].filing : i \in DOMAIN dlq}

TypeOK ==
  /\ seen \subseteq Filings
  /\ stream \in Seq(Filings)
  /\ trimmed \in 0..Len(stream)
  /\ lastDelivered \in 0..Len(stream)
  /\ pending \subseteq 1..lastDelivered
  /\ idle \subseteq pending
  /\ DOMAIN attempts \subseteq 1..lastDelivered
  /\ attempts \in [DOMAIN attempts -> 1..MaxCount]
  /\ facts \in Seq(Filings)
  /\ dlq \in Seq([filing : Filings, attempts : 0..MaxCount])
  /\ announcing \in [Pollers -> Filings \union {NoFiling}]
  /\ phase \in [Workers -> Phase]
  /\ work \in [Workers -> SUBSET (1..lastDelivered)]
  /\ pc \in [Workers -> Step]
  /\ attempt \in [Workers -> 0..MaxCount]
  /\ faults \in 0..MaxFaults /\ stops \in 0..faults

\* Whatever crashes, times out or is claimed twice, an entry of edgar:filings
\* that was not dropped by the cap is still undelivered, still pending, or has
\* an outcome on edgar:facts or in the dead-letter stream (worker.py, header:
\* "XACKed only after its facts are published").
NothingLost ==
  \A m \in Ids :
    \/ m > lastDelivered
    \/ m \in pending
    \/ stream[m] \in Range(facts) \union DeadLettered
    \/ m <= trimmed

\* However many pollers race and restart, no accession is on edgar:filings
\* twice (poller.py: SADD decides).
PublishedOnce == IsInjective(stream)

\* Seen, on no stream, and no poller is about to add it.
Forgotten == {f \in seen \ Range(stream) : \A p \in Pollers : announcing[p] # f}

\* A crash between SADD and XADD, or an XADD that raises, loses the one filing its
\* poller was about to announce (later polls see SADD return 0); nothing else
\* keeps a seen accession from the stream, however the pollers interleave.
LostOnlyByCrash == Cardinality(Forgotten) <= stops

\* When every worker ends its batch within claim_idle_ms, no two workers ever
\* hold the same entry, crashes and reclaims included: XREADGROUP hands it to
\* one consumer and a claim resets its idle time.
SoleHolder ==
  Timely => \A v, w \in Workers : v # w => work[v] \intersect work[w] = {}

\* What makes the three invariants above inductive: a worker acknowledges an
\* entry only when it has an outcome; the stream holds seen accessions, and a
\* poller about to add one is alone with it; a timely worker's batch is not idle.
AckReady ==
  \A w \in Workers : \A m \in work[w] :
    pc[w] = "ack" /\ First(w, m) => stream[m] \in Range(facts) \union DeadLettered

SoleAnnouncer ==
  /\ Range(stream) \subseteq seen
  /\ \A p \in Pollers : announcing[p] # NoFiling => announcing[p] \in seen \ Range(stream)
  /\ \A p, q \in Pollers : announcing[p] = announcing[q] => p = q \/ announcing[p] = NoFiling

HeldNotIdle == Timely => \A w \in Workers : work[w] \intersect idle = {}

IInv ==
  /\ NothingLost /\ AckReady
  /\ PublishedOnce /\ SoleAnnouncer
  /\ SoleHolder /\ HeldNotIdle

\* The attempt counter of an entry that is still pending never goes back, even
\* when slow workers share it: were it to, a poison filing would be retried
\* for ever (worker.py, _done acknowledges before it deletes the counter).
CounterKeptWhilePending ==
  [][\A m \in pending \intersect pending' : Count(m)' >= Count(m)]_vars

\* Every entry added to edgar:filings leaves the queue for good, also one that
\* always fails: its retries stop at the dead-letter stream.
Drains ==
  \A m \in 1..Cardinality(Filings) : m \in Ids ~> [](m <= lastDelivered /\ m \notin pending)

\* With timely workers and no fault, each filing has exactly one outcome:
\* one message of facts or one dead letter, not both, not two
\* (tests/test_streaming.py: "each filing processed exactly once").
OneOutcome ==
  Timely /\ faults = 0 =>
    /\ IsInjective(facts)
    /\ \A i, j \in DOMAIN dlq : dlq[i].filing = dlq[j].filing => i = j
    /\ Range(facts) \intersect DeadLettered = {}

\* What CounterKeptWhilePending and OneOutcome rest on: an entry whose counter is
\* about to go is off the pending list for good; an outcome is that of an entry
\* of the stream; and, with timely workers and no fault, a worker that holds an
\* entry with an outcome is about to take it off the list, and it has a holder as
\* long as it is on the list.
AckedGone ==
  \A w \in Workers : \A m \in work[w] : pc[w] = "hdel" /\ First(w, m) => m \notin pending

OutcomeOfEntry == Range(facts) \union DeadLettered \subseteq Range(stream)

OutcomeHeld ==
  Timely /\ faults = 0 =>
    \A m \in Ids : stream[m] \in Range(facts) \union DeadLettered =>
      /\ m <= lastDelivered
      /\ m \in pending => \E w \in Workers : m \in work[w]
      /\ \A w \in Workers : m \in work[w] => First(w, m) /\ pc[w] \in {"ack", "hdel"}

OutcomeInv == AckedGone /\ OutcomeOfEntry /\ OutcomeHeld /\ OneOutcome

\* The pipeline implements at-least-once delivery of a filing.
Delivery == INSTANCE FilingDelivery WITH
  known       <- Range(stream),
  outstanding <- {stream[m] : m \in pending \union (lastDelivered + 1 .. Len(stream))},
  out         <- Range(facts),
  dead        <- DeadLettered,
  expired     <- {stream[m] : m \in 1..trimmed}

DeliversAtLeastOnce == Delivery!Spec

-----------------------------------------------------------------------------
(* What the documentation says, and the code does not do                   *)

\* worker.py: "so one bad filing cannot block the stream": a filing that
\* parses gets its outcome whatever the other filings do to the workers.
GoodFilingsProceed ==
  \A f \in Filings \ (Raises \union Kills) : f \in Range(stream) ~> f \in Range(facts)
=============================================================================
