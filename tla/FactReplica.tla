---------------------------- MODULE FactReplica -----------------------------
(***************************************************************************)
(* The facts of edgar:facts as the API replicas hold them: every replica   *)
(* loads the committed fixtures, then a thread (src/streaming/             *)
(* subscriber.py) reads the stream from its beginning and applies each     *)
(* message to the replica's fact store (src/filings/factstore.py), whose   *)
(* data_version counts the writes.                                         *)
(*                                                                         *)
(* A store is the set of filings it holds: a row's primary key ends with   *)
(* the accession, so a filing's rows replace only themselves.  upsert()    *)
(* holds the store's lock from the insert to the bump of data_version, and *)
(* every query takes it; data_version alone is read without it, and a read *)
(* between the two returns what a read before both does.  So an upsert is  *)
(* one action.                                                             *)
(***************************************************************************)
EXTENDS Integers, Sequences, FiniteSets, Functions

CONSTANTS
  Replicas,      \* API replicas, each with its own fact store
  Filings,       \* the accessions workers may broadcast
  Fixtures,      \* the accessions of the committed fixtures
  Empty,         \* the filings whose message holds no fact
  Malformed,     \* the filings whose message apply() cannot parse
  BootVersion,   \* data_version after from_dir()
  FactsMaxLen,   \* STREAM_MAXLEN of edgar:facts
  ReadCount,     \* count of an XREAD
  MaxMessages,   \* bound: messages of a behaviour
  MaxRestarts,   \* bound: restarts of replicas
  MaxGlitches    \* bound: upserts that raise although the message is good

ASSUME ReplicaAssumption ==
  /\ Empty \subseteq Filings /\ Malformed \subseteq Filings
  /\ BootVersion \in Nat
  /\ FactsMaxLen \in Nat \ {0} /\ ReadCount \in Nat \ {0}
  /\ MaxMessages \in Nat /\ MaxRestarts \in Nat /\ MaxGlitches \in Nat

VARIABLES
  log,       \* every message ever added to edgar:facts, by its filing
  cut,       \* the messages 1..cut were dropped by the cap
  store,     \* store[r]: the filings in r's fact store
  version,   \* version[r]: data_version
  lastId,    \* lastId[r]: the subscriber's last_id
  batch,     \* batch[r]: the messages of an XREAD still to apply
  restarts, glitches,
  missed     \* history: a replica moved past a good message without applying it

replicaVars == <<log, cut, store, version, lastId, batch, restarts, glitches, missed>>

Messages == 1..Len(log)

\* The messages that write to the store.
IsGood(m) == log[m] \notin Empty \union Malformed

First(r, m) == m \in batch[r] /\ \A k \in batch[r] : m <= k

-----------------------------------------------------------------------------
(* Mutated forms of definitions below: plausible mistakes that Next does   *)
(* not use.                                                                *)

StartId_at_end == Len(log)
NewFor_skips(r) == {m \in Messages : m > lastId[r] + 1 /\ m > cut}
OnError_retries(r, m) == batch' = [batch EXCEPT ![r] = {}] /\ UNCHANGED lastId
-----------------------------------------------------------------------------
\* A worker adds a filing's facts to the stream (worker.py, handle); a
\* filing delivered twice is broadcast twice.  MAXLEN is approximate.
Broadcast(f) ==
  /\ Len(log) < MaxMessages
  /\ log' = Append(log, f)
  /\ cut' \in {c \in cut..Len(log) + 1 : c = cut \/ Len(log) + 1 - c >= FactsMaxLen}
  /\ UNCHANGED <<store, version, lastId, batch, restarts, glitches, missed>>

\* The entries XREAD can return after last_id.
NewFor(r) == {m \in Messages : m > lastId[r] /\ m > cut}

\* poll(): one XREAD round.
Read(r) ==
  /\ batch[r] = {} /\ NewFor(r) # {}
  /\ batch' = [batch EXCEPT ![r] = {m \in NewFor(r) : Cardinality({k \in NewFor(r) : k < m}) < ReadCount}]
  /\ UNCHANGED <<log, cut, store, version, lastId, restarts, glitches, missed>>

\* poll(): the message is done with, applied or not.
Advance(r, m) ==
  /\ batch' = [batch EXCEPT ![r] = @ \ {m}]
  /\ lastId' = [lastId EXCEPT ![r] = m]

\* What apply() leaves behind when it raises: the except clause goes on to
\* the next message.
OnError(r, m) == Advance(r, m)

\* Good messages between last_id and m, dropped before r could read them.
PassedOver(r, m) == \E k \in lastId[r] + 1 .. m - 1 : IsGood(k)

\* upsert() bumps data_version for every batch of facts, new to it or not.
BumpedBy(r, f) == 1

\* apply() of a message with facts.
Apply(r, m) ==
  /\ First(r, m) /\ IsGood(m)
  /\ store' = [store EXCEPT ![r] = @ \union {log[m]}]
  /\ version' = [version EXCEPT ![r] = @ + BumpedBy(r, log[m])]
  /\ Advance(r, m)
  /\ missed' = (missed \/ PassedOver(r, m))
  /\ UNCHANGED <<log, cut, restarts, glitches>>

\* apply() of a message without facts: upsert() returns before the bump.
ApplyEmpty(r, m) ==
  /\ First(r, m) /\ log[m] \in Empty \ Malformed
  /\ Advance(r, m)
  /\ missed' = (missed \/ PassedOver(r, m))
  /\ UNCHANGED <<log, cut, store, version, restarts, glitches>>

\* apply() raises: the message does not parse.
SkipMalformed(r, m) ==
  /\ First(r, m) /\ log[m] \in Malformed
  /\ OnError(r, m)
  /\ missed' = (missed \/ PassedOver(r, m))
  /\ UNCHANGED <<log, cut, store, version, restarts, glitches>>

\* apply() raises on a good message, in the database say.
Glitch(r, m) ==
  /\ glitches < MaxGlitches
  /\ First(r, m) /\ IsGood(m)
  /\ OnError(r, m)
  /\ glitches' = glitches + 1
  /\ missed' = TRUE
  /\ UNCHANGED <<log, cut, store, version, restarts>>

\* last_id of a new subscriber, "0-0": the beginning of the stream.
StartId == 0

\* The replica's process starts again: fixtures, and the stream from StartId.
Restart(r) ==
  /\ restarts < MaxRestarts
  /\ restarts' = restarts + 1
  /\ store' = [store EXCEPT ![r] = Fixtures]
  /\ version' = [version EXCEPT ![r] = BootVersion]
  /\ lastId' = [lastId EXCEPT ![r] = StartId]
  /\ batch' = [batch EXCEPT ![r] = {}]
  /\ UNCHANGED <<log, cut, glitches, missed>>

-----------------------------------------------------------------------------
ReplicaInit ==
  /\ log = <<>> /\ cut = 0
  /\ store = [r \in Replicas |-> Fixtures]
  /\ version = [r \in Replicas |-> BootVersion]
  /\ lastId = [r \in Replicas |-> 0]
  /\ batch = [r \in Replicas |-> {}]
  /\ restarts = 0 /\ glitches = 0 /\ missed = FALSE

Poll(r) ==
  \/ Read(r)
  \/ \E m \in Messages : Apply(r, m) \/ ApplyEmpty(r, m) \/ SkipMalformed(r, m)

ReplicaNext ==
  \/ \E f \in Filings : Broadcast(f)
  \/ \E r \in Replicas : Poll(r) \/ Restart(r) \/ \E m \in Messages : Glitch(r, m)

ReplicaSpec == ReplicaInit /\ [][ReplicaNext]_replicaVars

\* start(): the thread polls for as long as the replica runs, whatever a
\* poll raises.
ReplicaFairSpec == ReplicaSpec /\ \A r \in Replicas : WF_replicaVars(Poll(r))

-----------------------------------------------------------------------------
(* Properties                                                              *)

ReplicaTypeOK ==
  /\ log \in Seq(Filings)
  /\ cut \in 0..Len(log)
  /\ store \in [Replicas -> SUBSET (Fixtures \union Filings)]
  /\ version \in [Replicas -> Nat]
  /\ lastId \in [Replicas -> 0..Len(log)]
  /\ batch \in [Replicas -> SUBSET (1..Len(log))]
  /\ restarts \in 0..MaxRestarts /\ glitches \in 0..MaxGlitches
  /\ missed \in BOOLEAN

\* The state of a store that applied the first n messages.
GoodUpTo(n)  == {m \in 1..n : IsGood(m)}
Prefix(n)    == Fixtures \union {log[m] : m \in GoodUpTo(n)}
VersionAt(n) == BootVersion + Cardinality(GoodUpTo(n))

\* Until a message is missed, every replica is the fixtures and a prefix of
\* the stream, and its data_version counts that prefix, whatever it was
\* sent twice and however often it restarted.
IsPrefix ==
  ~missed => \A r \in Replicas : store[r] = Prefix(lastId[r]) /\ version[r] = VersionAt(lastId[r])

\* Until a message is missed, replicas that report the same data_version hold
\* the same facts: what lets them share cached answers by version
\* (cache.py, header) and lets an alert compare versions (rules.yml).
SameVersionSameData ==
  ~missed => \A r, s \in Replicas : version[r] = version[s] => store[r] = store[s]

\* A replica lacks a message it has moved past only when the message holds no
\* facts it can parse, was dropped by the cap, or met a glitch (part of
\* ReplicaInv).
AppliesAllItPasses ==
  glitches = 0 =>
    \A r \in Replicas : \A m \in 1..lastId[r] : m > cut /\ IsGood(m) => log[m] \in store[r]

\* What makes these inductive: a batch lies ahead of last_id, and holds every
\* message between the two that the cap had not dropped.
BatchAhead ==
  \A r \in Replicas : \A m \in batch[r] :
    /\ m > lastId[r]
    /\ \A k \in lastId[r] + 1 .. m - 1 : k \in batch[r] \/ k <= cut

\* ... and that the cap leaves the last FactsMaxLen messages.
CapKeeps == cut = 0 \/ Len(log) - cut >= FactsMaxLen

ReplicaInv == IsPrefix /\ AppliesAllItPasses /\ BatchAhead /\ CapKeeps

\* How many messages a replica has still to apply.
Lag(r) == Len(log) - lastId[r]

\* A replica moves past a message with facts it does not hold only in a
\* glitch, or when the cap dropped the message, and then only a replica that
\* was more than FactsMaxLen messages behind, as one that starts again may be:
\* one that keeps up misses nothing (subscriber.py, poll; edgar:facts is
\* capped although every replica reads it from its beginning).
AppliesUnlessFarBehind ==
  [][\A r \in Replicas : \A m \in lastId[r] + 1 .. lastId'[r] :
       IsGood(m) /\ log[m] \notin store'[r] =>
         glitches' > glitches \/ (m <= cut /\ Lag(r) > FactsMaxLen)]_replicaVars

\* Each filing broadcast reaches every replica for good, past malformed
\* messages and restarts, unless a message is missed.
Converges ==
  \A f \in Filings \ (Empty \union Malformed) :
    f \in Range(log) ~> [](missed \/ \A r \in Replicas : f \in store[r])
=============================================================================
