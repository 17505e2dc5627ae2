------------------------------ MODULE AskCache ------------------------------
(***************************************************************************)
(* POST /ask with its response cache (src/copilot/api.py,                  *)
(* src/copilot/infra/cache.py) over the fact stores of FactReplica.  One   *)
(* question, from one caller, is asked again and again at every replica:   *)
(* of the key only the data version then varies.  The replicas share the   *)
(* cache in Redis.                                                         *)
(*                                                                         *)
(* An answer is computed from several queries of the store, each under the *)
(* store's lock and none under a common one; two stand for them.  An       *)
(* answer is the pair of stores its queries saw.                           *)
(***************************************************************************)
EXTENDS FactReplica

CONSTANTS
  Requests,     \* threads of the replicas serving /ask
  NoReplica     \* the request is at no replica

ASSUME CacheAssumption == NoReplica \notin Replicas

VARIABLES
  cache,     \* version -> the answer stored under its key
  step,      \* step[q]: where the request is in ask()
  at,        \* at[q]: the replica serving it
  key,       \* key[q]: data_version when ask() built the cache key
  floor,     \* history: the facts behind key[q], which the caller is owed
  answer     \* answer[q]: what ask() has of its answer

askVars == <<cache, step, at, key, floor, answer>>
vars    == <<replicaVars, askVars>>

Steps  == {"idle", "lookup", "first", "second", "put", "served"}
Facts  == SUBSET (Fixtures \union Filings)
Answer == [first : Facts, second : Facts]

Moves(q, from, to) == step[q] = from /\ step' = [step EXCEPT ![q] = to]

-----------------------------------------------------------------------------
(* Mutated forms, none of which Next uses.                                 *)

PutKey_late(q) == version[at[q]]
-----------------------------------------------------------------------------
\* The data version that goes into the cache key.
KeyOf(r) == version[r]

\* ask(), up to cache_key(): the version is read without the store's lock.
Ask(q, r) ==
  /\ Moves(q, "idle", "lookup")
  /\ at' = [at EXCEPT ![q] = r]
  /\ key' = [key EXCEPT ![q] = KeyOf(r)]
  /\ floor' = [floor EXCEPT ![q] = store[r]]
  /\ UNCHANGED <<replicaVars, cache, answer>>

\* cache.get() finds an entry: it is the response.
Hit(q) ==
  /\ Moves(q, "lookup", "served")
  /\ key[q] \in DOMAIN cache
  /\ answer' = [answer EXCEPT ![q] = cache[key[q]]]
  /\ UNCHANGED <<replicaVars, cache, at, key, floor>>

\* cache.get() finds none, or Redis fails and get() returns None.
Miss(q) ==
  /\ Moves(q, "lookup", "first")
  /\ UNCHANGED <<replicaVars, cache, at, key, floor, answer>>

\* The queries of the graph's tools.
FirstQuery(q) ==
  /\ Moves(q, "first", "second")
  /\ answer' = [answer EXCEPT ![q].first = store[at[q]]]
  /\ UNCHANGED <<replicaVars, cache, at, key, floor>>

SecondQuery(q) ==
  /\ Moves(q, "second", "put")
  /\ answer' = [answer EXCEPT ![q].second = store[at[q]]]
  /\ UNCHANGED <<replicaVars, cache, at, key, floor>>

Nothing == [first |-> {}, second |-> {}]

\* Requests that are over take their threads' state with them.
StepAfter(q, Q) == IF q \in Q THEN "idle" ELSE step[q]

Forget(Q) ==
  /\ step' = [q \in Requests |-> StepAfter(q, Q)]
  /\ at' = [q \in Requests |-> IF q \in Q THEN NoReplica ELSE at[q]]
  /\ key' = [q \in Requests |-> IF q \in Q THEN BootVersion ELSE key[q]]
  /\ floor' = [q \in Requests |-> IF q \in Q THEN {} ELSE floor[q]]
  /\ answer' = [q \in Requests |-> IF q \in Q THEN Nothing ELSE answer[q]]

\* The graph raises: 502, and nothing is cached.
GraphFails(q) ==
  /\ step[q] \in {"first", "second"}
  /\ Forget({q})
  /\ UNCHANGED <<replicaVars, cache>>

\* The key cache.set() stores under: the one built before the graph ran.
PutKey(q) == key[q]

\* cache.set(), which Redis may refuse.
Put(q) ==
  /\ Moves(q, "put", "served")
  /\ \/ cache' = [v \in DOMAIN cache \union {PutKey(q)} |-> IF v = PutKey(q) THEN answer[q] ELSE cache[v]]
     \/ UNCHANGED cache
  /\ UNCHANGED <<replicaVars, at, key, floor, answer>>

\* The response is sent.
Respond(q) ==
  /\ step[q] = "served"
  /\ Forget({q})
  /\ UNCHANGED <<replicaVars, cache>>

\* The entry's TTL ends, or Redis evicts it.
Expire(v) ==
  /\ cache' = Restrict(cache, DOMAIN cache \ {v})
  /\ UNCHANGED <<replicaVars, step, at, key, floor, answer>>

\* A step of the stream and the stores; a replica that restarts loses the
\* requests it was serving, and the cache stays.
Update ==
  \/ /\ \/ \E f \in Filings : Broadcast(f)
        \/ \E r \in Replicas : Poll(r) \/ \E m \in Messages : Glitch(r, m)
     /\ UNCHANGED askVars
  \/ \E r \in Replicas :
       /\ Restart(r)
       /\ Forget({q \in Requests : at[q] = r})
       /\ UNCHANGED cache

-----------------------------------------------------------------------------
Init ==
  /\ ReplicaInit
  /\ cache = <<>>
  /\ step = [q \in Requests |-> "idle"]
  /\ at = [q \in Requests |-> NoReplica]
  /\ key = [q \in Requests |-> BootVersion]
  /\ floor = [q \in Requests |-> {}]
  /\ answer = [q \in Requests |-> Nothing]

Serve(q) ==
  \/ Hit(q) \/ Miss(q) \/ FirstQuery(q) \/ SecondQuery(q) \/ GraphFails(q) \/ Put(q) \/ Respond(q)

Next ==
  \/ Update
  \/ \E q \in Requests : Serve(q) \/ \E r \in Replicas : Ask(q, r)
  \/ \E v \in DOMAIN cache : Expire(v)

Spec == Init /\ [][Next]_vars

-----------------------------------------------------------------------------
(* Properties                                                              *)

TypeOK ==
  /\ ReplicaTypeOK
  /\ DOMAIN cache \subseteq Nat
  /\ cache \in [DOMAIN cache -> Answer]
  /\ step \in [Requests -> Steps]
  /\ at \in [Requests -> Replicas \union {NoReplica}]
  /\ \A q \in Requests : step[q] # "idle" => at[q] \in Replicas
  /\ key \in [Requests -> Nat]
  /\ floor \in [Requests -> Facts]
  /\ answer \in [Requests -> Answer]

Holds(a, facts) == facts \subseteq a.first /\ facts \subseteq a.second

\* An answer cached before a filing landed is never served after it
\* (cache.py, header), whichever replica computed it: each query behind a
\* response saw at least the facts its replica held when the request came.
NeverServedStale ==
  ~missed => \A q \in Requests : step[q] = "served" => Holds(answer[q], floor[q])

\* What makes it inductive: a key and the facts owed for it are those
\* of one prefix of the stream, which the serving replica has not left; what a
\* query has read so far holds those facts; and an entry holds the facts of the
\* prefix its version counts.
KeyIsPrefix ==
  ~missed => \A q \in Requests : step[q] # "idle" =>
    \E n \in 0..lastId[at[q]] : key[q] = VersionAt(n) /\ floor[q] = Prefix(n)

ReadsHold ==
  ~missed => \A q \in Requests :
    /\ step[q] \in {"second", "put", "served"} => floor[q] \subseteq answer[q].first
    /\ step[q] \in {"put", "served"} => floor[q] \subseteq answer[q].second

EntryHolds ==
  ~missed => \A v \in DOMAIN cache :
    \E n \in 0..Len(log) : v = VersionAt(n) /\ Holds(cache[v], Prefix(n))

CacheInv == KeyIsPrefix /\ ReadsHold /\ EntryHolds
=============================================================================
