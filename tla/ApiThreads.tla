----------------------------- MODULE ApiThreads -----------------------------
(* The threads of the API processes, shared by the modules of one request: *)
(* each request and each readiness probe runs in a thread of one replica.  *)

CONSTANTS
  Replicas,   \* API processes
  Requests,   \* calls of POST /ask
  Probes,     \* calls of GET /ready
  At          \* At[t]: the replica of a thread

Threads == Requests \union Probes

ASSUME ThreadsAssumption ==
  /\ Requests \intersect Probes = {}
  /\ At \in [Threads -> Replicas]
=============================================================================
