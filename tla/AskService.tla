----------------------------- MODULE AskService -----------------------------
(***************************************************************************)
(* What surrounds the answer of POST /ask (src/copilot/api.py,             *)
(* src/copilot/infra/middleware.py): the caller's token, the rate limit,   *)
(* the guardrails, the spans of the graph's nodes, and the audit row       *)
(* written after the response.  RateLimiter and AskCache model the rate    *)
(* limit and the cache; here a request is let through or not, and its      *)
(* answer is in the cache or not.                                          *)
(***************************************************************************)
EXTENDS SpanBuffer, AuditSink

CONSTANTS
  NoTrace,
  MaxThreads   \* threads of a replica that run ask(): the thread pool's size

ASSUME ServiceAssumption == NoTrace \notin Traces /\ MaxThreads \in Nat \ {0}

VARIABLES
  step,      \* step[q]: where the request is
  done,      \* done[q]: the nodes of its graph that have ended
  traceOf,   \* traceOf[q]: the trace of its spans
  outcome    \* outcome[q]: of its audit row

askVars == <<step, done, traceOf, outcome>>
vars    == <<spanVars, auditVars, askVars>>

Steps    == {"auth", "guard", "graph", "root", "pop", "audit", "respond", "over"}
Outcomes == {"none", "blocked", "cache_hit", "ok", "error"}

Moves(q, from, to) == step[q] = from /\ step' = [step EXCEPT ![q] = to]

\* The requests of a replica whose trace is open.
Running(r) == {q \in Requests : At[q] = r /\ step[q] \in {"graph", "root", "pop"}}

-----------------------------------------------------------------------------
(* Mutated forms, none of which Next uses.                                 *)

AfterFailure_skips == "audit"
-----------------------------------------------------------------------------
\* get_principal: a caller without a token that is accepted gets a 401 or 403, by
\* an exception, before the rate limit counts the request.
Authenticate(q) ==
  /\ \E next \in {"guard", "respond"} : Moves(q, "auth", next)
  /\ UNCHANGED <<spanVars, auditVars, done, traceOf, outcome>>

\* enforce_rate_limit denies the request (RateLimiter says when): a 429 by
\* an exception, and ask() never runs.
Denied(q) ==
  /\ Moves(q, "guard", "respond")
  /\ UNCHANGED <<spanVars, auditVars, done, traceOf, outcome>>

\* An answer without graph and spans.
Early(q, how) ==
  /\ Moves(q, "guard", "audit")
  /\ outcome' = [outcome EXCEPT ![q] = how]
  /\ BeginAudit(q)
  /\ UNCHANGED <<spanVars, ready, initLock, advisory, table, rows, dbErrors, done, traceOf>>

\* check_input blocks the question: a 400 that is returned, not raised.
Blocked(q) == Early(q, "blocked")

\* The answer is in the cache.
FromCache(q) == Early(q, "cache_hit")

\* The root span opens, in a trace of its own or the one of the caller's
\* traceparent, and the graph starts.
StartGraph(q, t) ==
  /\ Cardinality(Running(At[q])) < MaxThreads
  /\ Moves(q, "guard", "graph")
  /\ traceOf' = [traceOf EXCEPT ![q] = t]
  /\ UNCHANGED <<spanVars, auditVars, done, outcome>>

\* The graph has nodes left after the one that ends: never more than Nodes.
GoesOn(q) == done[q] + 1 < Nodes

\* A node ends and its span is exported; it returns or raises, and the graph
\* goes on or ends.
NodeEnds(q) ==
  /\ done' = [done EXCEPT ![q] = @ + 1]
  /\ Export(q, traceOf[q], done[q] + 1, "INTERNAL")
  /\ \/ /\ GoesOn(q)
        /\ Moves(q, "graph", "graph")
        /\ UNCHANGED outcome
     \/ /\ Moves(q, "graph", "root")
        /\ \E o \in {"ok", "error"} : outcome' = [outcome EXCEPT ![q] = o]
  /\ UNCHANGED <<auditVars, traceOf>>

\* What follows the root span of a graph that raised: the finally clause.
AfterFailure == "pop"

\* The root span ends.
RootEnds(q) ==
  /\ Moves(q, "root", IF outcome[q] = "ok" THEN "pop" ELSE AfterFailure)
  /\ Export(q, traceOf[q], 0, "INTERNAL")
  /\ done' = [done EXCEPT ![q] = 0]
  /\ IF step'[q] = "audit" THEN BeginAudit(q) ELSE UNCHANGED call
  /\ UNCHANGED <<ready, initLock, advisory, table, rows, dbErrors, traceOf, outcome>>

\* get_trace(); the response goes out, and the background task runs.
TakeTrace(q) ==
  /\ Moves(q, "pop", "audit")
  /\ Pop(q, traceOf[q])
  /\ BeginAudit(q)
  /\ UNCHANGED <<ready, initLock, advisory, table, rows, dbErrors, done, traceOf, outcome>>

\* One call of the background task, or of a readiness probe.
Audit(t) ==
  /\ AuditCall(t) \/ DbFails(t)
  /\ UNCHANGED <<spanVars, askVars>>

\* The task is over, and what the request knew of its trace is forgotten.
AuditOver(q) ==
  /\ call[q] \in {"done", "failed"}
  /\ Moves(q, "audit", "respond")
  /\ exported' = exported \ Own(q)
  /\ read' = [read EXCEPT ![q] = {}]
  /\ crowd' = [crowd EXCEPT ![q] = 0]
  /\ UNCHANGED <<byTrace, order, auditVars, done, traceOf, outcome>>

\* The middleware's server span ends last.
ServerSpanEnds(q) ==
  /\ Moves(q, "respond", "over")
  /\ Export(q, traceOf[q], 0, "SERVER")
  /\ outcome' = [outcome EXCEPT ![q] = "none"]
  /\ UNCHANGED <<auditVars, done, traceOf>>

\* GET /ready calls health().
Probe(p) ==
  /\ BeginAudit(p)
  /\ UNCHANGED <<spanVars, ready, initLock, advisory, table, rows, dbErrors, askVars>>

-----------------------------------------------------------------------------
Init ==
  /\ SpansInit /\ AuditInit
  /\ step = [q \in Requests |-> "auth"]
  /\ done = [q \in Requests |-> 0]
  /\ traceOf = [q \in Requests |-> NoTrace]
  /\ outcome = [q \in Requests |-> "none"]

Serve(q) ==
  \/ Authenticate(q) \/ Denied(q) \/ Blocked(q) \/ FromCache(q)
  \/ (\E t \in Traces : StartGraph(q, t)) \/ NodeEnds(q) \/ RootEnds(q)
  \/ TakeTrace(q) \/ Audit(q) \/ AuditOver(q) \/ ServerSpanEnds(q)

\* Nothing is left to do.  Only here may every thread be waiting.
AllOver ==
  /\ \A q \in Requests : step[q] = "over"
  /\ \A p \in Probes : call[p] \in {"done", "failed"}
  /\ UNCHANGED vars

Next ==
  \/ \E q \in Requests : Serve(q)
  \/ \E p \in Probes : Probe(p) \/ Audit(p)
  \/ AllOver

Spec == Init /\ [][Next]_vars

-----------------------------------------------------------------------------
(* Properties                                                              *)

TypeOK ==
  /\ SpansTypeOK /\ AuditTypeOK
  /\ step \in [Requests -> Steps]
  /\ done \in [Requests -> 0..Nodes]
  /\ traceOf \in [Requests -> Traces \union {NoTrace}]
  /\ outcome \in [Requests -> Outcomes]

\* Every request that got past the rate limit, blocked, cached, failed or
\* answered, leaves one audit row once it is over, unless the database failed
\* (api.py, ask: "which would lose exactly the audit rows auditors care about").
AuditedOnce ==
  \A q \in Requests :
    step[q] = "respond" /\ outcome[q] # "none" /\ dbErrors = 0 => rows[q] = 1

\* A trace is in the buffer only while a request of its is between its first
\* span and its pop, failed requests included: when no request is running the
\* buffer is empty (tracing.py, _RequestSpanBuffer: "Bounded by every request
\* eventually popping its own trace_id").
NoSpanLeak ==
  \A r \in Replicas : \A t \in DOMAIN byTrace[r] :
    \E q \in Requests : At[q] = r /\ traceOf[q] = t /\ step[q] \in {"graph", "root", "pop"}

\* No other request came with the same traceparent.
HasTraceAlone(q) == \A p \in Requests : traceOf[p] = traceOf[q] => p = q

\* A request with a trace of its own reads back all of its spans and no
\* others, whoever runs beside it, as long as fewer than max_traces traces
\* were started at its replica since its own.
ReadsOwnTrace ==
  \A q \in Requests :
    /\ outcome[q] \in {"ok", "error"} /\ step[q] = "audit"
    /\ HasTraceAlone(q)
    /\ crowd[q] < MaxTraces
    => read[q] = Own(q)
=============================================================================
