----------------------------- MODULE SpanBuffer -----------------------------
(***************************************************************************)
(* The buffer of finished spans of src/copilot/tracing.py, one per         *)
(* process: a request exports a span as each node of its graph ends, then  *)
(* its root span, and takes the spans of its trace back.  Both calls hold  *)
(* the buffer's lock.                                                      *)
(*                                                                         *)
(* pop() leaves the trace in _order, so what the cap counts is the traces  *)
(* started lately, finished or not.                                        *)
(***************************************************************************)
EXTENDS Integers, Sequences, FiniteSets, Functions, ApiThreads

CONSTANTS
  Traces,      \* W3C trace ids
  Nodes,       \* the graph has at most this many spans besides the root's
  MaxTraces    \* max_traces

ASSUME SpansAssumption ==
  /\ Nodes \in Nat \ {0} /\ MaxTraces \in Nat \ {0}

\* A span is its request and the node that ended; 0 is the root span.
Span == Requests \X (0..Nodes)

VARIABLES
  byTrace,     \* byTrace[r]: _by_trace, from a trace id to its spans
  order,       \* order[r]: _order
  exported,    \* history: the INTERNAL spans exported
  read,        \* history: read[q]: what get_trace() returned to q
  crowd        \* history: crowd[q]: traces started at q's replica since q's

spanVars == <<byTrace, order, exported, read, crowd>>

Own(q) == {s \in exported : s[1] = q}

-----------------------------------------------------------------------------
(* Mutated forms, none of which a step uses.                               *)

WithSpan_overwrites(r, t, s) == [u \in DOMAIN byTrace[r] \union {t} |-> IF u = t THEN {s} ELSE byTrace[r][u]]
-----------------------------------------------------------------------------
\* The server span ends after the trace was read back, and is not buffered.
Buffered(kind) == kind # "SERVER"

IsNew(r, t)  == t \notin DOMAIN byTrace[r]
IsFull(r)    == Len(order[r]) = MaxTraces

\* Whom a new trace evicts when _order is full.
Victims(r, t) == IF IsNew(r, t) /\ IsFull(r) THEN {Head(order[r])} ELSE {}

\* The entries after span s of trace t is added.
WithSpan(r, t, s) ==
  LET kept == DOMAIN byTrace[r] \ Victims(r, t) IN
  [u \in kept \union {t} |->
     (IF u \in kept THEN byTrace[r][u] ELSE {}) \union (IF u = t THEN {s} ELSE {})]

\* _order after trace t is added: a deque of maxlen MaxTraces.
WithTrace(r, t) ==
  IF ~IsNew(r, t) THEN order[r]
  ELSE Append(IF IsFull(r) THEN Tail(order[r]) ELSE order[r], t)

\* export() of one span: SimpleSpanProcessor calls it as the span ends.
Export(q, t, node, kind) ==
  LET r == At[q]
      s == <<q, node>>
  IN IF Buffered(kind)
     THEN /\ byTrace' = [byTrace EXCEPT ![r] = WithSpan(r, t, s)]
          /\ order' = [order EXCEPT ![r] = WithTrace(r, t)]
          /\ exported' = exported \union {s}
          /\ crowd' = [p \in Requests |->
               IF p # q /\ At[p] = r /\ IsNew(r, t) /\ Own(p) # {} THEN crowd[p] + 1 ELSE crowd[p]]
          /\ UNCHANGED read
     ELSE UNCHANGED spanVars

\* get_trace(): pop() of the request's trace.
Pop(q, t) ==
  LET r == At[q]
  IN /\ read' = [read EXCEPT ![q] = IF IsNew(r, t) THEN {} ELSE byTrace[r][t]]
     /\ byTrace' = [byTrace EXCEPT ![r] = Restrict(@, DOMAIN @ \ {t})]
     /\ UNCHANGED <<order, exported, crowd>>

SpansInit ==
  /\ byTrace = [r \in Replicas |-> <<>>]
  /\ order = [r \in Replicas |-> <<>>]
  /\ exported = {}
  /\ read = [q \in Requests |-> {}]
  /\ crowd = [q \in Requests |-> 0]

-----------------------------------------------------------------------------
SpansTypeOK ==
  /\ DOMAIN byTrace = Replicas
  /\ \A r \in Replicas : DOMAIN byTrace[r] \subseteq Traces /\ byTrace[r] \in [DOMAIN byTrace[r] -> SUBSET Span]
  /\ order \in [Replicas -> Seq(Traces)]
  /\ exported \subseteq Span
  /\ read \in [Requests -> SUBSET Span]
  /\ crowd \in [Requests -> Nat]
=============================================================================
