# A formal model of the Filings & Risk Copilot

The repository ingests SEC filings over Redis Streams, keeps their XBRL facts in
every API replica, and answers questions from them with citations, through a
cache, behind a rate limit, with an audit row and a trace for each request. This
directory holds TLA+ specifications translated from that code, the TLC
configurations that check them on small instances, and theorems about them that
the TLA+ proof system checks for every value of the constants.

Paths below are relative to the repository; line numbers are in `PROJECT.json`
(`map`), which names the code behind every definition.

## 1. The system

| Part | State it keeps | Operations | Talks to |
| --- | --- | --- | --- |
| EDGAR poller, `src/streaming/poller.py` | none; `edgar:seen_accessions` in Redis | `publish`: SADD, then XADD | EDGAR client; `edgar:filings` |
| Ingest workers, `src/streaming/worker.py` | the batch in hand; the group's pending list and the attempt counters in Redis | `run_once`: XAUTOCLAIM, XREADGROUP; `handle`: HINCRBY, the source, XADD, XACK, HDEL | `edgar:filings`, `edgar:facts`, `edgar:filings:dlq` |
| Fact subscriber, `src/streaming/subscriber.py` | `last_id` | `poll`: XREAD, `apply` per message | `edgar:facts`; the replica's fact store |
| Fact store, `src/filings/factstore.py` | rows keyed up to the accession, `data_version` | `upsert`, `history`, `get`, `derived`, `implied_q4` | subscriber, tools, cache key |
| XBRL normalisation, `src/filings/xbrl.py` | none | `normalize_company_facts` | worker, fixtures |
| EDGAR client, `src/filings/edgar.py` | tokens of a bucket | `acquire`, `_get` with retries | SEC |
| API, `src/copilot/api.py` | none of its own | `POST /ask`, `/v1/*`, `/ready` | everything below |
| Rate limiter, `src/copilot/infra/ratelimit.py` | a counter per caller and window, in Redis or in the process | `hit` | `/ask` and `/v1` |
| Guardrails, authentication, settings | none | a decision over one request | `/ask` |
| Response cache, `src/copilot/infra/cache.py` | entries in Redis, by a key that holds `data_version` | `get`, `set` | `/ask`, all replicas |
| Agent graph, router, tools, `src/copilot/graph.py` ... | `pending_tools`, evidence, findings of one request | route, run each tool, synthesize | fact store, risk engine, retrieval |
| Synthesis and verification, `src/copilot/synthesis.py`, `verification.py` | none | draft, verify, retry, fall back | LLM |
| Tracing, `src/copilot/tracing.py` | the buffer of finished spans, by trace, per process | `export`, `pop` | every node; `/ask` |
| Audit sink, `src/copilot/infra/audit.py` | the table in PostgreSQL; `_schema_ready` and a lock per process | `_ensure`, `write`, `health` | background tasks of `/ask`; `/ready` |
| Retrieval, `src/copilot/retrieval_core.py` | an index built once | search | `filing_search` tool |
| Risk engine, `cpp/riskcore`, `src/risk` | none | VaR, Monte Carlo over threads, backtest | `market_risk` and `pretrade_check` tools |
| Metrics, logging, middleware, deployment, scripts | counters; configuration | observe, configure | operators |

**What is hard here.** Processes share Redis and die between two of its calls
(poller, worker). A pending entry is reclaimed from a worker that is only slow.
Capped streams drop entries that are undelivered, pending or not yet read by a
replica. Replicas restart with the fixtures and read the whole stream again,
while a cache shared by all of them is keyed by a count each replica keeps for
itself. The cache key is built before the graph runs, and filings land while it
does: a tool reads the store by many queries with a lock each, not one, and a
fact may be restated between two of them. Replicas create the audit schema at the same time. Threads of one process
share a span buffer that evicts. A rate-limit window may end while a request is
being counted. Threads sleep for tokens other threads take meanwhile. Facts are
labelled from whatever SEC lists when a filing is fetched, and never again. A
simulation writes one unlocked vector from several threads, and limits are
compared with sums of doubles. `PROJECT.json` (`hazards`) lists each of these at its line with
the properties that cover it.

**What makes each part correct.**

* Ingestion: an accession is published once; a published filing is never
  forgotten; it is handled by one worker at a time when workers are timely; a
  filing that always fails is given up.
* Replicas: a store is the fixtures and a prefix of the stream; one version
  stands for one set of facts; every filing arrives.
* Cache: an answer computed before a filing landed is not served after it.
* Rate limit: at most the limit per window and caller, and no denial before it.
* Audit: one row per request, whatever the replicas do to the schema.
* Tracing: a request reads back its own spans, and leaves none in the buffer.
* Fact queries: an answer as of a date does not change when later filings
  arrive; what is cited was filed in time and was current when the tool started;
  the inputs of a derived figure are evidence too.
* Answers: each tool asked for takes its turn once; no number leaves that was not
  checked against evidence; every question ends.
* Search: each company named that has a passage to offer has one in the evidence.
* Normalisation: filings normalised one by one give the store that the whole
  history gives; later filings leave the facts of earlier ones alone; a label
  stands for one period.
* EDGAR client: requests stay within capacity and refill in any span of time; a
  sleep is long enough; every call ends.
* Risk engine: the P&L does not depend on threads or schedule; VaR, ES and the
  exceptions of the backtest are those of a plain sort; approval is exact up to
  the rounding of sums.

## 2. Modules

| Module | Models | Extends |
| --- | --- | --- |
| `FilingDelivery` | what ingestion promises: at-least-once delivery, abstractly | |
| `FilingIngest` | poller, consumer group, worker, one action per Redis call | implements `FilingDelivery` |
| `FilingIngestProofs` | theorems about it | `FilingIngest` |
| `FactReplica` | `edgar:facts`, the subscribers and the stores | |
| `FactReplicaProofs` | theorems about it | `FactReplica` |
| `AskCache` | `/ask` and the shared cache over those stores | `FactReplica` |
| `AskCacheProofs` | theorems about it | `AskCache`, `FactReplicaProofs` |
| `FactHistory` | what the fact store answers, as operators on a set of filings | |
| `Fundamentals` | the fundamentals tool, one action per query of the store | `FactHistory` |
| `CopilotGraph` | router, tools, synthesis and verification of one question | `Fundamentals` |
| `CopilotGraphProofs` | theorems about the two | `CopilotGraph` |
| `ApiThreads` | the threads of the API processes | |
| `RateLimiter` | `hit` of both backends | `ApiThreads` |
| `SpanBuffer` | the request span buffer | `ApiThreads` |
| `AuditSink` | the lazy schema and the audit rows | `ApiThreads` |
| `AskService` | what surrounds the answer of `/ask`; composes the two above | `SpanBuffer`, `AuditSink` |
| `RequestProofs` | theorems about the limiter and about `AskService` | `AskService`, `RateLimiter` |
| `EdgarClient` | the token bucket and the retries of threads that share it | |
| `EdgarClientProofs` | theorems about it | `EdgarClient` |
| `FiledFacts` | XBRL normalisation, filing by filing, and the store's primary key | |
| `FiledFactsProofs` | theorems about it | `FiledFacts` |
| `RiskTail` | tail counts, tail selection, sorted window, and their reference | |
| `MonteCarlo` | the threads of a simulation | |
| `RiskEngine` | `portfolio_risk`: composes the two | `RiskTail`, `MonteCarlo` |
| `PreTrade` | the pre-trade decision on its result | `RiskEngine` |
| `RiskEngineProofs` | theorems about the four | `PreTrade` |
| `MC*` | model values and symmetry for TLC | |

### FilingIngest

One action is one Redis call, because another process may run between any two.
`stream` is every entry ever added to `edgar:filings` and a message id is a
position in it; `trimmed` says how many the cap dropped (approximate MAXLEN: any
number that leaves at least `MaxLen`). `pending`, `idle`, `lastDelivered` and
`attempts` are the consumer group's and the hash's state, `phase`, `work`, `pc`
and `attempt` the local variables of a worker's round.

* `Mark` and `Announce` are the two calls of `publish`; `PollerFails` is a stop
  or a Redis error between them; the history variable `stops` counts it.
* `Claim` and `ReadNew` are the two fetches of `run_once`; `Claim` also deletes
  the pending entries the cap dropped, as XAUTOCLAIM does. `Age` is the passing
  of `claim_idle_ms`.
* `Attempt`, `PublishFacts` or `SourceRaises`, `DeadLetter`, `Ack`,
  `ClearAttempts` are `handle` in order. `PublishFails` is XADD raising, executed
  or not, inside the `try`; `Abandon` is a crash, or a Redis error outside it,
  which `run_forever` answers by starting a new round; both leave the same state.
* `Killed` is a filing that takes the process down, which no `except` sees.

What a filing contains is abstracted to whether its source may return, raise or
kill. The group is never lost: `docker-compose.yml` runs Redis with an
append-only file.

### FactReplica and AskCache

A store is the set of filings it holds: a row's primary key ends with the
accession, so the rows of a filing replace only themselves. `upsert` holds the
store's lock from the insert to the bump of `data_version`; every query takes
the lock; `data_version` alone is read without it, and a read in between returns
what a read before returns, so an upsert is one action. `missed` is a history
variable: some replica moved past a good message without applying it, because
the cap dropped it or an upsert raised.

`AskCache` asks one question again and again at every replica; of the key only
the version then varies. An answer is computed from several queries with no
common lock; two stand for them, and an answer is the pair of stores they saw.
`floor` is a history variable, the facts the replica held when the key was built.
A restart takes the replica's requests with it and leaves the cache.

### FactHistory, Fundamentals, CopilotGraph

A filing is a model value with its company, its day, the rank of its accession
number, and the values it reports by metric and fiscal year. `Seen` is the
condition `filed <= as_of`, `Newer` the order of `history`; `Get` gives its result
as the set that holds it, `NoFiling` when there is none, so that an action picks
it with `\E`. `Originals` is what `fact_evidence` finds among `versions()`, which
are read without the date. Only full fiscal years are asked for by the tool, so
quarters are left out; `implied_q4`, which the tool does not call, is too.

`Fundamentals` keeps the local variables of `run_fundamentals` (the companies and
metrics still to do, the year, the first input of a ratio, the inputs still to
become evidence) and takes one step per query, because each query takes the
store's lock for itself and `Land`, an upsert by the subscriber's thread, may come
between any two. `start` is a history variable, the filings in the store when the
tool started. Evidence is kept by its ids: a fact with the filing it was
originally reported by, a derived metric with the ids of its inputs. A figure is a
value; the figure of a derived metric is the tuple of the values it is computed
from, so that two derived figures are equal exactly when name and inputs are.

`CopilotGraph` runs that tool as one node of the agent graph. `Route` lets the
router choose any tools, as the model may; the fallbacks, the portfolio made up of
equal weights and the pre-trade check standing in for market risk are the code's.
Each tool node drops the head of `pending`, also when it has no company or
portfolio to work on (`NeedsCompany`). `filing_search` searches one index per
company named, or the one of all companies (`Scopes`), and takes any ranking of
what matches, or in model mode, where embeddings rank everything, of the whole
corpus; it fetches twice as many passages as asked for, drops repeated texts, and
cuts (`Hits`). It is not given the date. A draft of the model states any
figures it was given or makes up, at most `MaxFigures` of them; `Verdict` is
`verify_answer` and reports `failed` when a figure is not in the evidence; `Draft`
retries once and then falls back to the findings, which `Template` gives at once.
`Cuts` is the answer shortened to `MAX_ANSWER_CHARS`: one figure may be cut into
another one. `Raises` is an exception of the risk engine, the language model or
the embedder, which ends the graph. What lands once the tool has read the store
has no effect on the question, so `Landing` stops there.

### RateLimiter

A request reads the clock (`ReadClock`) and later counts itself (`HitMemory`,
`HitRedis` or `FailOpen`); `Tick` ends the window. The in-process dict prunes
older windows on each hit; a Redis key outlives its window. `FailOpen` is a Redis
error before or after Redis ran the transaction. Counters, callers and windows
are kept apart by `KeyOf`. A hit is at most one window late: the Redis client
times out in a quarter of a second, a window is a minute. The clocks of the
replicas are taken to agree.

### SpanBuffer, AuditSink, AskService

`Export` is one call of the buffer's `export` (SimpleSpanProcessor calls it per
span), with the eviction it may do; `Pop` is `get_trace`. `pop` leaves the trace
in `_order`, as the code does; `crowd` is a history variable, the traces started
at a request's replica since its own. `AuditSink` is `_ensure` call by call:
the first look, the lock of the process, the second look, PostgreSQL's advisory
lock, and CREATE TABLE IF NOT EXISTS as the two steps it is. `DbFails` raises at
any of its calls, executed or not. `AskService` runs a request through the verdicts on its
token (`Authenticate`, before the rate limit counts anything) and of the rate limit,
the guardrail's refusal or the cache's answer (`Blocked`, `FromCache`: audited, without
a trace), the nodes of the graph, the root span, `get_trace` in the `finally` clause, the background audit
write after the response, and the server span that ends last; a readiness probe
runs `health`, which may create the schema as well. A graph ends after at most
`Nodes` nodes, returning or raising. `MaxThreads` is the size of the pool that
runs `ask`.

### EdgarClient

`TakeToken` and `Wait` are the two ways out of one look at the bucket under its
lock; `WakeUp` ends the sleep of `Wait` or of the backoff. `Answered` and `Failed` are
the response: returned or raised for good, or retried after a sleep of any length
up to `Backoff[attempt]`. Time is counted in ticks of which `Grain` refill a token,
so the code's floats are exact at that resolution, for any `Grain`. `since[a]` is a
history variable, the requests of the last `a` ticks; `beaten` says that another
thread took a token while this one slept.

### FiledFacts

A row of companyfacts is its tag, its days and its filing; `Form`, `FiscalYear` and
`FiscalPeriod` are what the filing is tagged with. `Class`, `Naming`, `LabelOf`,
`Claimed` and `Facts` are `_duration_class`, `_period_labels` and
`normalize_company_facts`; `setdefault` is the first row in the order of `Precedes`.
`Announce` is the poller, `List` SEC's listing (external), which may lag behind, and
`Fetch` a delivery of the worker: it normalises everything listed, keeps the facts of
its filing, upserts them by primary key, and may lose its acknowledgement and be
repeated. Values are left out: no property tells them apart. Two things are assumed
of what a company files. `ConsistentTags`: two filings that are about the same period
tag it alike. `FiscalCalendar`: a metric is an amount over a period or on a day,
periods of a kind that end together begin together, and two filings that tag alike
are about the same period. A row its filing's tags are not about, twelve months in a
10-Q or a day after the report date, is `OffTag` and nothing is assumed of it: those
are the rows that name a period wrongly.

### RiskTail, MonteCarlo, RiskEngine, PreTrade

Returns and P&L are integers, and a double is a multiple of 1/`Grain` of the unit
that is off by at most `Slip`; the guard `1e-9` is `Guard` of these. `Tails` is
`std::nth_element`: any set of k scenarios with none above one left out.
`TailStats` selects among candidates up to a threshold of the sample when the tail
is thin, from all otherwise; the rank of the threshold is left open. `Pull` is the
`fetch_add` of a block and the seeding of its generator, `Simulate` one path; a
generator is the block it was seeded for and the paths drawn since (`rng`), which
together fix all it returns (`Draw`). `RiskEngine` runs `portfolio_risk`: the returns,
the historical VaR, the simulation, the backtest day by day. `days` is the window a
request asks for, of any length; `Lookback`, the 250 days the backtest looks back
over, is the same for all. The history is at most `days` + `Lookback` days long and
at least `days` + `Margin`, and nothing relates the two lengths: when it is no longer than
`Lookback`, riskcore refuses the backtest (`Observed`) and `portfolio_risk` raises after
it has simulated (`BacktestRaises`). Parametric VaR, the Kupiec statistic and the Euler
shares are formulas on the side and are left out. `PreTrade` adds up weights with
rounding and decides; it asks for the default window.

## 3. Runs

Each passing run checks deadlock except where the system really may stop: the
bounded streams of `replica`, the bounded clock of `rate_limit`, the end of the
filings in `filed_facts` and of the one evaluation in `risk_engine`.

| Run | Instance | Question |
| --- | --- | --- |
| `ingest_core` | 1 poller, 2 workers, 2 filings (one may raise), 1 fault, cap 1, fair | Is a filing ever lost, a counter ever reset, delivery ever less than at-least-once? Does every entry leave the queue for good? |
| `ingest_timely` | 2 pollers, 2 timely workers, 3 filings (one raises, one kills), 1 fault | Published once, lost by a poller's stop only, held once, one outcome? |
| `replica` | 2 replicas, 3 messages of 4 filings (one malformed, one empty), cap 2, 1 restart, 1 glitch, fair | Do versions stand for facts, who misses a message, does every filing arrive? |
| `cache_fresh` | 2 replicas, 2 requests, 2 filings, 1 restart, 1 glitch | Is a stale answer ever served? |
| `rate_limit` | 2 replicas, 3 requests of one caller and one of another, limit 1, 4 windows, 1 Redis error | When does the limit hold? |
| `ask_service` | 2 requests at one replica, a probe at another, 2 traces, room for one, 1 database error | Audit rows, traces, deadlock |
| `copilot_graph` | 1 question of 7 over 2 companies, with and without a date and a year; 2 fixtures, 3 filings that land (an older one, an amendment, one of the amendment's day that restates the same fact); 3 passages, 2 that match, k = 2; 1 invented figure, drafts of 1 figure; fair | Is what is cited in time and current, is each gap real, does each tool take its turn, is each company found, does an unsourced figure leave, does every question end? |
| `edgar` | 3 threads, a call each, 1 retry, a bucket of 2 tokens of 2 ticks, spans up to 4 ticks, fair | Budget, sleeps, termination |
| `filed_facts` | 4 filings (10-K, 10-Q, 10-K, 10-K/A) about 2 fiscal years, 32 choices of rows, listed up to 1 late, 1 acknowledgement lost | Does the store built filing by filing equal the whole history's, do facts stay, do labels mean one period? |
| `risk_engine` | 3 threads, 5 paths in blocks of 2; requests of 6 days and of 2; all histories of 3, 4 and 6 returns of 3 values, and of 7 that end in a loss; lookback 4; every rounding; 7 books | Does the P&L depend on the schedule, do tails and backtest equal the reference, does a result have an observed day, is the decision exact? |
| `ingest_killer` | violation | section 6 |
| `fiscal_labels` | violation | section 6 |

**Why these bounds are enough to be worth something.** Two workers are what it
takes to claim from each other, also from one that is merely slow; a fault crashes
one of them while the other handles what it claimed from it. `MaxDeliveries` 2 separates the first
delivery from the last; the counter saturates one above it, where the code does
the same whatever it is. The cap is 1 or 2, below the number of messages, so
entries are dropped undelivered, pending and unread. Three messages let a filing
be broadcast twice around another one, with a restart between. Limit 1 with
three requests of one caller has a request at, above and, after pruning, again
below the limit. Room for one trace with two requests evicts in every order. The
filings of `copilot_graph` restate one year's income twice, take a revenue back to
nothing (the zero denominator), tie on one fact and one day, where the accession decides, and
arrive in every order,
between every two queries; one company reports no revenue, so the year is found
by its income. Two passages that match and one that does not, two of them with the
same text, let one company crowd out the other if they shared a ranking. A draft of one figure is enough, since a draft fails by one
figure without a source. Three threads at a bucket of two tokens wait for each
other's tokens, wake up in vain and retry. The four filings report a year again
under another tag, a quarter twice, twelve months that end with a quarter, a day
beyond the period, and a fourth quarter, each or not. Five paths in blocks of two leave a
short last block and more threads than the caller can keep busy. A request of two
days stands for the windows shorter than the lookback: its histories of three and four
days are too short for the backtest, the one of six is not; a request of six days stands
for the longer windows. Three values in six days make most days tie; the tail of a
third of six is a whole number, where
rounding decides; the books stand at the limits, one unit beyond, and below. The
hazards each bound must reach are tested by mutants: every property of a passing
run is violated once a definition of the model is changed the way a plausible
bug would change the code (`PROJECT.json`, `mutants`; the mutated forms stand in
the modules, unused).

**Properties.** `NothingLost` (an entry is undelivered, pending, settled, or
dropped by the cap), `CounterKeptWhilePending` (an action property),
`DeliversAtLeastOnce` (refinement), `Drains` (liveness); `PublishedOnce`,
`LostOnlyByCrash` (each accession marked as seen that is neither published nor about
to be cost a poller a stop; faults of workers do not count), `SoleHolder`, `OneOutcome`;
`SameVersionSameData`, `AppliesUnlessFarBehind` (an action property: a replica moves past
a message it should apply only in a glitch, or when the cap dropped it and the replica was
more than the cap's length behind), `Converges` (liveness); `NeverServedStale`; `WindowLimit`,
which states exactly when the limit can be exceeded (a Redis error; in memory, a
request that was late), and `NoEarlyDenial`, which holds whatever happened;
`AuditedOnce`, `NoRowLost`, `ReadyMeansTable`; `NoSpanLeak`, and `ReadsOwnTrace`, which
says under which crowd a request reads back its own spans; `NoLookAhead`,
`CitesNothingStale` and `InputsCited` for the evidence, `GapsAreReal` for what the
tool says is missing, `AsOfStable` (an action property) for the store;
`ToolsAccountedFor`; `NamedCompaniesFound`; `OnlySourcedFigures`, which names the one
case in which an uncut answer states a figure without a source, reported as failed;
`Answers` (liveness). `WithinBudget` bounds the requests of every span of time;
`WaitIsEnough`; `Returns` (liveness). `LiveIsWhole` names the two ways a fact may be
missing from the store (its filing was fetched before it was listed; its period was
named by a later filing only), `LabelNamesPeriod` the one way a label may stand
for two periods (an `OffTag` row named one of them), `FactsStay` is an action property. `SameForAnyThreads`,
`NoSharedPath`; `TailsAgree`, `WindowIsSorted`, `ExceptionsAgree` against the reference, the last also
that a result has at least one observed day;
`DecisionIsExact`, which names the case of a sector just at its limit.

Each module states its type invariant and, where there are proofs, the inductive
invariant (`IInv`, `AckedGone`, `OutcomeInv`, `ReplicaInv`, `CacheInv`, `ToolInv`, `BudgetInv`, `ListedWhole`,
`SimInv`); what the others need is stated where it is proved. They are what the proofs establish, and the configurations leave them
out; adding one to an `INVARIANTS` line checks it on the run's instance.

**Fairness.** `ingest_core` and `ingest_killer` assume that each worker and
poller process keeps taking steps (their loops run for ever and the deployment
restarts them) and that time passes; never that a fault happens or stops
happening: faults are bounded because their number is. `replica` assumes that
the polling thread keeps running, which `start` ensures by catching whatever a
poll raises. `copilot_graph` assumes that the thread that answers keeps running
and that its calls return, with a result or an exception. `edgar` assumes that the
threads keep running, that requests end (the HTTP client has a timeout) and that
time passes; not that a thread that wakes up finds a token, which weak fairness of
each thread does not give it. `Returns` holds because calls and retries are finite
in number, so that the others stop taking tokens: among threads that call for
ever, one may be beaten for ever. No fairness is assumed
of producers, landings, new requests or restarts.

## 4. What is proved

Every safety invariant and every action property that a passing run checks is also
a theorem: for every number of processes, filings, replicas, requests, and every
cap, batch size and bound, from the constants' assumptions alone.

* `FilingIngestProofs`: `TypeCorrect`; `Invariant` (`IInv`), and from it
  `NoFilingLost`, `NoFilingTwice`, `NoSharedEntry`; `CounterNeverFallsBack`;
  `FaultsForget`; `OutcomeInvariant`, and from it `ExactlyOneOutcome`;
  `ImplementsDelivery`, the refinement of `FilingDelivery`.
* `FactReplicaProofs`: `ReplicaTypeCorrect`, `ReplicaInvariant`,
  `OneVersionOneStore`, `KeepingUpMissesNothing`.
* `AskCacheProofs`: `RefinesReplicas`, `TypeCorrect`, `CacheInvariant`,
  `NoStaleAnswer`.
* `CopilotGraphProofs`: `ToolInvariant` (`ToolInv`), `RunsTheTool`, `GraphInvariant`, `NoFutureEvidence`,
  `NoStaleEvidence`, `PointInTime`; `NoFalseGapAnswered`, `InputsReachTheAnswer`;
  `NoUnsourcedFigure`; `EveryCompanyFound`; `EachToolOnce`, `GraphTypeCorrect`;
  `QuestionEnds`, which bounds the steps of a question.
* `RequestProofs`: `LimiterTypeCorrect`, `NeverDeniedEarly`, `LimitHolds`;
  `ServiceTypeCorrect`, `AuditInvariant`, `EveryWriteOneRow`, `ReadyHasTable`,
  `EveryRequestAudited`; `LocksReleased`, `NoDeadlock`; `BufferEmpties`, `OwnTraceBack`.
* `EdgarClientProofs`: `TypeCorrect`, `RequestBudget`, `SleepsOnce`.
* `FiledFactsProofs`: `EarlierFactsStay`, `LiveStoreIsWhole`, `LabelMeansPeriod`.
* `RiskEngineProofs`: `Simulation`, `RaceFree`, `ThreadCountIrrelevant`;
  `RoundingHarmless`, `SampleHarmless`; `TailsExact`; `SlideSorts`, `WindowSorted`,
  `ExceptionsCounted`; `RunsTheEngine`, `DecisionExact`.

*Ingestion.* `NothingLost` is not inductive: XACK removes an entry because the
program counter says so. `AckReady` adds that a worker at XACK holds an entry
that has an outcome. `PublishedOnce` needs `SoleAnnouncer` (a poller about to add
an accession is alone with it, since SADD decided), and `SoleHolder` needs
`HeldNotIdle`. Each action is one step of the proof, under it one step per
conjunct it can disturb. A counter is deleted after the acknowledgement, and
`AckedGone` says that the entry is then off the pending list for good.
`FaultsForget` counts: an accession becomes forgotten only in a step of
`PollerFails`, which adds one to `stops`. `OneOutcome` needs `OutcomeHeld`: an
entry that has an outcome is in the hands of one worker, at XACK or HDEL, or off
the list, so nobody else is given it.

*Replicas.* `IsPrefix` says what a store and a version are after the first n
messages; `BatchAhead` says that a batch lies ahead of `last_id` and skips only
what the cap dropped. `SameVersionSameData` then follows from one lemma: between
two prefixes counted by the same version there is no good message.
`KeepingUpMissesNothing` adds `CapKeeps`, that the cap leaves its length of messages: what
lies between `last_id` and the next message was dropped (`BatchAhead`), so the whole length
of the cap lies behind it (`PassedOverFarBehind`).

*Cache.* Every step of `AskCache` is a step of `FactReplica` or leaves it alone
(`RefinesReplicas`), so the replicas' theorems carry over. `CacheInv` says that a
key and the facts owed for it are those of one prefix, which the serving replica
has not left (`KeyIsPrefix`), that what the queries read holds them
(`ReadsHold`), and that a cache entry holds the facts its version counts
(`EntryHolds`).

*Fact queries.* A fact in evidence was read some queries ago, and the store has
changed since; `NoLookAhead` and `CitesNothingStale` therefore also need what the
tool has in hand. `Sound` says of a fact that the request may see its filing and
that no filing in the store at the start restates it; `FoundSound` derives it from
what `get` returns now, for the store only grows, and `SoundStays` keeps it.
`HandsSound` says it of the first input, of the inputs still to be read again and
of the fact being cited, `EvidenceSound` of everything cited; an original is
older than its fact (`OriginalBefore`), so it is in time although `versions()`
knows no date. `StepReady` is what each step may rely on. A step of the graph is a
step of the tool, a landing, or leaves the tool alone (`GraphStepIsToolStep`), so
the graph inherits the invariant. `PointInTime` follows from `LaterUnseen`: a
filing of a later date is not among the filings seen.

*Gaps and inputs.* A store that has nothing now had nothing at the start, of which
it holds everything (`NothingBefore`, `NoYearBefore`); `GapsInHand` carries that
over the two queries of a ratio. An input of a derived metric is evidence, or
restated since the start, or still on its way (`Traced`); one that is no longer
answered when it is read again was restated (`NotCitedRestated`), and nothing is on
its way once the metric is stated (`InputsInHand`).

*Figures.* A figure stated must still be in the evidence at the end, so no entry of
the evidence may be replaced by another. A derived metric is computed once, for the
router names no company and no metric twice (`KeysBehind`). A fact can be cited
twice, and then its original is looked up again: if the original at the start is
the one there is now, it was the same in between (`OriginalSettled`, for stores only
grow), and once it has moved it stays moved (`MovedStays`). The answer carries the
verdict on what it states (`AnswerInv`), over evidence that no longer changes.

*Search.* Cutting a ranking that is not empty, dropping repeats and cutting again
leaves something each time (`TopNotEmpty`, `DistinctNotEmpty`), and what is left
comes from the company's own index (`HitsFound`).

*The queue.* `TurnsInv` splits the tools the router chose into those still in the
queue and those behind it: the queue is the first set in the fixed order, what ran is
the second, without what was skipped, in the same order, and every tool behind comes
before every tool ahead. A tool taken off the head of the queue is the first of those
left (`FirstOfQueue`), so it is the last of those done (`AppendToQueue`). The queue is
written as four turns, one after the other, for the provers to compute with it.

*The work of a question.* `StepsLeft` counts what is left: 7 queries for a metric at
most (the two inputs of a ratio, then each read again with its versions), 3 for a
company, and the queue, the synthesizer and two drafts. Every step of the thread that
answers takes at least one off (`ToolWork`, `StepWork`), and a filing that lands adds
nothing. So a question cannot be kept busy by filings that arrive while it reads;
`Answers` needs beyond it only that a step can be taken until the graph ends.

*Rate limit.* The limit is not inductive: a counter must be at least the number
of requests it let through, which a late request undoes by starting a pruned
counter over. The invariant is therefore stated under the conditions of
`WindowLimit`, and for Redis keeps the key of a window as long as some request may
still be counted in it.

*Audit and spans.* `AuditInv` says that one transaction at a time is between the
look for the table and its creation (`OneCreates`), and what each call has written
follows from where it is (`RowsInCalls`); `Progress` ties the request's step to
its call. `LocksHeld` says who holds the two locks from where the threads are, also
after a raise, and that makes them ordered (`NoCircularWait`): who waits for
`_init_lock` waits for a thread that has it and is at most waiting for the advisory
lock, whose holder waits for neither. For `ReadsOwnTrace`, `Whole` says that the buffer has all a request
exported and that its trace is among the last `crowd` + 1 of `_order`, so it is
not the head of a full deque; `Untouched` says that nothing of it is there before.
A step exports, pops, forgets, opens a trace, or leaves the buffer alone
(`SpanMoves`).

*Token bucket.* `WithinBudget` is not inductive: what the bucket can grant at once
counts too. `BudgetInv` bounds the requests of a span and the bucket's content
together, by capacity and refill; a look at the bucket, a token taken and a tick
each keep the sum. `WaitIsEnough` needs only that nobody else took a token.

*Facts.* `ListedWhole` says that companyfacts shows whole filings, in the order they
were filed. A later row cannot shadow an earlier one, since a context includes the
filing (`SameContext`), and cannot rename its period: by `ConsistentTags` every row
that may name a period gives it the same label (`LabelIsAny`), and the report period
of a filing is settled by its own rows (`OwnRows`). `ListingKeeps` says all of it of
one listing. `StoreInv` then counts out where a fact of an acknowledged filing can
be (`Kept`): an upsert leaves a fact under every key it had (`UpsertKeys`), and a fact
that a listing adds is of the new filing, or of a period only the new filing names.
`LabelMeansPeriod`: two facts with one label were each named by a row with that label
(`LabelIsNamed`); where neither is `OffTag`, `FiscalCalendar` makes the two rows end on
one day, and what they name begin on one day.

*Risk engine.* `SimInv` gives each block at most one thread, whose generator stands
where its path does, and makes what is behind it the P&L of one thread alone; a
path is in one block (`BlocksDisjoint`, `BlockOfPath`). `RoundingHarmless` is about
the ceiling alone: between two whole multiples of `Den` there is room for the guard
and the error. `SampleHarmless` says why the sample only decides speed.
`TailIsReference` then takes any k scenarios with none above one left out: the largest
is the k-th smallest of all, and since all that are below it are among them and the
rest are equal to it, their sum is the reference's (`TotalRemove`, `TotalOfEqual`).
A sorted copy is known by one fact, which makes sequences a matter of counting: its
i-th value is at most x exactly when i days are (`SortedOrders`, `SortedIs`). A slide
changes the count at x by the day that leaves and the day that comes (`CountsSlide`),
and the positions by the same (`SlideSorts`). `BacktestInv` is the invariant of the
loop over days: there is a day to forecast, by the guard `Observed` and not by any
relation of the window asked for and the lookback; the window is the sorted copy of
the days before, and the exceptions are those of the days done (`ExceptionCounted`).
`DecisionExact` compares each rounded sum with its limit (`Sectors`, `Gross`), for
`TradeSpec`, each of whose steps is one of the engine's or leaves it alone
(`RunsTheEngine`).

## 5. What is only model-checked

The five liveness properties, `Drains`, `Converges`, `GoodFilingsProceed` (whose
violation is a finding), `Answers` and `Returns`: they rest on fairness, and so on
ENABLED, which the prover does not handle. Of `Answers` the part that is not about
fairness is the theorem `QuestionEnds`. Deadlock is checked by the runs; for the one
part with locks that are held across calls, the audit sink, it is the theorem `NoDeadlock`; no invariant of `ask_service` stands for it.

The induction the proofs need over data (the least rank, the size of a set, the sum
of its values) goes by a least counterexample, which `WFMin` gives without an operator
as a parameter. Sums are `MapThenSumSet`, which the provers can unfold; `SelectSeq`
they cannot, and no module with theorems uses it.

## 6. Where the code and its documentation disagree

Each is a run TLC finds violated by what the code does.

* `ingest_killer` (`GoodFilingsProceed`): a filing that takes the process down is
  counted but never given up, and the filings claimed behind it wait for ever.
  `worker.py` says "so one bad filing cannot block the stream". The
  counterexample is fair and has no fault.
* `fiscal_labels` (`YearIsFiscalYear`): a row of 350 to 380 days that ends on a
  10-Q's report date is labelled FY, so the trailing twelve months a 10-Q reports
  become a fiscal year beside the 10-K's, and the one filed last is answered.
  `xbrl.py` says labels are "taken only from rows where the period IS the filing's own
  report period". In the committed fixtures it is AMZN: as of 2024-12-01 its capital
  expenditures FY2023 are 54.733 billion, of twelve months a 10-Q reports, where
  the 10-K says 52.729 billion. `LabelNamesPeriod` says what does hold.

Seen while modelling, without a run:

* SADD comes before XADD, so a poller that stops between them leaves an accession
  that is never published, though `poller.py` says "Exactly-once *publication*
  despite restarts" (`LostOnlyByCrash` names the case);
* a replica skips a good message when its upsert raises once; from then on equal
  versions stand for different facts, and the shared cache may serve an answer
  without a filing the replica has applied, though `cache.py` says "never served
  after it" (the flag `missed` in `NeverServedStale`);
* the filing search is not given the date a question is asked as of, so passages of
  later filings are quoted, though `schemas.py` says "the copilot only uses filings
  filed and prices dated on or before this date";
* `portfolio_risk` says it needs 30 days of returns beyond the window ("need
  {req.window + 30}"), but its backtest needs 251 days whatever the window: for a window of
  at most 220, a history of window + 30 to 250 days passes that test, and the call raises
  after the simulation, so `POST /v1/risk` answers 422 (`BacktestRaises`);
* the weights of a sector are compared with its limit without the tolerance the
  gross exposure has: 0.1 + 0.2 + 0.3 in doubles is above 0.6, and a book at the
  limit is rejected (`DecisionIsExact` names the case);
* a bucket of 10 tokens that refills 10 a second lets about 20 requests into one
  second after an idle time (`WithinBudget` says exactly how many), while the header of
  `edgar.py` says at most 10;
* two rows of one filing may share a primary key, and the store keeps one of them:
  18 keys in the committed NVDA fixture;
* a filing is dead-lettered at its `max_deliveries`-th delivery, while the header
  of `worker.py` says "more than";
* after the cap dropped messages, a restarted replica has a lower version than
  its peers for good, so the alert on diverged stores does not mean what its text
  says;
* a Redis rate-limit key outlives its window by one to two windows, not by less
  than one;
* `pop` leaves a finished trace in `_order` of the span buffer, so it counts
  against the cap on "in-flight traces" until it is evicted, and a request in
  flight may be evicted though fewer than `max_traces` are (`ReadsOwnTrace` says
  what does hold);
* the answer is cut after it was verified (`cut` in `CopilotGraph`);
* when an older filing lands while the tool looks at one fact twice, a template
  answer does not verify, though `formatting.py` says it always does
  (`OnlySourcedFigures` names the case).

## 7. What is not modelled

* Loss of Redis data: the models assume the append-only file of the deployment.
* How a token is validated and what the guardrail's patterns match (their verdicts
  are actions of `AskService`); settings, formatting, metrics: a decision or a text
  over one request, with no state another part reads.
* Formulas over reals: parametric VaR, Kupiec's test, quantiles, the distribution of
  a path, BM25 and cosine scores. What is done with their results is modelled.
* The numbers in a text: how the verifier recognises, rounds and matches them; an
  answer is the set of figures it states.
* `implied_q4` and `restatements`, which nothing in the service calls.
* Scripts, evaluation, bindings: tools run by hand, glue.
* Exceptions while the response is built and requests cancelled by the client.
* The in-process response cache of a single replica without Redis.

## 8. Plan

1. Done: ingestion, replicas, cache, fact queries, agent graph, EDGAR client,
   normalisation, risk engine, rate limiter and the request's surroundings, and
   the search, with every safety property of the runs proved.
2. An abstract specification of an answer (verified, or the findings with the
   verdict on them), with `CopilotGraph` shown to implement it.
3. What is left of liveness in safety form: a measure like `StepsLeft` for the
   round of a worker and for a call of the EDGAR client between two waits.
4. Compositions: `EdgarClient` under the worker's `Fetch`; `FiledFacts` feeding
   `FactHistory`, so that an answer's year is a label of `_period_labels`.
