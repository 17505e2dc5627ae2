---------------------------- MODULE Fundamentals ----------------------------
(***************************************************************************)
(* run_fundamentals (src/copilot/tools/fundamentals.py): for each company  *)
(* and metric asked for, the facts and ratios that become evidence.  It    *)
(* reads the store by one query at a time, each under the store's lock;    *)
(* between two of them the subscriber's thread may land a filing.          *)
(***************************************************************************)
EXTENDS FactHistory, Sequences, Functions

CONSTANTS
  Fixtures,    \* the filings the store is loaded with
  Dates,
  Requests     \* what may be asked of the tool

RequestType == [tickers: Seq(Tickers), metrics: Seq(Metrics \union DerivedNames),
                year: Int \union {NoYear}, asOf: Dates \union {NoDate}]

\* The router names no company twice, and no metric (dict.fromkeys; extract_metrics).
ASSUME ToolAssumption ==
  /\ Fixtures \subseteq Filings
  /\ Dates \subseteq Int /\ NoDate \notin Dates
  /\ NoYear \notin Int
  /\ Requests \subseteq RequestType
  /\ \A r \in Requests : IsInjective(r.tickers) /\ IsInjective(r.metrics)

\* An xbrl_fact is known by its metric, fiscal year and filing, a derived
\* metric by its company, name and fiscal year.
FactIds == [metric: Metrics, year: Int, filing: Filings]
DerivedIds == [ticker: Tickers, name: DerivedNames, year: Int]
NoFact == [metric |-> "none"]

VARIABLES
  held,      \* the filings in the store
  request,
  step,      \* which query comes next
  tickers,   \* still to do, the current one first
  metrics,   \* of the current company, still to do
  year,      \* the fiscal year asked about
  got,       \* the first input of a derived metric
  inputs,    \* facts still to become evidence of a derived metric
  citing,    \* the fact whose versions are asked for
  facts,     \* evidence: of a fact, the filing it was originally reported by
  derived,   \* evidence: of a derived metric, its two inputs
  quoted,    \* the figures the findings state
  gaps,      \* the facts the tool says are not reported
  start      \* history: the filings in the store when the tool started

toolVars == <<request, step, tickers, metrics, year, got, inputs, citing, facts, derived, quoted,
              gaps, start>>

Steps == {"idle", "company", "year", "metric", "second", "input", "versions", "done"}
-----------------------------------------------------------------------------
\* f with k mapped to v.
Put(f, k, v) == [x \in DOMAIN f \union {k} |-> IF x = k THEN v ELSE f[x]]

Ticker == Head(tickers)
Metric == Head(metrics)
IsDerived == metrics # <<>> /\ Metric \in DerivedNames
AsOf == request.asOf
FactId(metric, y, f) == [metric |-> metric, year |-> y, filing |-> f]

\* get() and the versions of the store as it is.
Found(metric, y) == Get(held, Ticker, metric, y, AsOf)
FirstReported(id) == Originals(held, id.filing, id.metric, id.year)

\* The figures of evidence and findings.  The value of a derived metric stands
\* for the values it is computed from.
ValueOf(id) == Value(id.filing, id.metric, id.year)
FactFigures(id, first) ==
  {<<ValueOf(id)>>} \union IF first = NoFiling THEN {} ELSE {<<Value(first, id.metric, id.year)>>}
DerivedFigure(id) == <<id.name, ValueOf(derived[id][1]), ValueOf(derived[id][2])>>

Figures == (UNION {FactFigures(id, facts[id]) : id \in DOMAIN facts})
             \union {DerivedFigure(id) : id \in DOMAIN derived}
-----------------------------------------------------------------------------
(* Mutated forms, none of which is used.                                   *)

NextInputs_kept == inputs
RecheckYear_of_request(id) == year
Computable_nonzero(f, g) ==
  /\ f # NoFiling /\ g # NoFiling
  /\ Value(f, Formula[Metric].num, year) # 0
-----------------------------------------------------------------------------
\* apply(): a filing's rows are inserted by one statement under the lock.
Land(f) ==
  /\ f \notin held
  /\ held' = held \union {f}
  /\ UNCHANGED toolVars

Start ==
  /\ step = "idle"
  /\ step' = "company"
  /\ tickers' = request.tickers
  /\ start' = held
  /\ UNCHANGED <<held, request, metrics, year, got, inputs, citing, facts, derived, quoted, gaps>>

\* The next company: its fiscal year is the one asked for, or else the latest
\* one revenue is seen of; net income is asked for when there is none.
HaveYear(y) == year' = y /\ metrics' = request.metrics /\ step' = "metric"

Company ==
  /\ step = "company" /\ tickers # <<>>
  /\ \/ request.year # NoYear /\ HaveYear(request.year)
     \/ /\ request.year = NoYear
        /\ \E y \in LatestYear(held, Ticker, "revenue", AsOf) :
             IF y # NoYear THEN HaveYear(y) ELSE step' = "year" /\ UNCHANGED <<metrics, year>>
  /\ UNCHANGED <<held, request, tickers, got, inputs, citing, facts, derived, quoted, gaps, start>>

NextCompany == tickers' = Tail(tickers) /\ step' = "company"

YearByIncome ==
  /\ step = "year"
  /\ \E y \in LatestYear(held, Ticker, "net_income", AsOf) :
       IF y # NoYear
       THEN HaveYear(y) /\ UNCHANGED <<tickers, gaps>>
       ELSE /\ NextCompany
            /\ gaps' = gaps \union {[ticker |-> Ticker]}
            /\ UNCHANGED <<metrics, year>>
  /\ UNCHANGED <<held, request, got, inputs, citing, facts, derived, quoted, start>>

CompanyDone ==
  /\ step = "metric" /\ metrics = <<>>
  /\ NextCompany
  /\ UNCHANGED <<held, request, metrics, year, got, inputs, citing, facts, derived, quoted, gaps, start>>

NextMetric == metrics' = Tail(metrics) /\ step' = "metric"
Missing == gaps' = gaps \union {[ticker |-> Ticker, metric |-> Metric, year |-> year]}

\* A reported metric: get(), then its versions.
ReadFact ==
  /\ step = "metric" /\ metrics # <<>> /\ Metric \in Metrics
  /\ \E f \in Found(Metric, year) :
       IF f = NoFiling
       THEN NextMetric /\ Missing /\ UNCHANGED citing
       ELSE /\ citing' = FactId(Metric, year, f)
            /\ step' = "versions"
            /\ UNCHANGED <<metrics, gaps>>
  /\ UNCHANGED <<held, request, tickers, year, got, inputs, facts, derived, quoted, start>>

\* fact_evidence(): the original value is looked up, and the fact becomes
\* evidence.  A reported metric is then stated, a derived one goes on with its
\* next input.
Versions ==
  /\ step = "versions"
  /\ \E first \in FirstReported(citing) :
       /\ facts' = Put(facts, citing, first)
       /\ IF IsDerived
          THEN step' = "input" /\ UNCHANGED <<metrics, quoted>>
          ELSE NextMetric /\ quoted' = quoted \union FactFigures(citing, first)
  /\ citing' = NoFact
  /\ UNCHANGED <<held, request, tickers, year, got, inputs, derived, gaps, start>>

\* A derived metric: get() of one input and then of the other.
ReadFirst ==
  /\ step = "metric" /\ IsDerived
  /\ \E f \in Found(Formula[Metric].num, year) : got' = f
  /\ step' = "second"
  /\ UNCHANGED <<held, request, tickers, metrics, year, inputs, citing, facts, derived, quoted, gaps, start>>

Computable(f, g) ==
  /\ f # NoFiling /\ g # NoFiling
  /\ Formula[Metric].divides => Value(g, Formula[Metric].den, year - Formula[Metric].lag) # 0

Lineage(f, g) == <<FactId(Formula[Metric].num, year, f),
                   FactId(Formula[Metric].den, year - Formula[Metric].lag, g)>>

ReadSecond ==
  /\ step = "second"
  /\ \E g \in Found(Formula[Metric].den, year - Formula[Metric].lag) :
       IF Computable(got, g)
       THEN /\ derived' = Put(derived, [ticker |-> Ticker, name |-> Metric, year |-> year], Lineage(got, g))
            /\ inputs' = Lineage(got, g)
            /\ step' = "input"
            /\ UNCHANGED <<metrics, gaps>>
       ELSE NextMetric /\ Missing /\ UNCHANGED <<inputs, derived>>
  /\ got' = NoFiling
  /\ UNCHANGED <<held, request, tickers, year, citing, facts, quoted, start>>

\* Each input is read again by its id; one whose newest version is another by
\* now does not become evidence.
RecheckYear(id) == id.year
StillCited(id) == Found(id.metric, RecheckYear(id)) \intersect {id.filing}
NextInputs == Tail(inputs)

ReadInput ==
  /\ step = "input" /\ inputs # <<>>
  /\ inputs' = NextInputs
  /\ IF StillCited(Head(inputs)) # {}
     THEN citing' = Head(inputs) /\ step' = "versions"
     ELSE UNCHANGED <<citing, step>>
  /\ UNCHANGED <<held, request, tickers, metrics, year, got, facts, derived, quoted, gaps, start>>

\* The derived metric is stated.
StateDerived ==
  /\ step = "input" /\ inputs = <<>>
  /\ quoted' = quoted \union {DerivedFigure([ticker |-> Ticker, name |-> Metric, year |-> year])}
  /\ NextMetric
  /\ UNCHANGED <<held, request, tickers, year, got, inputs, citing, facts, derived, gaps, start>>

Return ==
  /\ step = "company" /\ tickers = <<>>
  /\ step' = "done"
  /\ UNCHANGED <<held, request, tickers, metrics, year, got, inputs, citing, facts, derived, quoted,
                 gaps, start>>

ToolStep == \/ Company \/ YearByIncome \/ CompanyDone \/ ReadFact \/ Versions
            \/ ReadFirst \/ ReadSecond \/ ReadInput \/ StateDerived

ToolInit ==
  /\ held = Fixtures
  /\ request \in Requests
  /\ step = "idle"
  /\ tickers = <<>> /\ metrics = <<>> /\ year = NoYear
  /\ got = NoFiling /\ inputs = <<>> /\ citing = NoFact
  /\ facts = <<>> /\ derived = <<>>
  /\ quoted = {} /\ gaps = {}
  /\ start = Fixtures

\* The tool by itself; CopilotGraph runs it among the others.
ToolNext == Start \/ ToolStep \/ Return \/ \E f \in Filings : Land(f)
ToolSpec == ToolInit /\ [][ToolNext]_<<held, toolVars>>
-----------------------------------------------------------------------------
(* Properties of the tool, for the specifications that run it              *)

ToolTypeOK ==
  /\ held \subseteq Filings /\ start \subseteq held
  /\ request \in Requests /\ step \in Steps
  /\ tickers \in Seq(Tickers) /\ metrics \in Seq(Metrics \union DerivedNames)
  /\ year \in Int \union {NoYear}
  /\ got \in Filings \union {NoFiling}
  /\ inputs \in Seq(FactIds) /\ citing \in FactIds \union {NoFact}
  /\ DOMAIN facts \subseteq FactIds /\ \A id \in DOMAIN facts : facts[id] \in Filings \union {NoFiling}
  /\ DOMAIN derived \subseteq DerivedIds /\ \A d \in DOMAIN derived : derived[d] \in FactIds \X FactIds

\* The facts the evidence names: its own and the inputs of derived metrics.
Cited == DOMAIN facts \union UNION {{derived[d][1], derived[d][2]} : d \in DOMAIN derived}

\* The newer versions of a fact that S holds and the request may see.
Restating(S, id) ==
  {g \in Reporting(Seen(S, AsOf), TickerOf[id.filing], id.metric, id.year) : Newer(g, id.filing)}

\* Nothing filed after the date asked for is evidence, input of a derived
\* metric or the original of a restated value, although the versions of a
\* period are read without the date (fundamentals.py, factstore.py).
NoLookAhead ==
  AsOf # NoDate =>
    /\ \A id \in Cited : FiledOn[id.filing] <= AsOf
    /\ \A id \in DOMAIN facts : facts[id] # NoFiling => FiledOn[facts[id]] <= AsOf

\* Whatever lands while the tool reads, no fact it cites had been restated when
\* it started.
CitesNothingStale == \A id \in Cited : Restating(start, id) = {}

\* "Input facts are evidence too": all are, once the tool has returned, except
\* one that a filing restated while it read.
InputsCited ==
  step = "done" =>
    \A d \in DOMAIN derived : \A i \in 1..2 :
      derived[d][i] \in DOMAIN facts \/ Restating(held \ start, derived[d][i]) # {}

\* Inductive: what each step of the tool may rely on, and that every fact in its
\* hands was seen by the request and current when the tool started.
Sound(id) == id.filing \in Seen(held, AsOf) /\ Restating(start, id) = {}

StepReady ==
  /\ step \in {"year", "metric", "second", "input", "versions"} => tickers # <<>>
  /\ step \in {"metric", "second", "input", "versions"} => year \in Int
  /\ step \in {"second", "input"} => IsDerived
  /\ step = "versions" => metrics # <<>> /\ citing \in FactIds
  /\ step = "idle" => DOMAIN facts = {} /\ DOMAIN derived = {} /\ inputs = <<>>

HandsSound ==
  /\ step = "second" /\ got # NoFiling => Sound(FactId(Formula[Metric].num, year, got))
  /\ step = "versions" => Sound(citing)
  /\ \A i \in 1..Len(inputs) : Sound(inputs[i])

EvidenceSound ==
  /\ \A id \in DOMAIN facts :
       Sound(id) /\ (facts[id] # NoFiling => FiledOn[facts[id]] < FiledOn[id.filing])
  /\ \A d \in DOMAIN derived : Sound(derived[d][1]) /\ Sound(derived[d][2])

ToolInv == ToolTypeOK /\ StepReady /\ HandsSound /\ EvidenceSound

\* The original of a fact is not the same throughout the run: an older filing
\* landed late, or two were filed on one day.
OriginalMoved(id) ==
  LET before == Originals(start, id.filing, id.metric, id.year)
      after  == Originals(held, id.filing, id.metric, id.year)
  IN before # after \/ \E f, g \in after : f # g

\* What the tool says is not reported was not, when it started: a fact was
\* missing, or an input of a ratio was, or its denominator was zero in a version
\* that could be seen.
Unreported(S, t, m, y) == Get(S, t, m, y, AsOf) = {NoFiling}
ZeroVersion(t, m, y) ==
  \E f \in Reporting(Seen(held, AsOf), t, m, y) : Value(f, m, y) = 0
GapIsReal(gap) ==
  IF "metric" \notin DOMAIN gap
  THEN \A m \in {"revenue", "net_income"} : LatestYear(start, gap.ticker, m, AsOf) = {NoYear}
  ELSE IF gap.metric \in Metrics
       THEN Unreported(start, gap.ticker, gap.metric, gap.year)
       ELSE LET inp == Formula[gap.metric]
            IN \/ Unreported(start, gap.ticker, inp.num, gap.year)
               \/ Unreported(start, gap.ticker, inp.den, gap.year - inp.lag)
               \/ inp.divides /\ ZeroVersion(gap.ticker, inp.den, gap.year - inp.lag)
GapsAreReal == \A gap \in gaps : GapIsReal(gap)

\* A filing of a later date changes no answer as of a date: neither a fact nor
\* the latest fiscal year.
AsOfStable ==
  [][\A f \in held' \ held, d \in Dates : FiledOn[f] > d =>
       \A t \in Tickers, m \in Metrics :
         /\ LatestYear(held', t, m, d) = LatestYear(held, t, m, d)
         /\ \A y \in YearsSeen(held', t, m, NoDate) : Get(held', t, m, y, d) = Get(held, t, m, y, d)]_held
=============================================================================
