------------------------- MODULE CopilotGraphProofs -------------------------
(***************************************************************************)
(* Theorems about Fundamentals and the graph that runs it, for any         *)
(* companies, filings, dates and requests, and any filings landing between *)
(* the queries: what the tool cites was filed by the date asked for and    *)
(* had not been restated when the tool started, and an answer as of a date *)
(* stays what it is when later filings land; a gap it reports is real, an  *)
(* input of a ratio is evidence too, and a figure it states is one of the  *)
(* evidence.  The graph leaves the tool's state alone but for running it,  *)
(* so what is proved of the tool holds of the evidence that reaches the    *)
(* answer, and of the answer.                                              *)
(***************************************************************************)
EXTENDS CopilotGraph, FiniteSetTheorems, WellFoundedInduction, TLAPS

-----------------------------------------------------------------------------
(* The queries                                                             *)

\* Of two filings, one is newer.
LEMMA NewerOneWay ==
  ASSUME NEW f \in Filings, NEW g \in Filings
  PROVE  ~(Newer(f, g) /\ Newer(g, f))
  BY HistoryAssumption DEF Newer

\* A filing of a later date is not seen.
LEMMA LaterUnseen ==
  ASSUME NEW S, NEW f \in Filings, NEW d \in Dates, FiledOn[f] > d
  PROVE  Seen(S \union {f}, d) = Seen(S, d)
<1>1. d # NoDate /\ d \in Int
  BY ToolAssumption
<1>2. ~(FiledOn[f] <= d)
  BY <1>1, HistoryAssumption
<1> QED  BY <1>1, <1>2 DEF Seen

\* A wider store sees no less.
LEMMA SeenGrows ==
  ASSUME NEW S, NEW T, S \subseteq T, NEW d
  PROVE  Seen(S, d) \subseteq Seen(T, d)
  BY DEF Seen

\* The inputs of a derived metric are metrics, of this fiscal year or the last.
LEMMA FormulaType ==
  ASSUME NEW n \in DerivedNames
  PROVE  Formula[n].num \in Metrics /\ Formula[n].den \in Metrics /\ Formula[n].lag \in {0, 1}
<1>1. n \in {"net_margin", "operating_margin", "gross_margin", "debt_to_equity",
             "revenue_growth_yoy", "net_income_growth_yoy", "free_cash_flow"}
  BY DEF DerivedNames, Formula
<1>2. CASE n = "net_margin"            BY <1>2 DEF Formula, Ratio, Metrics
<1>3. CASE n = "operating_margin"      BY <1>3 DEF Formula, Ratio, Metrics
<1>4. CASE n = "gross_margin"          BY <1>4 DEF Formula, Ratio, Metrics
<1>5. CASE n = "debt_to_equity"        BY <1>5 DEF Formula, Ratio, Metrics
<1>6. CASE n = "revenue_growth_yoy"    BY <1>6 DEF Formula, Growth, Metrics
<1>7. CASE n = "net_income_growth_yoy" BY <1>7 DEF Formula, Growth, Metrics
<1>8. CASE n = "free_cash_flow"        BY <1>8 DEF Formula, Difference, Metrics
<1> QED  BY <1>1, <1>2, <1>3, <1>4, <1>5, <1>6, <1>7, <1>8

\* What a query found is a filing that was seen and is not yet restated.
LEMMA FoundSound ==
  ASSUME held \subseteq Filings, start \subseteq held,
         NEW m, NEW y, NEW f \in Found(m, y), f # NoFiling
  PROVE  f \in Filings /\ Sound(FactId(m, y, f))
<1> DEFINE id == FactId(m, y, f)
           versions == Reporting(Seen(held, AsOf), Ticker, m, y)
<1>1. id.filing = f /\ id.metric = m /\ id.year = y
  BY DEF FactId
<1>2. f \in versions /\ \A g \in versions \ {f} : Newer(f, g)
  BY DEF Found, Get
<1>3. f \in Filings /\ f \in Seen(held, AsOf) /\ TickerOf[f] = Ticker
  BY <1>2 DEF Reporting, Seen
<1>4. ASSUME NEW g \in Restating(start, id) PROVE FALSE
  <2>1. g \in Seen(start, AsOf) /\ TickerOf[g] = Ticker /\ <<m, y>> \in DOMAIN Reports[g] /\ Newer(g, f)
    BY <1>1, <1>3, <1>4 DEF Restating, Reporting
  <2>2. g \in versions
    BY <2>1, SeenGrows DEF Reporting
  <2>3. g \in Filings
    BY <2>1 DEF Seen
  <2> QED  BY <1>2, <1>3, <2>1, <2>2, <2>3, NewerOneWay
<1> QED  BY <1>1, <1>3, <1>4 DEF Sound

\* The original of a fact was filed before it.
LEMMA OriginalBefore ==
  ASSUME NEW f, NEW m, NEW y, NEW first \in Originals(held, f, m, y), held \subseteq Filings
  PROVE  first \in Filings \union {NoFiling} /\ (first # NoFiling => FiledOn[first] < FiledOn[f])
  BY DEF Originals, Prior, Reporting

\* The latest fiscal year is a year, or none.
LEMMA LatestYearType ==
  ASSUME NEW S, S \subseteq Filings, NEW t, NEW m, NEW d, NEW y \in LatestYear(S, t, m, d)
  PROVE  y \in Int \union {NoYear}
<1>1. CASE YearsSeen(S, t, m, d) = {}
  BY <1>1 DEF LatestYear
<1>2. CASE YearsSeen(S, t, m, d) # {}
  <2>1. y \in YearsSeen(S, t, m, d)
    BY <1>2 DEF LatestYear
  <2>2. PICK f \in S : \E line \in DOMAIN Reports[f] : y = line[2]
    BY <2>1 DEF YearsSeen
  <2>3. DOMAIN Reports[f] \subseteq Metrics \X Int
    BY <2>2, HistoryAssumption
  <2> QED  BY <2>2, <2>3
<1> QED  BY <1>1, <1>2

-----------------------------------------------------------------------------
(* Evidence                                                                *)

\* A later filing leaves what is sound sound.
LEMMA SoundStays ==
  ASSUME held \subseteq held', UNCHANGED <<start, request>>, NEW id, Sound(id)
  PROVE  Sound(id)'
  BY SeenGrows DEF Sound, Restating, AsOf, Seen

-----------------------------------------------------------------------------
(* The inductive invariant                                                 *)

LEMMA TailType ==
  ASSUME NEW S, NEW s \in Seq(S), s # <<>>
  PROVE  /\ Tail(s) \in Seq(S) /\ Head(s) \in S /\ Len(Tail(s)) = Len(s) - 1
         /\ \A i \in 1..Len(Tail(s)) : i + 1 \in 1..Len(s) /\ Tail(s)[i] = s[i + 1]
  OBVIOUS

\* The companies and the metrics still to do, and those behind the first.
LEMMA RestOfTickers ==
  ASSUME ToolInv, tickers # <<>>
  PROVE  tickers \in Seq(Tickers) /\ Tail(tickers) \in Seq(Tickers) /\ Ticker \in Tickers
<1>1. tickers \in Seq(Tickers)
  BY DEF ToolInv, ToolTypeOK
<1> QED  BY <1>1, TailType DEF Ticker

LEMMA RestOfMetrics ==
  ASSUME ToolInv, metrics # <<>>
  PROVE  /\ metrics \in Seq(Metrics \union DerivedNames)
         /\ Tail(metrics) \in Seq(Metrics \union DerivedNames)
<1>1. metrics \in Seq(Metrics \union DerivedNames)
  BY DEF ToolInv, ToolTypeOK
<1> QED  BY <1>1, TailType

LEMMA RequestParts ==
  ASSUME request \in Requests
  PROVE  /\ request.tickers \in Seq(Tickers)
         /\ request.metrics \in Seq(Metrics \union DerivedNames)
         /\ request.year \in Int \union {NoYear}
         /\ AsOf \in Dates \union {NoDate}
  BY ToolAssumption DEF RequestType, AsOf

\* The tool starts with nothing in its hands.
LEMMA InitToolInv == ToolInit => ToolInv
<1> SUFFICES ASSUME ToolInit PROVE ToolInv
  OBVIOUS
<1> USE DEF ToolInit
<1>1. ToolTypeOK
  BY ToolAssumption DEF ToolTypeOK, Steps
<1>2. StepReady
  BY DEF StepReady
<1>3. HandsSound /\ EvidenceSound
  BY DEF HandsSound, EvidenceSound
<1> QED  BY <1>1, <1>2, <1>3 DEF ToolInv

\* A filing lands: everything sound stays sound.
LEMMA LandInv ==
  ASSUME ToolInv, NEW f \in Filings, Land(f)
  PROVE  ToolInv'
<1> USE DEF Land, toolVars
<1>1. ToolTypeOK'
  BY DEF ToolInv, ToolTypeOK
<1>2. StepReady'
  BY DEF ToolInv, StepReady, IsDerived, Metric
<1>3. \A id : Sound(id) => Sound(id)'
  BY SoundStays
<1>4. HandsSound'
  BY <1>3 DEF ToolInv, HandsSound, FactId, Metric, Sound
<1>5. EvidenceSound'
  BY <1>3 DEF ToolInv, EvidenceSound, Sound
<1> QED  BY <1>1, <1>2, <1>4, <1>5 DEF ToolInv

\* A step of the tool leaves the store alone.
LEMMA SoundKept ==
  ASSUME UNCHANGED <<held, start, request>>
  PROVE  \A id : Sound(id) => Sound(id)'
  BY SoundStays

LEMMA StartInv ==
  ASSUME ToolInv, Start
  PROVE  ToolInv'
<1> USE DEF Start
<1>1. ToolTypeOK'
  BY RequestParts DEF ToolInv, ToolTypeOK, Steps
<1>2. StepReady'
  BY DEF ToolInv, StepReady
<1>3. HandsSound'
  BY DEF ToolInv, StepReady, HandsSound
<1>4. EvidenceSound'
  BY DEF ToolInv, StepReady, EvidenceSound
<1> QED  BY <1>1, <1>2, <1>3, <1>4 DEF ToolInv

\* The steps between queries, and those that find a fiscal year.
LEMMA CompanyInv ==
  ASSUME ToolInv, Company
  PROVE  ToolInv'
<1> USE DEF Company
<1>1. ASSUME NEW y \in LatestYear(held, Ticker, "revenue", AsOf) PROVE y \in Int \union {NoYear}
  BY LatestYearType DEF ToolInv, ToolTypeOK
<1>2. ToolTypeOK'
  BY <1>1, RequestParts DEF ToolInv, ToolTypeOK, Steps, HaveYear
<1>3. StepReady'
  BY <1>1, RequestParts DEF ToolInv, ToolTypeOK, StepReady, HaveYear
<1>4. \A id : Sound(id) => Sound(id)'
  BY SoundKept
<1>5. HandsSound'
  BY <1>4 DEF ToolInv, HandsSound, HaveYear
<1>6. EvidenceSound'
  BY <1>4 DEF ToolInv, EvidenceSound
<1> QED  BY <1>2, <1>3, <1>5, <1>6 DEF ToolInv

LEMMA YearByIncomeInv ==
  ASSUME ToolInv, YearByIncome
  PROVE  ToolInv'
<1> USE DEF YearByIncome
<1>1. ASSUME NEW y \in LatestYear(held, Ticker, "net_income", AsOf) PROVE y \in Int \union {NoYear}
  BY LatestYearType DEF ToolInv, ToolTypeOK
<1>2. tickers # <<>>
  BY DEF ToolInv, StepReady
<1>3. ToolTypeOK'
  <2>1. tickers' \in Seq(Tickers)
    <3>1. tickers' = tickers \/ tickers' = Tail(tickers)
      BY DEF HaveYear, NextCompany
    <3> QED  BY <1>2, <3>1, RestOfTickers
  <2>2. metrics' \in Seq(Metrics \union DerivedNames) /\ year' \in Int \union {NoYear}
    BY <1>1, RequestParts DEF ToolInv, ToolTypeOK, HaveYear
  <2> QED  BY <2>1, <2>2 DEF ToolInv, ToolTypeOK, Steps, HaveYear, NextCompany
<1>4. StepReady'
  BY <1>1, <1>2, RequestParts DEF ToolInv, ToolTypeOK, StepReady, HaveYear, NextCompany
<1>5. \A id : Sound(id) => Sound(id)'
  BY SoundKept
<1>6. HandsSound'
  BY <1>5 DEF ToolInv, HandsSound, HaveYear, NextCompany
<1>7. EvidenceSound'
  BY <1>5 DEF ToolInv, EvidenceSound
<1> QED  BY <1>3, <1>4, <1>6, <1>7 DEF ToolInv

LEMMA CompanyDoneInv ==
  ASSUME ToolInv, CompanyDone \/ Return
  PROVE  ToolInv'
<1> USE DEF CompanyDone, Return, NextCompany
<1>1. ToolTypeOK'
  <2>1. tickers' \in Seq(Tickers)
    <3>1. CASE CompanyDone
      <4>1. tickers \in Seq(Tickers) /\ tickers # <<>> /\ tickers' = Tail(tickers)
        BY <3>1 DEF ToolInv, ToolTypeOK, StepReady
      <4> QED  BY <4>1, TailType
    <3>2. CASE Return
      BY <3>2 DEF ToolInv, ToolTypeOK
    <3> QED  BY <3>1, <3>2
  <2> QED  BY <2>1 DEF ToolInv, ToolTypeOK, Steps
<1>2. StepReady'
  BY DEF ToolInv, StepReady
<1>3. \A id : Sound(id) => Sound(id)'
  BY SoundKept
<1>4. HandsSound'
  BY <1>3 DEF ToolInv, HandsSound
<1>5. EvidenceSound'
  BY <1>3 DEF ToolInv, EvidenceSound
<1> QED  BY <1>1, <1>2, <1>4, <1>5 DEF ToolInv

\* A reported metric is found, or left as a gap.
LEMMA ReadFactInv ==
  ASSUME ToolInv, ReadFact
  PROVE  ToolInv'
<1>1. PICK f \in Found(Metric, year) :
        IF f = NoFiling
        THEN NextMetric /\ Missing /\ UNCHANGED citing
        ELSE citing' = FactId(Metric, year, f) /\ step' = "versions" /\ UNCHANGED <<metrics, gaps>>
  BY DEF ReadFact
<1>2. /\ step = "metric" /\ metrics # <<>> /\ Metric \in Metrics /\ year \in Int /\ tickers # <<>>
      /\ UNCHANGED <<held, request, tickers, year, got, inputs, facts, derived, quoted, start>>
  BY DEF ReadFact, ToolInv, StepReady
<1>3. f # NoFiling => FactId(Metric, year, f) \in FactIds /\ Sound(FactId(Metric, year, f))
  BY <1>2, FoundSound DEF ToolInv, ToolTypeOK, FactId, FactIds
<1>4. ToolTypeOK'
  <2>1. metrics' \in Seq(Metrics \union DerivedNames)
    <3>1. metrics' = metrics \/ metrics' = Tail(metrics)
      BY <1>1 DEF NextMetric
    <3> QED  BY <1>2, <3>1, RestOfMetrics
  <2>2. citing' \in FactIds \union {NoFact} /\ step' \in Steps
    BY <1>1, <1>3 DEF ToolInv, ToolTypeOK, Steps, NextMetric
  <2> QED  BY <1>2, <2>1, <2>2 DEF ToolInv, ToolTypeOK
<1>5. StepReady'
  BY <1>1, <1>2, <1>3 DEF ToolInv, StepReady, NextMetric
<1>6. \A id : Sound(id) => Sound(id)'
  BY <1>2, SoundKept
<1>7. HandsSound'
  BY <1>1, <1>2, <1>3, <1>6 DEF ToolInv, HandsSound, NextMetric
<1>8. EvidenceSound'
  BY <1>2, <1>6 DEF ToolInv, EvidenceSound
<1> QED  BY <1>4, <1>5, <1>7, <1>8 DEF ToolInv

\* The versions of a fact are read, and it becomes evidence.
LEMMA VersionsInv ==
  ASSUME ToolInv, Versions
  PROVE  ToolInv'
<1>1. PICK first \in FirstReported(citing) :
        /\ facts' = Put(facts, citing, first)
        /\ IF IsDerived
           THEN step' = "input" /\ UNCHANGED <<metrics, quoted>>
           ELSE NextMetric /\ quoted' = quoted \union FactFigures(citing, first)
  BY DEF Versions
<1>2. /\ step = "versions" /\ metrics # <<>> /\ citing \in FactIds /\ year \in Int /\ tickers # <<>>
      /\ citing' = NoFact
      /\ UNCHANGED <<held, request, tickers, year, got, inputs, derived, gaps, start>>
  BY DEF Versions, ToolInv, StepReady
<1>3. /\ first \in Filings \union {NoFiling}
      /\ first # NoFiling => FiledOn[first] < FiledOn[citing.filing]
  BY <1>1, OriginalBefore DEF FirstReported, ToolInv, ToolTypeOK
<1>4. /\ DOMAIN facts' = DOMAIN facts \union {citing}
      /\ facts'[citing] = first
      /\ \A id \in DOMAIN facts : id # citing => facts'[id] = facts[id]
  BY <1>1 DEF Put
<1>5. ToolTypeOK'
  <2>1. metrics' \in Seq(Metrics \union DerivedNames) /\ step' \in Steps
    <3>1. metrics \in Seq(Metrics \union DerivedNames) /\ Tail(metrics) \in Seq(Metrics \union DerivedNames)
      BY <1>2, RestOfMetrics
    <3> QED  BY <1>1, <3>1 DEF NextMetric, Steps
  <2>2. /\ DOMAIN facts' \subseteq FactIds
        /\ \A id \in DOMAIN facts' : facts'[id] \in Filings \union {NoFiling}
    BY <1>2, <1>3, <1>4 DEF ToolInv, ToolTypeOK
  <2> QED  BY <1>2, <2>1, <2>2 DEF ToolInv, ToolTypeOK
<1>6. StepReady'
  BY <1>1, <1>2 DEF ToolInv, StepReady, NextMetric, IsDerived, Metric
<1>7. \A id : Sound(id) => Sound(id)'
  BY <1>2, SoundKept
<1>8. HandsSound'
  BY <1>1, <1>2, <1>7 DEF ToolInv, HandsSound, NextMetric
<1>9. EvidenceSound'
  <2>1. Sound(citing)
    BY <1>2 DEF ToolInv, HandsSound
  <2>2. ASSUME NEW id \in DOMAIN facts'
        PROVE  (Sound(id) /\ (facts[id] # NoFiling => FiledOn[facts[id]] < FiledOn[id.filing]))'
    BY <1>3, <1>4, <1>7, <2>1 DEF ToolInv, EvidenceSound
  <2>3. ASSUME NEW d \in DOMAIN derived PROVE Sound(derived[d][1])' /\ Sound(derived[d][2])'
    BY <1>2, <1>7 DEF ToolInv, EvidenceSound
  <2> QED  BY <1>2, <2>2, <2>3 DEF EvidenceSound
<1> QED  BY <1>5, <1>6, <1>8, <1>9 DEF ToolInv

\* The first input of a derived metric is found, or is not there.
LEMMA ReadFirstInv ==
  ASSUME ToolInv, ReadFirst
  PROVE  ToolInv'
<1>1. PICK f \in Found(Formula[Metric].num, year) : got' = f
  BY DEF ReadFirst
<1>2. /\ step = "metric" /\ step' = "second" /\ IsDerived /\ year \in Int /\ tickers # <<>>
      /\ UNCHANGED <<held, request, tickers, metrics, year, inputs, citing, facts, derived, quoted, gaps, start>>
  BY DEF ReadFirst, ToolInv, StepReady
<1>3. f # NoFiling => f \in Filings /\ Sound(FactId(Formula[Metric].num, year, f))
  BY FoundSound DEF ToolInv, ToolTypeOK
<1>4. ToolTypeOK'
  BY <1>1, <1>2, <1>3 DEF ToolInv, ToolTypeOK, Steps
<1>5. StepReady'
  BY <1>2 DEF ToolInv, StepReady, IsDerived, Metric
<1>6. \A id : Sound(id) => Sound(id)'
  BY <1>2, SoundKept
<1>7. HandsSound'
  BY <1>1, <1>2, <1>3, <1>6 DEF ToolInv, HandsSound, Metric, FactId
<1>8. EvidenceSound'
  BY <1>2, <1>6 DEF ToolInv, EvidenceSound
<1> QED  BY <1>4, <1>5, <1>7, <1>8 DEF ToolInv

\* The second input is found, and the derived metric becomes evidence with
\* both, or is left as a gap.
LEMMA ReadSecondInv ==
  ASSUME ToolInv, ReadSecond
  PROVE  ToolInv'
<1> DEFINE last == year - Formula[Metric].lag
<1>1. PICK g \in Found(Formula[Metric].den, last) :
        IF Computable(got, g)
        THEN /\ derived' = Put(derived, [ticker |-> Ticker, name |-> Metric, year |-> year], Lineage(got, g))
             /\ inputs' = Lineage(got, g)
             /\ step' = "input"
             /\ UNCHANGED <<metrics, gaps>>
        ELSE NextMetric /\ Missing /\ UNCHANGED <<inputs, derived>>
  BY DEF ReadSecond
<1>2. /\ step = "second" /\ IsDerived /\ year \in Int /\ tickers # <<>> /\ got' = NoFiling
      /\ UNCHANGED <<held, request, tickers, year, citing, facts, quoted, start>>
  BY DEF ReadSecond, ToolInv, StepReady
<1>3. Metric \in DerivedNames /\ metrics # <<>>
  BY <1>2 DEF IsDerived
<1>4. /\ Formula[Metric].num \in Metrics /\ Formula[Metric].den \in Metrics
      /\ Formula[Metric].lag \in {0, 1} /\ last \in Int
  BY <1>2, <1>3, FormulaType
<1> DEFINE num == FactId(Formula[Metric].num, year, got)
           den == FactId(Formula[Metric].den, last, g)
           key == [ticker |-> Ticker, name |-> Metric, year |-> year]
<1>5. Computable(got, g) => /\ num \in FactIds /\ den \in FactIds
                            /\ Sound(num) /\ Sound(den)
                            /\ Lineage(got, g) = <<num, den>>
  <2> SUFFICES ASSUME Computable(got, g)
               PROVE  num \in FactIds /\ den \in FactIds /\ Sound(num) /\ Sound(den)
                      /\ Lineage(got, g) = <<num, den>>
    OBVIOUS
  <2>1. got # NoFiling /\ g # NoFiling
    BY DEF Computable
  <2>2. g \in Filings /\ Sound(den)
    BY <2>1, FoundSound DEF ToolInv, ToolTypeOK
  <2>3. got \in Filings /\ Sound(num)
    BY <1>2, <2>1 DEF ToolInv, ToolTypeOK, HandsSound
  <2>4. num \in FactIds /\ den \in FactIds
    BY <1>2, <1>4, <2>2, <2>3 DEF FactId, FactIds
  <2> QED  BY <2>2, <2>3, <2>4 DEF Lineage
<1>6. key \in DerivedIds
  <2>1. Ticker \in Tickers
    BY <1>2, RestOfTickers
  <2> QED  BY <1>2, <1>3, <2>1 DEF DerivedIds
<1>7. metrics \in Seq(Metrics \union DerivedNames) /\ Tail(metrics) \in Seq(Metrics \union DerivedNames)
  BY <1>3, RestOfMetrics
<1>8. \A id : Sound(id) => Sound(id)'
  BY <1>2, SoundKept
<1>9. CASE Computable(got, g)
  <2>1. /\ derived' = Put(derived, key, <<num, den>>) /\ inputs' = <<num, den>> /\ step' = "input"
        /\ UNCHANGED metrics
    BY <1>1, <1>5, <1>9
  <2>2. /\ DOMAIN derived' = DOMAIN derived \union {key}
        /\ derived'[key] = <<num, den>>
        /\ \A d \in DOMAIN derived : d # key => derived'[d] = derived[d]
    BY <2>1 DEF Put
  <2>3. ToolTypeOK'
    <3>1. inputs' \in Seq(FactIds)
      BY <1>5, <1>9, <2>1
    <3>2. <<num, den>> \in FactIds \X FactIds
      BY <1>5, <1>9
    <3>3. /\ DOMAIN derived' \subseteq DerivedIds
          /\ \A d \in DOMAIN derived' : derived'[d] \in FactIds \X FactIds
      BY <1>6, <2>2, <3>2 DEF ToolInv, ToolTypeOK
    <3> QED  BY <1>2, <2>1, <3>1, <3>3 DEF ToolInv, ToolTypeOK, Steps
  <2>4. StepReady'
    BY <1>2, <2>1 DEF ToolInv, StepReady, IsDerived, Metric
  <2>5. HandsSound'
    BY <1>5, <1>8, <1>9, <2>1 DEF HandsSound
  <2>6. EvidenceSound'
    <3>1. ASSUME NEW d \in DOMAIN derived' PROVE (Sound(derived[d][1]) /\ Sound(derived[d][2]))'
      <4>1. CASE d = key
        BY <1>5, <1>8, <1>9, <2>2, <4>1
      <4>2. CASE d # key
        BY <1>8, <2>2, <4>2 DEF ToolInv, EvidenceSound
      <4> QED  BY <4>1, <4>2
    <3>2. ASSUME NEW id \in DOMAIN facts'
          PROVE  (Sound(id) /\ (facts[id] # NoFiling => FiledOn[facts[id]] < FiledOn[id.filing]))'
      BY <1>2, <1>8 DEF ToolInv, EvidenceSound
    <3> QED  BY <3>1, <3>2 DEF EvidenceSound
  <2> QED  BY <2>3, <2>4, <2>5, <2>6 DEF ToolInv
<1>10. CASE ~Computable(got, g)
  <2>1. metrics' = Tail(metrics) /\ step' = "metric" /\ UNCHANGED <<inputs, derived>>
    BY <1>1, <1>10 DEF NextMetric
  <2>2. ToolTypeOK'
    BY <1>2, <1>7, <2>1 DEF ToolInv, ToolTypeOK, Steps
  <2>3. StepReady'
    BY <1>2, <2>1 DEF ToolInv, StepReady
  <2>4. HandsSound'
    BY <1>8, <2>1 DEF ToolInv, HandsSound
  <2>5. EvidenceSound'
    BY <1>2, <1>8, <2>1 DEF ToolInv, EvidenceSound
  <2> QED  BY <2>2, <2>3, <2>4, <2>5 DEF ToolInv
<1> QED  BY <1>9, <1>10

\* An input is read again by its id.
LEMMA ReadInputInv ==
  ASSUME ToolInv, ReadInput
  PROVE  ToolInv'
<1>1. /\ step = "input" /\ inputs # <<>> /\ inputs' = Tail(inputs)
      /\ (step' = "versions" /\ citing' = Head(inputs)) \/ UNCHANGED <<citing, step>>
      /\ UNCHANGED <<held, request, tickers, metrics, year, got, facts, derived, quoted, gaps, start>>
  BY DEF ReadInput, NextInputs
<1>2. inputs \in Seq(FactIds) /\ Head(inputs) \in FactIds /\ Head(inputs) = inputs[1] /\ 1 \in 1..Len(inputs)
  BY <1>1 DEF ToolInv, ToolTypeOK
<1>3. /\ Tail(inputs) \in Seq(FactIds)
      /\ \A i \in 1..Len(Tail(inputs)) : i + 1 \in 1..Len(inputs) /\ Tail(inputs)[i] = inputs[i + 1]
  BY <1>1, <1>2, TailType
<1>4. ToolTypeOK'
  BY <1>1, <1>2, <1>3 DEF ToolInv, ToolTypeOK, Steps
<1>5. StepReady'
  BY <1>1, <1>2 DEF ToolInv, StepReady, IsDerived, Metric
<1>6. \A id : Sound(id) => Sound(id)'
  BY <1>1, SoundKept
<1>7. HandsSound'
  BY <1>1, <1>2, <1>3, <1>6 DEF ToolInv, HandsSound
<1>8. EvidenceSound'
  BY <1>1, <1>6 DEF ToolInv, EvidenceSound
<1> QED  BY <1>4, <1>5, <1>7, <1>8 DEF ToolInv

LEMMA StateDerivedInv ==
  ASSUME ToolInv, StateDerived
  PROVE  ToolInv'
<1>1. /\ step = "input" /\ metrics' = Tail(metrics) /\ step' = "metric"
      /\ UNCHANGED <<held, request, tickers, year, got, inputs, citing, facts, derived, gaps, start>>
  BY DEF StateDerived, NextMetric
<1>2. metrics \in Seq(Metrics \union DerivedNames) /\ metrics # <<>>
  BY <1>1 DEF ToolInv, ToolTypeOK, StepReady, IsDerived
<1>3. ToolTypeOK'
  BY <1>1, <1>2, RestOfMetrics DEF ToolInv, ToolTypeOK, Steps
<1>4. StepReady'
  BY <1>1 DEF ToolInv, StepReady
<1>5. \A id : Sound(id) => Sound(id)'
  BY <1>1, SoundKept
<1>6. HandsSound'
  BY <1>1, <1>5 DEF ToolInv, HandsSound
<1>7. EvidenceSound'
  BY <1>1, <1>5 DEF ToolInv, EvidenceSound
<1> QED  BY <1>3, <1>4, <1>6, <1>7 DEF ToolInv

-----------------------------------------------------------------------------
(* Theorems                                                                *)

LEMMA StepToolInv == ToolInv /\ [ToolNext]_<<held, toolVars>> => ToolInv'
<1> SUFFICES ASSUME ToolInv, [ToolNext]_<<held, toolVars>> PROVE ToolInv'
  OBVIOUS
<1>1. CASE Start                      BY <1>1, StartInv
<1>2. CASE Company                    BY <1>2, CompanyInv
<1>3. CASE YearByIncome               BY <1>3, YearByIncomeInv
<1>4. CASE CompanyDone \/ Return      BY <1>4, CompanyDoneInv
<1>5. CASE ReadFact                   BY <1>5, ReadFactInv
<1>6. CASE Versions                   BY <1>6, VersionsInv
<1>7. CASE ReadFirst                  BY <1>7, ReadFirstInv
<1>8. CASE ReadSecond                 BY <1>8, ReadSecondInv
<1>9. CASE ReadInput                  BY <1>9, ReadInputInv
<1>10. CASE StateDerived              BY <1>10, StateDerivedInv
<1>11. CASE \E f \in Filings : Land(f) BY <1>11, LandInv
<1>12. CASE UNCHANGED <<held, toolVars>>
  <2> USE <1>12 DEF toolVars
  <2>1. ToolTypeOK'
    BY DEF ToolInv, ToolTypeOK
  <2>2. StepReady'
    BY DEF ToolInv, StepReady, IsDerived, Metric
  <2>3. \A id : Sound(id) => Sound(id)'
    BY SoundKept
  <2>4. HandsSound'
    BY <2>3 DEF ToolInv, HandsSound, Metric
  <2>5. EvidenceSound'
    BY <2>3 DEF ToolInv, EvidenceSound
  <2> QED  BY <2>1, <2>2, <2>4, <2>5 DEF ToolInv
<1> QED
  BY <1>1, <1>2, <1>3, <1>4, <1>5, <1>6, <1>7, <1>8, <1>9, <1>10, <1>11, <1>12 DEF ToolNext, ToolStep

\* The inductive invariant holds throughout run_fundamentals.
THEOREM ToolInvariant == ToolSpec => []ToolInv
  BY InitToolInv, StepToolInv, PTL DEF ToolSpec

\* What the tool cites was filed by the date asked for.
LEMMA SoundInTime == ToolInv => NoLookAhead
<1> SUFFICES ASSUME ToolInv, AsOf # NoDate PROVE NoLookAhead
  BY DEF NoLookAhead
<1>1. AsOf \in Int
  BY RequestParts, ToolAssumption DEF ToolInv, ToolTypeOK
<1>2. ASSUME NEW id \in Cited PROVE FiledOn[id.filing] <= AsOf
  BY <1>2 DEF Cited, ToolInv, EvidenceSound, Sound, Seen
<1>3. ASSUME NEW id \in DOMAIN facts, facts[id] # NoFiling PROVE FiledOn[facts[id]] <= AsOf
  <2>1. FiledOn[facts[id]] < FiledOn[id.filing] /\ FiledOn[id.filing] <= AsOf
    BY <1>2, <1>3 DEF Cited, ToolInv, EvidenceSound
  <2>2. facts[id] \in Filings /\ id.filing \in Filings
    BY <1>3 DEF ToolInv, ToolTypeOK, FactIds
  <2> QED  BY <1>1, <2>1, <2>2, HistoryAssumption
<1> QED  BY <1>2, <1>3 DEF NoLookAhead

\* No fact the tool cites had been restated when it started.
LEMMA SoundCurrent == ToolInv => CitesNothingStale
  BY DEF ToolInv, EvidenceSound, Sound, CitesNothingStale, Cited

\* A filing of a later date changes neither a fact nor the latest year.
LEMMA LandingKeepsAnswers ==
  ASSUME NEW f \in Filings, NEW d \in Dates, FiledOn[f] > d, NEW S, NEW t, NEW m
  PROVE  /\ LatestYear(S \union {f}, t, m, d) = LatestYear(S, t, m, d)
         /\ \A y : Get(S \union {f}, t, m, y, d) = Get(S, t, m, y, d)
<1>1. Seen(S \union {f}, d) = Seen(S, d)
  BY LaterUnseen
<1>2. \A y : Get(S \union {f}, t, m, y, d) = Get(S, t, m, y, d)
  BY <1>1 DEF Get
<1>3. ASSUME NEW y PROVE y \in YearsSeen(S \union {f}, t, m, d) <=> y \in YearsSeen(S, t, m, d)
  <2>1. ASSUME y \in YearsSeen(S \union {f}, t, m, d) PROVE y \in YearsSeen(S, t, m, d)
    <3>1. Reporting(Seen(S, d), t, m, y) # {}
      BY <1>1, <2>1 DEF YearsSeen
    <3>2. PICK g \in S : <<m, y>> \in DOMAIN Reports[g]
      BY <3>1 DEF Reporting, Seen
    <3>3. y \in {line[2] : line \in DOMAIN Reports[g]}
      BY <3>2
    <3> QED  BY <3>1, <3>2, <3>3 DEF YearsSeen
  <2>2. ASSUME y \in YearsSeen(S, t, m, d) PROVE y \in YearsSeen(S \union {f}, t, m, d)
    BY <1>1, <2>2 DEF YearsSeen
  <2> QED  BY <2>1, <2>2
<1>4. YearsSeen(S \union {f}, t, m, d) = YearsSeen(S, t, m, d)
  BY <1>3 DEF YearsSeen
<1> QED  BY <1>2, <1>4 DEF LatestYear

LEMMA StepKeepsAnswers ==
  ASSUME [ToolNext]_<<held, toolVars>>,
         NEW f \in held' \ held, NEW d \in Dates, FiledOn[f] > d,
         NEW t \in Tickers, NEW m \in Metrics
  PROVE  /\ LatestYear(held', t, m, d) = LatestYear(held, t, m, d)
         /\ \A y \in YearsSeen(held', t, m, NoDate) : Get(held', t, m, y, d) = Get(held, t, m, y, d)
<1>1. ~UNCHANGED held
  OBVIOUS
<1>2. PICK g \in Filings : Land(g)
  BY <1>1 DEF ToolNext, ToolStep, Start, Company, YearByIncome, CompanyDone, ReadFact, Versions,
              ReadFirst, ReadSecond, ReadInput, StateDerived, Return
<1>3. held' = held \union {f} /\ f \in Filings
  BY <1>2 DEF Land
<1> QED  BY <1>3, LandingKeepsAnswers

-----------------------------------------------------------------------------
(* Gaps                                                                    *)

\* What is missing from the store is missing from what it held before.
LEMMA NothingBefore ==
  ASSUME NEW S, NEW T, S \subseteq T, T \subseteq Filings, NEW t, NEW m, NEW y, NEW d,
         NoFiling \in Get(T, t, m, y, d)
  PROVE  Get(S, t, m, y, d) = {NoFiling}
<1>1. Reporting(Seen(T, d), t, m, y) = {}
  BY HistoryAssumption DEF Get, Reporting, Seen
<1>2. Reporting(Seen(S, d), t, m, y) = {}
  BY <1>1, SeenGrows DEF Reporting
<1> QED  BY <1>2 DEF Get

LEMMA NoYearBefore ==
  ASSUME NEW S, NEW T, S \subseteq T, T \subseteq Filings, NEW t, NEW m, NEW d,
         NoYear \in LatestYear(T, t, m, d)
  PROVE  LatestYear(S, t, m, d) = {NoYear}
<1>1. YearsSeen(T, t, m, d) = {}
  <2>1. ASSUME NEW y \in YearsSeen(T, t, m, d) PROVE y # NoYear
    <3>1. PICK f \in T : \E line \in DOMAIN Reports[f] : y = line[2]
      BY <2>1 DEF YearsSeen
    <3>2. DOMAIN Reports[f] \subseteq Metrics \X Int
      BY <3>1, HistoryAssumption
    <3> QED  BY <3>1, <3>2, ToolAssumption
  <2> QED  BY <2>1 DEF LatestYear
<1>2. ASSUME NEW y \in YearsSeen(S, t, m, d) PROVE FALSE
  <2>1. y \in YearsSeen(T, t, m, d)
    BY <1>2, SeenGrows DEF YearsSeen, Reporting
  <2> QED  BY <1>1, <2>1
<1> QED  BY <1>2 DEF LatestYear

\* No derived metric has the name of a reported one.
LEMMA NamesDiffer ==
  ASSUME NEW n \in DerivedNames
  PROVE  n \notin Metrics
<1>1. n \in {"net_margin", "operating_margin", "gross_margin", "debt_to_equity",
             "revenue_growth_yoy", "net_income_growth_yoy", "free_cash_flow"}
  BY DEF DerivedNames, Formula
<1> QED  BY <1>1 DEF Metrics

\* The tool reports a gap, or is about to, only of what was not reported when
\* it started.
GapsInHand ==
  /\ step = "idle" => gaps = {}
  /\ step = "year" => LatestYear(start, Ticker, "revenue", AsOf) = {NoYear}
  /\ step = "second" /\ got = NoFiling => Unreported(start, Ticker, Formula[Metric].num, year)

GapInv == GapsInHand /\ GapsAreReal

\* A gap stays real whatever lands.
LEMMA GapStays ==
  ASSUME held \subseteq held', UNCHANGED <<start, request>>, NEW gap, GapIsReal(gap)
  PROVE  GapIsReal(gap)'
<1>1. \A t, m, y : Unreported(start, t, m, y)' <=> Unreported(start, t, m, y)
  BY DEF Unreported, AsOf
<1>2. \A t, m, y : ZeroVersion(t, m, y) => ZeroVersion(t, m, y)'
  BY SeenGrows DEF ZeroVersion, Reporting, AsOf
<1> QED  BY <1>1, <1>2 DEF GapIsReal, AsOf

LEMMA GapStep == ToolInv /\ GapInv /\ [ToolNext]_<<held, toolVars>> => GapInv'
<1> SUFFICES ASSUME ToolInv, GapInv, [ToolNext]_<<held, toolVars>> PROVE GapInv'
  OBVIOUS
<1>0. held \subseteq Filings /\ start \subseteq held
  BY DEF ToolInv, ToolTypeOK
<1>1. CASE Start
  BY <1>1 DEF Start, GapInv, GapsInHand, GapsAreReal
<1>2. ASSUME UNCHANGED <<start, request, gaps>>, held \subseteq held', GapsInHand' PROVE GapInv'
  BY <1>2, GapStays DEF GapInv, GapsAreReal
<1>3. CASE Company
  <2>1. step' = "metric" \/ (step' = "year" /\ NoYear \in LatestYear(held, Ticker, "revenue", AsOf))
    BY <1>3 DEF Company, HaveYear
  <2>2. UNCHANGED <<held, start, request, gaps, tickers>>
    BY <1>3 DEF Company
  <2>3. step' = "year" => LatestYear(start, Ticker, "revenue", AsOf) = {NoYear}
    BY <1>0, <2>1, NoYearBefore
  <2>4. GapsInHand'
    BY <2>1, <2>2, <2>3 DEF GapsInHand, Ticker, AsOf
  <2> QED  BY <1>2, <2>2, <2>4
<1>4. CASE YearByIncome
  <2>1. PICK y \in LatestYear(held, Ticker, "net_income", AsOf) :
          \/ step' = "metric" /\ UNCHANGED gaps
          \/ step' = "company" /\ y = NoYear /\ gaps' = gaps \union {[ticker |-> Ticker]}
    BY <1>4 DEF YearByIncome, HaveYear, NextCompany
  <2>2. UNCHANGED <<held, start, request>> /\ step = "year"
    BY <1>4 DEF YearByIncome
  <2>3. GapsInHand'
    BY <2>1 DEF GapsInHand
  <2>4. CASE UNCHANGED gaps
    BY <1>2, <2>2, <2>3, <2>4
  <2>5. CASE y = NoYear /\ gaps' = gaps \union {[ticker |-> Ticker]}
    <3> DEFINE gap == [ticker |-> Ticker]
    <3>1. LatestYear(start, Ticker, "net_income", AsOf) = {NoYear}
      BY <1>0, <2>5, NoYearBefore
    <3>2. LatestYear(start, Ticker, "revenue", AsOf) = {NoYear}
      BY <2>2 DEF GapInv, GapsInHand
    <3>3. GapIsReal(gap)
      BY <3>1, <3>2 DEF GapIsReal
    <3>4. \A x \in gaps \union {gap} : GapIsReal(x)
      BY <3>3 DEF GapInv, GapsAreReal
    <3> QED  BY <2>2, <2>3, <2>5, <3>4, GapStays DEF GapInv, GapsAreReal
  <2> QED  BY <2>1, <2>4, <2>5
<1>5. CASE ReadFact
  <2>1. PICK f \in Found(Metric, year) :
          \/ step' = "metric" /\ f = NoFiling /\ Missing
          \/ step' = "versions" /\ UNCHANGED gaps
    BY <1>5 DEF ReadFact, NextMetric
  <2>2. UNCHANGED <<held, start, request>> /\ Metric \in Metrics
    BY <1>5 DEF ReadFact
  <2>3. GapsInHand'
    BY <2>1 DEF GapsInHand
  <2>4. CASE UNCHANGED gaps
    BY <1>2, <2>2, <2>3, <2>4
  <2>5. CASE f = NoFiling /\ Missing
    <3> DEFINE gap == [ticker |-> Ticker, metric |-> Metric, year |-> year]
    <3>1. Unreported(start, Ticker, Metric, year)
      BY <1>0, <2>1, <2>5, NothingBefore DEF Found, Unreported
    <3>2. "metric" \in DOMAIN gap /\ gap.metric = Metric /\ gap.ticker = Ticker /\ gap.year = year
      OBVIOUS
    <3>3. gaps' = gaps \union {gap}
      BY <2>5 DEF Missing
    <3> HIDE DEF gap
    <3>4. GapIsReal(gap)
      BY <2>2, <3>1, <3>2 DEF GapIsReal
    <3>5. \A x \in gaps \union {gap} : GapIsReal(x)
      BY <3>4 DEF GapInv, GapsAreReal
    <3> QED  BY <2>2, <2>3, <3>3, <3>5, GapStays DEF GapInv, GapsAreReal
  <2> QED  BY <2>1, <2>4, <2>5
<1>6. CASE ReadFirst
  <2>1. PICK f \in Found(Formula[Metric].num, year) : got' = f
    BY <1>6 DEF ReadFirst
  <2>2. step' = "second" /\ UNCHANGED <<held, start, request, gaps, tickers, metrics, year>>
    BY <1>6 DEF ReadFirst
  <2>3. f = NoFiling => Unreported(start, Ticker, Formula[Metric].num, year)
    BY <1>0, <2>1, NothingBefore DEF Found, Unreported
  <2>4. GapsInHand'
    BY <2>1, <2>2, <2>3 DEF GapsInHand, Unreported, Ticker, Metric, AsOf
  <2> QED  BY <1>2, <2>2, <2>4
<1>7. CASE ReadSecond
  <2> DEFINE last == year - Formula[Metric].lag
             gap == [ticker |-> Ticker, metric |-> Metric, year |-> year]
  <2>1. PICK g \in Found(Formula[Metric].den, last) :
          \/ step' = "input" /\ UNCHANGED gaps
          \/ step' = "metric" /\ ~Computable(got, g) /\ gaps' = gaps \union {gap}
    BY <1>7 DEF ReadSecond, NextMetric, Missing
  <2>2. UNCHANGED <<held, start, request>> /\ step = "second" /\ Metric \in DerivedNames
    BY <1>7 DEF ReadSecond, ToolInv, StepReady, IsDerived
  <2>3. GapsInHand'
    BY <2>1 DEF GapsInHand
  <2>4. CASE UNCHANGED gaps
    BY <1>2, <2>2, <2>3, <2>4
  <2>5. CASE ~Computable(got, g) /\ gaps' = gaps \union {gap}
    <3>1. \/ Unreported(start, Ticker, Formula[Metric].num, year)
          \/ Unreported(start, Ticker, Formula[Metric].den, last)
          \/ Formula[Metric].divides /\ ZeroVersion(Ticker, Formula[Metric].den, last)
      <4>1. CASE got = NoFiling
        BY <2>2, <4>1 DEF GapInv, GapsInHand
      <4>2. CASE g = NoFiling
        BY <1>0, <2>1, <4>2, NothingBefore DEF Found, Unreported
      <4>3. CASE g # NoFiling /\ got # NoFiling
        <5>1. Formula[Metric].divides /\ Value(g, Formula[Metric].den, last) = 0
          BY <2>5, <4>3 DEF Computable
        <5>2. g \in Reporting(Seen(held, AsOf), Ticker, Formula[Metric].den, last)
          BY <4>3 DEF Found, Get
        <5> QED  BY <5>1, <5>2 DEF ZeroVersion
      <4> QED  BY <4>1, <4>2, <4>3
    <3>2. "metric" \in DOMAIN gap /\ gap.metric = Metric /\ gap.ticker = Ticker /\ gap.year = year
      OBVIOUS
    <3>3. gap.metric \notin Metrics
      BY <2>2, NamesDiffer
    <3> HIDE DEF gap
    <3>4. GapIsReal(gap)
      BY <3>1, <3>2, <3>3 DEF GapIsReal
    <3>5. \A x \in gaps \union {gap} : GapIsReal(x)
      BY <3>4 DEF GapInv, GapsAreReal
    <3> QED  BY <2>2, <2>3, <2>5, <3>5, GapStays DEF GapInv, GapsAreReal
  <2> QED  BY <2>1, <2>4, <2>5
<1>8. CASE CompanyDone \/ Versions \/ ReadInput \/ StateDerived \/ Return
  <2>1. UNCHANGED <<held, start, request, gaps>>
    BY <1>8 DEF CompanyDone, Versions, ReadInput, StateDerived, Return
  <2>2. GapsInHand'
    BY <1>8 DEF CompanyDone, Versions, ReadInput, StateDerived, Return, NextCompany, NextMetric, GapsInHand
  <2> QED  BY <1>2, <2>1, <2>2
<1>9. CASE (\E f \in Filings : Land(f)) \/ UNCHANGED <<held, toolVars>>
  <2>1. held \subseteq held' /\ UNCHANGED toolVars
    BY <1>9 DEF Land
  <2>2. GapsInHand'
    BY <2>1 DEF toolVars, GapInv, GapsInHand, Unreported, Ticker, Metric, AsOf
  <2> QED  BY <1>2, <2>1, <2>2 DEF toolVars
<1> QED  BY <1>1, <1>3, <1>4, <1>5, <1>6, <1>7, <1>8, <1>9 DEF ToolNext, ToolStep

\* What the tool says is not reported was not, when it started, whatever
\* lands while it reads.
THEOREM NoFalseGap == ToolSpec => []GapsAreReal
<1>1. ToolInit => GapInv
  BY DEF ToolInit, GapInv, GapsInHand, GapsAreReal
<1>2. GapInv => GapsAreReal
  BY DEF GapInv
<1> QED  BY <1>1, <1>2, GapStep, ToolInvariant, PTL DEF ToolSpec

-----------------------------------------------------------------------------
(* Inputs                                                                  *)

\* A fact of the current company that its filing reports.
Reported(id) == TickerOf[id.filing] = Ticker /\ <<id.metric, id.year>> \in DOMAIN Reports[id.filing]

\* The inputs in hand are reported facts, and are there only until the derived
\* metric is stated.
InputsInHand ==
  /\ step = "second" /\ got # NoFiling => Reported(FactId(Formula[Metric].num, year, got))
  /\ \A i \in 1..Len(inputs) : Reported(inputs[i])
  /\ inputs # <<>> => step \in {"input", "versions"} /\ IsDerived

\* Where an input of a derived metric is: in evidence, restated, or on its way.
Traced(id) ==
  \/ id \in DOMAIN facts
  \/ Restating(held \ start, id) # {}
  \/ \E i \in 1..Len(inputs) : inputs[i] = id
  \/ step = "versions" /\ citing = id

InputInv == InputsInHand /\ \A d \in DOMAIN derived : Traced(derived[d][1]) /\ Traced(derived[d][2])

\* What a query found is reported.
LEMMA FoundReported ==
  ASSUME NEW m, NEW y, NEW f \in Found(m, y), f # NoFiling
  PROVE  Reported(FactId(m, y, f))
<1>1. f \in Reporting(Seen(held, AsOf), Ticker, m, y)
  BY DEF Found, Get
<1> QED  BY <1>1 DEF Reporting, Reported, FactId

\* An input that is no longer answered has been restated since the start.
LEMMA NotCitedRestated ==
  ASSUME ToolInv, NEW id \in FactIds, Sound(id), Reported(id), StillCited(id) = {}
  PROVE  Restating(held \ start, id) # {}
<1> DEFINE versions == Reporting(Seen(held, AsOf), Ticker, id.metric, id.year)
<1>0. held \subseteq Filings
  BY DEF ToolInv, ToolTypeOK
<1>1. id.filing \in versions
  BY DEF Sound, Reported, Reporting
<1>2. id.filing \notin Get(held, Ticker, id.metric, id.year, AsOf)
  BY DEF StillCited, RecheckYear, Found
<1>3. PICK g \in versions : g # id.filing /\ ~Newer(id.filing, g)
  BY <1>1, <1>2 DEF Get
<1>4. g \in Filings /\ id.filing \in Filings /\ g \in held
  BY <1>0, <1>1, <1>3 DEF Reporting, Seen
<1>5. Newer(g, id.filing)
  <2>1. \A x \in Filings : FiledOn[x] \in Int /\ Accession[x] \in Int
    BY HistoryAssumption
  <2>2. Accession[g] # Accession[id.filing]
    BY <1>3, <1>4, HistoryAssumption
  <2> QED  BY <1>3, <1>4, <2>1, <2>2 DEF Newer
<1>6. TickerOf[g] = TickerOf[id.filing] /\ <<id.metric, id.year>> \in DOMAIN Reports[g] /\ g \in Seen(held, AsOf)
  BY <1>1, <1>3 DEF Reporting
<1>7. g \notin start
  <2> SUFFICES ASSUME g \in start PROVE FALSE
    OBVIOUS
  <2>1. g \in Restating(start, id)
    BY <1>5, <1>6 DEF Restating, Reporting, Seen
  <2> QED  BY <2>1 DEF Sound
<1>8. g \in Restating(held \ start, id)
  BY <1>4, <1>5, <1>6, <1>7 DEF Restating, Reporting, Seen
<1> QED  BY <1>8

\* An input stays where it is unless the hands are emptied of it.
LEMMA TracedStays ==
  ASSUME held \subseteq held', UNCHANGED <<start, request>>, DOMAIN facts \subseteq DOMAIN facts',
         NEW id, Traced(id),
         UNCHANGED inputs \/ id \in DOMAIN facts',
         (step = "versions" /\ citing = id) => id \in DOMAIN facts' \/ (step' = "versions" /\ citing' = id)
  PROVE  Traced(id)'
<1>1. Restating(held \ start, id) \subseteq Restating(held \ start, id)'
  BY DEF Restating, Reporting, Seen, AsOf
<1> QED  BY <1>1 DEF Traced

LEMMA InputStep == ToolInv /\ InputInv /\ [ToolNext]_<<held, toolVars>> => InputInv'
<1> SUFFICES ASSUME ToolInv, InputInv, [ToolNext]_<<held, toolVars>> PROVE InputInv'
  OBVIOUS
<1>1. CASE Start
  <2>1. inputs = <<>> /\ DOMAIN derived = {} /\ UNCHANGED <<inputs, derived>> /\ step' = "company"
    BY <1>1 DEF Start, ToolInv, StepReady
  <2> QED  BY <2>1 DEF InputInv, InputsInHand
<1>2. ASSUME held \subseteq held', UNCHANGED <<start, request, inputs, derived, facts>>, InputsInHand',
             step = "versions" => step' = "versions" /\ citing' = citing
      PROVE  InputInv'
  BY <1>2, TracedStays DEF InputInv
<1>3. CASE Company \/ YearByIncome \/ CompanyDone \/ Return
  <2>1. /\ UNCHANGED <<held, start, request, inputs, derived, facts>> /\ step \in {"company", "year", "metric"}
        /\ step' # "second"
    BY <1>3 DEF Company, YearByIncome, CompanyDone, Return, HaveYear, NextCompany
  <2>2. inputs = <<>>
    BY <2>1 DEF InputInv, InputsInHand
  <2>3. InputsInHand'
    BY <2>1, <2>2 DEF InputsInHand
  <2> QED  BY <1>2, <2>1, <2>3
<1>4. CASE ReadFact
  <2>1. UNCHANGED <<held, start, request, inputs, derived, facts>> /\ step = "metric" /\ step' # "second"
    BY <1>4 DEF ReadFact, NextMetric
  <2>2. inputs = <<>>
    BY <2>1 DEF InputInv, InputsInHand
  <2>3. InputsInHand'
    BY <2>1, <2>2 DEF InputsInHand
  <2> QED  BY <1>2, <2>1, <2>3
<1>5. CASE Versions
  <2>1. PICK first \in FirstReported(citing) :
          /\ facts' = Put(facts, citing, first)
          /\ IF IsDerived THEN step' = "input" /\ UNCHANGED metrics ELSE NextMetric
    BY <1>5 DEF Versions
  <2>2. UNCHANGED <<held, start, request, tickers, inputs, derived>> /\ step = "versions" /\ citing' = NoFact
    BY <1>5 DEF Versions
  <2>3. DOMAIN facts' = DOMAIN facts \union {citing}
    BY <2>1 DEF Put
  <2>4. InputsInHand'
    BY <2>1, <2>2 DEF InputInv, InputsInHand, NextMetric, IsDerived, Metric, Reported, Ticker
  <2> QED  BY <2>2, <2>3, <2>4, TracedStays DEF InputInv
<1>6. CASE ReadFirst
  <2>1. PICK f \in Found(Formula[Metric].num, year) : got' = f
    BY <1>6 DEF ReadFirst
  <2>2. /\ step = "metric" /\ step' = "second"
        /\ UNCHANGED <<held, start, request, tickers, metrics, year, inputs, derived, facts>>
    BY <1>6 DEF ReadFirst
  <2>3. inputs = <<>>
    BY <2>2 DEF InputInv, InputsInHand
  <2>4. got' # NoFiling => Reported(FactId(Formula[Metric].num, year, got))'
    BY <2>1, <2>2, FoundReported DEF Reported, FactId, Ticker, Metric
  <2>5. InputsInHand'
    BY <2>2, <2>3, <2>4 DEF InputsInHand
  <2> QED  BY <1>2, <2>2, <2>5
<1>7. CASE ReadSecond
  <2> DEFINE last == year - Formula[Metric].lag
             key == [ticker |-> Ticker, name |-> Metric, year |-> year]
             num(f) == FactId(Formula[Metric].num, year, f)
             den(f) == FactId(Formula[Metric].den, last, f)
  <2>1. PICK g \in Found(Formula[Metric].den, last) :
          \/ /\ Computable(got, g) /\ derived' = Put(derived, key, Lineage(got, g))
             /\ inputs' = Lineage(got, g) /\ step' = "input" /\ UNCHANGED metrics
          \/ step' = "metric" /\ UNCHANGED <<inputs, derived>>
    BY <1>7 DEF ReadSecond, NextMetric
  <2>2. /\ step = "second" /\ IsDerived
        /\ UNCHANGED <<held, start, request, tickers, year, citing, facts>>
    BY <1>7 DEF ReadSecond, ToolInv, StepReady
  <2>3. inputs = <<>>
    BY <2>2 DEF InputInv, InputsInHand
  <2>4. CASE step' = "metric" /\ UNCHANGED <<inputs, derived>>
    <3>1. InputsInHand'
      BY <2>3, <2>4 DEF InputsInHand
    <3> QED  BY <1>2, <2>2, <2>4, <3>1
  <2>5. CASE /\ Computable(got, g) /\ derived' = Put(derived, key, Lineage(got, g))
             /\ inputs' = Lineage(got, g) /\ step' = "input" /\ UNCHANGED metrics
    <3>1. Lineage(got, g) = <<num(got), den(g)>>
      BY DEF Lineage
    <3>2. Reported(num(got)) /\ Reported(den(g))
      BY <2>1, <2>2, <2>5, FoundReported DEF Computable, InputInv, InputsInHand
    <3>0. PICK a, b : a = num(got) /\ b = den(g)
      OBVIOUS
    <3> HIDE DEF num, den
    <3>3. /\ inputs' = <<a, b>> /\ DOMAIN derived' = DOMAIN derived \union {key} /\ derived'[key] = <<a, b>>
          /\ \A d \in DOMAIN derived : d # key => derived'[d] = derived[d]
      BY <2>5, <3>0, <3>1 DEF Put
    <3>4. Reported(a)' /\ Reported(b)'
      BY <2>2, <3>0, <3>2 DEF Reported, Ticker
    <3> HIDE DEF key
    <3>5. Len(inputs') = 2 /\ inputs'[1] = a /\ inputs'[2] = b
      BY <3>3
    <3>6. InputsInHand'
      BY <2>2, <2>5, <3>4, <3>5 DEF InputsInHand, IsDerived, Metric
    <3>7. Traced(a)' /\ Traced(b)'
      BY <3>5 DEF Traced
    <3>8. ASSUME NEW d \in DOMAIN derived, d # key PROVE Traced(derived[d][1])' /\ Traced(derived[d][2])'
      <4>1. \A id : Traced(id) => Traced(id)'
        <5>1. \A id : Restating(held \ start, id)' = Restating(held \ start, id)
          BY <2>2 DEF Restating, Reporting, Seen, AsOf
        <5>2. \A id : ~\E i \in 1..Len(inputs) : inputs[i] = id
          BY <2>3
        <5> QED  BY <2>2, <5>1, <5>2 DEF Traced
      <4>2. Traced(derived[d][1]) /\ Traced(derived[d][2])
        BY DEF InputInv
      <4>3. derived'[d] = derived[d]
        BY <3>3, <3>8
      <4> QED  BY <4>1, <4>2, <4>3
    <3> QED  BY <3>3, <3>6, <3>7, <3>8 DEF InputInv
  <2> QED  BY <2>1, <2>4, <2>5
<1>8. CASE ReadInput
  <2>0. PICK id : id = Head(inputs)
    OBVIOUS
  <2>1. /\ step = "input" /\ inputs # <<>> /\ inputs' = Tail(inputs)
        /\ IF StillCited(id) # {} THEN citing' = id /\ step' = "versions" ELSE UNCHANGED <<citing, step>>
        /\ UNCHANGED <<held, start, request, tickers, metrics, year, derived, facts>>
    BY <1>8, <2>0 DEF ReadInput, NextInputs
  <2>2. inputs \in Seq(FactIds) /\ id \in FactIds /\ id = inputs[1] /\ 1 \in 1..Len(inputs)
    BY <2>0, <2>1 DEF ToolInv, ToolTypeOK
  <2>3. \A i \in 1..Len(Tail(inputs)) : i + 1 \in 1..Len(inputs) /\ Tail(inputs)[i] = inputs[i + 1]
    BY <2>1, <2>2, TailType
  <2>4. \A i \in 1..Len(inputs) : i = 1 \/ (i - 1 \in 1..Len(Tail(inputs)) /\ Tail(inputs)[i - 1] = inputs[i])
    BY <2>1, <2>2
  <2>5. IsDerived /\ \A i \in 1..Len(inputs) : Reported(inputs[i])
    BY <2>1 DEF InputInv, InputsInHand
  <2>6. InputsInHand'
    <3>1. IsDerived' /\ \A x : Reported(x)' <=> Reported(x)
      BY <2>1, <2>5 DEF IsDerived, Metric, Reported, Ticker
    <3> QED  BY <2>1, <2>3, <2>5, <3>1 DEF InputsInHand
  <2>7. Traced(id)'
    <3>1. CASE StillCited(id) # {}
      BY <2>1, <3>1 DEF Traced
    <3>2. CASE StillCited(id) = {}
      <4>1. Sound(id) /\ Reported(id)
        BY <2>2, <2>5 DEF ToolInv, HandsSound
      <4>2. Restating(held \ start, id) # {}
        BY <2>2, <3>2, <4>1, NotCitedRestated
      <4>3. Restating(held \ start, id)' = Restating(held \ start, id)
        BY <2>1 DEF Restating, Reporting, Seen, AsOf
      <4> QED  BY <4>2, <4>3 DEF Traced
    <3> QED  BY <3>1, <3>2
  <2>8. ASSUME NEW x, Traced(x) PROVE Traced(x)'
    <3>1. CASE x = inputs[1]
      BY <2>2, <2>7, <3>1
    <3>2. CASE x # inputs[1]
      <4>1. Restating(held \ start, x) # {} => Restating(held \ start, x)' # {}
        BY <2>1 DEF Restating, Reporting, Seen, AsOf
      <4>2. (\E i \in 1..Len(inputs) : inputs[i] = x) => \E i \in 1..Len(inputs') : inputs'[i] = x
        BY <2>1, <2>4, <3>2
      <4> QED  BY <2>1, <2>8, <4>1, <4>2 DEF Traced
    <3> QED  BY <3>1, <3>2
  <2> QED  BY <2>1, <2>6, <2>8 DEF InputInv
<1>9. CASE StateDerived
  <2>1. /\ inputs = <<>> /\ step = "input" /\ step' = "metric"
        /\ UNCHANGED <<held, start, request, inputs, derived, facts>>
    BY <1>9 DEF StateDerived, NextMetric
  <2>2. InputsInHand'
    BY <2>1 DEF InputsInHand
  <2> QED  BY <1>2, <2>1, <2>2
<1>10. CASE (\E f \in Filings : Land(f)) \/ UNCHANGED <<held, toolVars>>
  <2>1. held \subseteq held' /\ UNCHANGED toolVars
    BY <1>10 DEF Land
  <2>2. InputsInHand'
    BY <2>1 DEF toolVars, InputInv, InputsInHand, Reported, FactId, Ticker, Metric, IsDerived
  <2> QED  BY <1>2, <2>1, <2>2 DEF toolVars
<1> QED  BY <1>1, <1>3, <1>4, <1>5, <1>6, <1>7, <1>8, <1>9, <1>10 DEF ToolNext, ToolStep

\* Once the tool has returned, every input of a derived metric is evidence too,
\* but for those a filing restated while it read.
THEOREM InputsAreEvidence == ToolSpec => []InputsCited
<1>1. ToolInit => InputInv
  BY DEF ToolInit, InputInv, InputsInHand
<1>2. InputInv => InputsCited
  <2> SUFFICES ASSUME InputInv, step = "done", NEW d \in DOMAIN derived, NEW i \in 1..2
               PROVE  derived[d][i] \in DOMAIN facts \/ Restating(held \ start, derived[d][i]) # {}
    BY DEF InputsCited
  <2>1. inputs = <<>>
    BY DEF InputInv, InputsInHand
  <2>2. Traced(derived[d][i])
    BY DEF InputInv
  <2>3. ~\E j \in 1..Len(inputs) : inputs[j] = derived[d][i]
    BY <2>1
  <2> QED  BY <2>2, <2>3 DEF Traced
<1> QED  BY <1>1, <1>2, InputStep, ToolInvariant, PTL DEF ToolSpec

-----------------------------------------------------------------------------
(* Figures                                                                 *)

LEMMA EarliestDay ==
  ASSUME NEW T, T \subseteq Nat, T # {}
  PROVE  \E x \in T : \A y \in T : x <= y
<1>1. IsWellFoundedOn(OpToRel(<, Nat), Nat)
  BY NatLessThanWellFounded, Zenon
<1>2. PICK x \in T : \A y \in T : ~(<<y, x>> \in OpToRel(<, Nat))
  BY <1>1, WFMin, Zenon
<1>3. \A y \in T : ~(y < x)
  BY <1>2, Zenon DEF OpToRel
<1> QED  BY <1>3

LEMMA OriginalsExist ==
  ASSUME NEW S, S \subseteq Filings, NEW f, NEW m, NEW y
  PROVE  Originals(S, f, m, y) # {}
<1> DEFINE prior == Prior(S, f, m, y)
<1>1. prior \subseteq Filings
  BY DEF Prior, Reporting
<1> HIDE DEF prior
<1>2. CASE prior # {}
  <2> DEFINE days == {FiledOn[g] : g \in prior}
  <2>1. days \subseteq Nat /\ days # {}
    BY <1>1, <1>2, HistoryAssumption
  <2>2. PICK x \in days : \A d \in days : x <= d
    <3> HIDE DEF days
    <3> QED  BY <2>1, EarliestDay
  <2>3. PICK g \in prior : \A h \in prior : FiledOn[g] <= FiledOn[h]
    BY <2>2
  <2> QED  BY <1>2, <2>3 DEF Originals, prior
<1>3. CASE prior = {}
  BY <1>3 DEF Originals, prior
<1> QED  BY <1>2, <1>3

\* Unless the original of a fact moved, it has been the same all along.
FirstIn(S, id) == Originals(S, id.filing, id.metric, id.year)

LEMMA OriginalSettled ==
  ASSUME NEW T, T \subseteq Filings, NEW S, S \subseteq T, NEW start0, start0 \subseteq S, NEW id,
         FirstIn(start0, id) = FirstIn(T, id), \A f, g \in FirstIn(T, id) : f = g
  PROVE  FirstIn(S, id) = FirstIn(T, id)
<1> DEFINE P(X) == Prior(X, id.filing, id.metric, id.year)
<1>1. P(start0) \subseteq P(S) /\ P(S) \subseteq P(T) /\ P(T) \subseteq Filings
  BY DEF Prior, Reporting
<1>2. PICK c \in FirstIn(T, id) : TRUE
  BY OriginalsExist DEF FirstIn
<1>3. \A f \in Filings : FiledOn[f] \in Nat
  BY HistoryAssumption
<1>4. FirstIn(T, id) = {c} /\ FirstIn(start0, id) = {c}
  BY <1>2
<1>5. \A X : FirstIn(X, id) = IF P(X) = {} THEN {NoFiling}
                              ELSE {g \in P(X) : \A h \in P(X) : FiledOn[g] <= FiledOn[h]}
  BY DEF FirstIn, Originals
<1> HIDE DEF P
<1>6. CASE c = NoFiling
  <2>1. P(T) = {}
    BY <1>1, <1>4, <1>5, <1>6, HistoryAssumption
  <2> QED  BY <1>1, <1>5, <2>1
<1>7. CASE c # NoFiling
  <2>1. c \in P(start0) /\ \A h \in P(T) : FiledOn[c] <= FiledOn[h]
    BY <1>4, <1>5, <1>7
  <2>2. c \in FirstIn(S, id)
    BY <1>1, <1>5, <2>1
  <2>3. ASSUME NEW a \in FirstIn(S, id) PROVE a = c
    <3>1. a \in P(S) /\ \A h \in P(S) : FiledOn[a] <= FiledOn[h]
      BY <1>1, <1>5, <2>1
    <3>2. a \in P(T) /\ FiledOn[a] <= FiledOn[c] /\ c \in P(S) /\ c \in P(T)
      BY <1>1, <2>1, <3>1
    <3>3. \A h \in P(T) : FiledOn[a] <= FiledOn[h]
      BY <1>1, <1>3, <2>1, <3>2
    <3>4. a \in FirstIn(T, id)
      BY <1>5, <3>2, <3>3
    <3> QED  BY <1>4, <3>4
  <2> QED  BY <1>4, <2>2, <2>3
<1> QED  BY <1>6, <1>7

\* Once it has moved, it stays moved.
LEMMA MovedStays ==
  ASSUME held' \subseteq Filings, held \subseteq held', start \subseteq held, UNCHANGED start,
         NEW id, OriginalMoved(id)
  PROVE  OriginalMoved(id)'
<1> SUFFICES ASSUME ~OriginalMoved(id)' PROVE FALSE
  OBVIOUS
<1>1. FirstIn(start, id) = FirstIn(held', id) /\ \A f, g \in FirstIn(held', id) : f = g
  BY DEF OriginalMoved, FirstIn
<1>2. FirstIn(held, id) = FirstIn(held', id)
  BY <1>1, OriginalSettled
<1> QED  BY <1>1, <1>2 DEF OriginalMoved, FirstIn

\* What was stated is still in the evidence when no entry of it is replaced.
LEMMA FiguresGrow ==
  ASSUME \A id \in DOMAIN facts : id \in DOMAIN facts' /\ facts'[id] = facts[id],
         \A d \in DOMAIN derived : d \in DOMAIN derived' /\ derived'[d] = derived[d]
  PROVE  Figures \subseteq Figures'
<1> DEFINE F == {FactFigures(id, facts[id]) : id \in DOMAIN facts}
           D == {DerivedFigure(d) : d \in DOMAIN derived}
<1>1. F \subseteq F'
  BY Zenon DEF FactFigures
<1>2. D \subseteq D'
  <2>1. D' = {<<d.name, ValueOf(derived'[d][1]), ValueOf(derived'[d][2])>> : d \in DOMAIN derived'}
    BY Zenon DEF DerivedFigure
  <2>2. ASSUME NEW d \in DOMAIN derived
        PROVE  <<d.name, ValueOf(derived[d][1]), ValueOf(derived[d][2])>> \in D'
    <3>1. d \in DOMAIN derived' /\ derived'[d] = derived[d]
      OBVIOUS
    <3>2. <<d.name, ValueOf(derived'[d][1]), ValueOf(derived'[d][2])>> \in D'
      BY <2>1, <3>1, Zenon
    <3> QED  BY <3>1, <3>2, Zenon
  <2> QED  BY <2>2, Zenon DEF DerivedFigure
<1>3. Figures = (UNION F) \union D /\ Figures' = (UNION F') \union D'
  BY Zenon DEF Figures
<1> QED
  <2> HIDE DEF F, D
  <2> QED  BY <1>1, <1>2, <1>3

\* What is left of a list that names nothing twice, after its head.
LEMMA RestOnce ==
  ASSUME NEW S, NEW s \in Seq(S), s # <<>>, IsInjective(s)
  PROVE  /\ IsInjective(Tail(s))
         /\ \A i \in 1..Len(Tail(s)) : \E j \in 1..Len(s) : Tail(s)[i] = s[j]
         /\ \A i \in 1..Len(Tail(s)) : Tail(s)[i] # Head(s)
         /\ 1 \in 1..Len(s) /\ Head(s) = s[1]
<1> DEFINE w == Tail(s)
<1>1. w \in Seq(S) /\ Len(w) = Len(s) - 1 /\ \A i \in 1..Len(w) : w[i] = s[i + 1]
  OBVIOUS
<1>2. Len(s) \in Nat /\ 1 \in 1..Len(s) /\ Head(s) = s[1] /\ DOMAIN s = 1..Len(s)
  OBVIOUS
<1>3. \A i, j \in 1..Len(s) : s[i] = s[j] => i = j
  BY <1>2 DEF IsInjective
<1>4. DOMAIN w = 1..Len(w)
  BY <1>1
<1> HIDE DEF w
<1>5. \A i \in 1..Len(w) : i + 1 \in 1..Len(s) /\ i + 1 # 1
  BY <1>1, <1>2
<1>6. \A i \in 1..Len(w) : w[i] # s[1]
  BY <1>1, <1>2, <1>3, <1>5
<1>7. \A i, j \in 1..Len(w) : w[i] = w[j] => i = j
  <2> SUFFICES ASSUME NEW i \in 1..Len(w), NEW j \in 1..Len(w), w[i] = w[j] PROVE i = j
    OBVIOUS
  <2>1. i + 1 = j + 1
    BY <1>1, <1>3, <1>5
  <2> QED  BY <2>1
<1>8. \A i \in 1..Len(w) : \E j \in 1..Len(s) : w[i] = s[j]
  BY <1>1, <1>5
<1>9. IsInjective(w)
  BY <1>4, <1>7 DEF IsInjective
<1> QED  BY <1>2, <1>6, <1>8, <1>9 DEF w

InMetrics == step \in {"metric", "second", "input", "versions"}

\* No company and no metric is left to do twice.
NamedOnce == IsInjective(tickers) /\ (InMetrics => IsInjective(metrics))

\* A derived metric in evidence is behind the tool, or the one being stated.
Behind(d) ==
  \/ \A i \in 1..Len(tickers) : tickers[i] # d.ticker
  \/ /\ InMetrics /\ d.ticker = Ticker
     /\ \/ \A i \in 1..Len(metrics) : metrics[i] # d.name
        \/ step \in {"input", "versions"} /\ d.name = Metric

KeysBehind == \A d \in DOMAIN derived : Behind(d)

\* The derived metric about to be stated is in evidence.
Stating ==
  step \in {"input", "versions"} /\ IsDerived =>
    [ticker |-> Ticker, name |-> Metric, year |-> year] \in DOMAIN derived

KeyInv == NamedOnce /\ KeysBehind /\ Stating

\* The tool goes on to its next metric.
LEMMA NextMetricKeys ==
  ASSUME ToolInv, KeyInv, InMetrics, metrics # <<>>, metrics' = Tail(metrics), step' = "metric",
         UNCHANGED <<tickers, derived>>
  PROVE  KeyInv'
<1>1. metrics \in Seq(Metrics \union DerivedNames)
  BY DEF ToolInv, ToolTypeOK
<1>2. IsInjective(metrics)
  BY DEF KeyInv, NamedOnce
<1>3. /\ IsInjective(metrics')
      /\ \A i \in 1..Len(metrics') : \E j \in 1..Len(metrics) : metrics'[i] = metrics[j]
      /\ \A i \in 1..Len(metrics') : metrics'[i] # Metric
  BY <1>1, <1>2, RestOnce DEF Metric
<1>4. NamedOnce'
  BY <1>3 DEF KeyInv, NamedOnce
<1>5. ASSUME NEW d, Behind(d) PROVE Behind(d)'
  <2>1. CASE \A i \in 1..Len(metrics) : metrics[i] # d.name
    <3>1. \A i \in 1..Len(metrics') : metrics'[i] # d.name
      BY <1>3, <2>1
    <3> QED  BY <1>5, <3>1 DEF Behind, InMetrics, Ticker
  <2>2. CASE d.name = Metric
    BY <1>3, <1>5, <2>2 DEF Behind, InMetrics, Ticker
  <2>3. CASE \A i \in 1..Len(tickers) : tickers[i] # d.ticker
    BY <2>3 DEF Behind
  <2> QED  BY <1>5, <2>1, <2>2, <2>3 DEF Behind
<1> QED  BY <1>4, <1>5 DEF KeyInv, KeysBehind, Stating

\* The tool goes on to its next company.
LEMMA NextCompanyKeys ==
  ASSUME ToolInv, KeyInv, tickers # <<>>, InMetrics => metrics = <<>>,
         tickers' = Tail(tickers), step' = "company", UNCHANGED derived
  PROVE  KeyInv'
<1>1. tickers \in Seq(Tickers) /\ IsInjective(tickers)
  BY DEF ToolInv, ToolTypeOK, KeyInv, NamedOnce
<1>2. /\ IsInjective(tickers')
      /\ \A i \in 1..Len(tickers') : \E j \in 1..Len(tickers) : tickers'[i] = tickers[j]
      /\ \A i \in 1..Len(tickers') : tickers'[i] # Ticker
  BY <1>1, RestOnce DEF Ticker
<1>3. ASSUME NEW d, Behind(d) PROVE \A i \in 1..Len(tickers') : tickers'[i] # d.ticker
  BY <1>2, <1>3 DEF Behind
<1> QED  BY <1>2, <1>3 DEF KeyInv, NamedOnce, InMetrics, KeysBehind, Behind, Stating

LEMMA KeyStep == ToolInv /\ KeyInv /\ [ToolNext]_<<held, toolVars>> => KeyInv'
<1> SUFFICES ASSUME ToolInv, KeyInv, [ToolNext]_<<held, toolVars>> PROVE KeyInv'
  OBVIOUS
<1>0. IsInjective(request.tickers) /\ IsInjective(request.metrics)
  BY ToolAssumption DEF ToolInv, ToolTypeOK
<1>1. CASE Start
  BY <1>0, <1>1 DEF Start, ToolInv, StepReady, KeyInv, NamedOnce, InMetrics, KeysBehind, Stating
<1>2. ASSUME UNCHANGED <<tickers, derived>>, step \notin {"metric", "second", "input", "versions"}, step' \in {"metric", "year"},
             step' = "metric" => metrics' = request.metrics
      PROVE  KeyInv'
  <2>1. \A d : Behind(d) => Behind(d)'
    BY <1>2 DEF Behind, InMetrics
  <2> QED  BY <1>0, <1>2, <2>1 DEF KeyInv, NamedOnce, InMetrics, KeysBehind, Stating
<1>3. CASE Company
  BY <1>2, <1>3 DEF Company, HaveYear
<1>4. CASE YearByIncome
  <2>1. tickers # <<>> /\ step = "year" /\ UNCHANGED derived
    BY <1>4 DEF YearByIncome, ToolInv, StepReady
  <2>2. CASE step' = "metric" /\ metrics' = request.metrics /\ UNCHANGED tickers
    BY <1>2, <2>1, <2>2
  <2>3. CASE NextCompany
    BY <2>1, <2>3, NextCompanyKeys DEF NextCompany, InMetrics
  <2> QED  BY <1>4, <2>2, <2>3 DEF YearByIncome, HaveYear
<1>5. CASE CompanyDone
  <2>1. tickers # <<>> /\ metrics = <<>> /\ NextCompany /\ UNCHANGED derived
    BY <1>5 DEF CompanyDone, ToolInv, StepReady
  <2> QED  BY <2>1, NextCompanyKeys DEF NextCompany
<1>6. CASE ReadFact
  <2>1. step = "metric" /\ metrics # <<>> /\ Metric \in Metrics /\ UNCHANGED <<tickers, derived, year>>
    BY <1>6 DEF ReadFact
  <2>2. CASE NextMetric
    BY <2>1, <2>2, NextMetricKeys DEF NextMetric, InMetrics
  <2>3. CASE step' = "versions" /\ UNCHANGED metrics
    <3>1. ~IsDerived'
      BY <2>1, <2>3, NamesDiffer DEF IsDerived, Metric
    <3>2. \A d : Behind(d) => Behind(d)'
      BY <2>1, <2>3 DEF Behind, InMetrics, Ticker, Metric
    <3> QED  BY <2>1, <2>3, <3>1, <3>2 DEF KeyInv, NamedOnce, InMetrics, KeysBehind, Stating
  <2> QED  BY <1>6, <2>2, <2>3 DEF ReadFact
<1>7. CASE Versions
  <2>1. step = "versions" /\ metrics # <<>> /\ UNCHANGED <<tickers, derived, year>>
    BY <1>7 DEF Versions, ToolInv, StepReady
  <2>2. CASE NextMetric
    BY <2>1, <2>2, NextMetricKeys DEF NextMetric, InMetrics
  <2>3. CASE step' = "input" /\ UNCHANGED metrics
    <3>1. \A d : Behind(d) => Behind(d)'
      BY <2>1, <2>3 DEF Behind, InMetrics, Ticker, Metric
    <3> QED  BY <2>1, <2>3, <3>1 DEF KeyInv, NamedOnce, InMetrics, KeysBehind, Stating, IsDerived, Metric, Ticker
  <2> QED  BY <1>7, <2>2, <2>3 DEF Versions
<1>8. CASE ReadFirst
  <2>1. step = "metric" /\ step' = "second" /\ UNCHANGED <<tickers, metrics, derived>>
    BY <1>8 DEF ReadFirst
  <2>2. \A d : Behind(d) => Behind(d)'
    BY <2>1 DEF Behind, InMetrics, Ticker, Metric
  <2> QED  BY <2>1, <2>2 DEF KeyInv, NamedOnce, InMetrics, KeysBehind, Stating
<1>9. CASE ReadSecond
  <2>1. step = "second" /\ metrics # <<>> /\ UNCHANGED <<tickers, year>>
    BY <1>9 DEF ReadSecond, ToolInv, StepReady, IsDerived
  <2>2. CASE NextMetric /\ UNCHANGED derived
    BY <2>1, <2>2, NextMetricKeys DEF NextMetric, InMetrics
  <2>3. CASE step' = "input" /\ UNCHANGED metrics
    <3>1. PICK key : key = [ticker |-> Ticker, name |-> Metric, year |-> year]
      OBVIOUS
    <3>2. \A d \in DOMAIN derived' : d \in DOMAIN derived \/ d = key
      BY <1>9, <2>3, <3>1 DEF ReadSecond, Put, NextMetric
    <3>3. key \in DOMAIN derived'
      BY <1>9, <2>3, <3>1 DEF ReadSecond, Put, NextMetric
    <3>4. \A d : Behind(d) => Behind(d)'
      BY <2>1, <2>3 DEF Behind, InMetrics, Ticker, Metric
    <3>5. Behind(key)'
      BY <2>1, <2>3, <3>1 DEF Behind, InMetrics, Ticker, Metric
    <3>6. KeysBehind'
      BY <3>2, <3>4, <3>5 DEF KeyInv, KeysBehind
    <3> QED  BY <2>1, <2>3, <3>1, <3>3, <3>6 DEF KeyInv, NamedOnce, InMetrics, Stating, Ticker, Metric
  <2> QED  BY <1>9, <2>2, <2>3 DEF ReadSecond
<1>10. CASE ReadInput
  <2>1. step = "input" /\ step' \in {"input", "versions"} /\ UNCHANGED <<tickers, metrics, derived, year>>
    BY <1>10 DEF ReadInput
  <2>2. \A d : Behind(d) => Behind(d)'
    BY <2>1 DEF Behind, InMetrics, Ticker, Metric
  <2> QED  BY <2>1, <2>2 DEF KeyInv, NamedOnce, InMetrics, KeysBehind, Stating, IsDerived, Metric, Ticker
<1>11. CASE StateDerived
  <2>1. step = "input" /\ metrics # <<>> /\ UNCHANGED <<tickers, derived>> /\ NextMetric
    BY <1>11 DEF StateDerived, ToolInv, StepReady, IsDerived
  <2> QED  BY <2>1, NextMetricKeys DEF NextMetric, InMetrics
<1>12. CASE Return
  <2>1. \A d : Behind(d) => Behind(d)'
    BY <1>12 DEF Return, Behind, InMetrics
  <2> QED  BY <1>12, <2>1 DEF Return, KeyInv, NamedOnce, InMetrics, KeysBehind, Stating
<1>13. CASE (\E f \in Filings : Land(f)) \/ UNCHANGED <<held, toolVars>>
  <2>1. UNCHANGED toolVars
    BY <1>13 DEF Land
  <2>2. \A d : Behind(d) => Behind(d)'
    BY <2>1 DEF toolVars, Behind, InMetrics, Ticker, Metric
  <2> QED  BY <2>1, <2>2 DEF toolVars, KeyInv, NamedOnce, InMetrics, KeysBehind, Stating, IsDerived, Metric, Ticker
<1> QED  BY <1>1, <1>3, <1>4, <1>5, <1>6, <1>7, <1>8, <1>9, <1>10, <1>11, <1>12, <1>13 DEF ToolNext, ToolStep

\* The original of a fact in evidence is the one it had when the tool started,
\* and every figure stated is in the evidence, unless an original moved.
SettledFacts == \A id \in DOMAIN facts : OriginalMoved(id) \/ facts[id] \in FirstIn(start, id)

SomeMoved == \E id \in DOMAIN facts : OriginalMoved(id)

QuotedInv ==
  /\ step = "idle" => quoted = {}
  /\ SettledFacts
  /\ SomeMoved \/ quoted \subseteq Figures

\* A step that replaces no entry of the evidence and states nothing else.
LEMMA QuotedStays ==
  ASSUME ToolInv, ToolInv', QuotedInv, held \subseteq held', UNCHANGED start,
         step' = "idle" => step = "idle" /\ UNCHANGED quoted,
         \A id \in DOMAIN facts : id \in DOMAIN facts' /\ facts'[id] = facts[id],
         \A d \in DOMAIN derived : d \in DOMAIN derived' /\ derived'[d] = derived[d],
         \A id \in DOMAIN facts' : id \in DOMAIN facts \/ OriginalMoved(id)' \/ facts'[id] \in FirstIn(start, id),
         quoted' \subseteq quoted \union Figures'
  PROVE  QuotedInv'
<1>1. held' \subseteq Filings /\ start \subseteq held
  BY DEF ToolInv, ToolTypeOK
<1>2. \A id : OriginalMoved(id) => OriginalMoved(id)'
  BY <1>1, MovedStays
<1>3. SettledFacts'
  <2>1. \A id : FirstIn(start, id)' = FirstIn(start, id)
    BY DEF FirstIn
  <2> QED  BY <1>2, <2>1 DEF QuotedInv, SettledFacts
<1>4. Figures \subseteq Figures'
  BY FiguresGrow
<1>5. SomeMoved => SomeMoved'
  BY <1>2 DEF SomeMoved
<1> QED  BY <1>3, <1>4, <1>5 DEF QuotedInv

LEMMA DerivedIsFigure ==
  ASSUME NEW d \in DOMAIN derived
  PROVE  DerivedFigure(d) \in Figures
<1>1. DerivedFigure(d) \in {DerivedFigure(x) : x \in DOMAIN derived}
  BY Zenon
<1> QED  BY <1>1, Zenon DEF Figures

LEMMA QuotedStep == ToolInv /\ KeyInv /\ QuotedInv /\ [ToolNext]_<<held, toolVars>> => QuotedInv'
<1> SUFFICES ASSUME ToolInv, KeyInv, QuotedInv, [ToolNext]_<<held, toolVars>> PROVE QuotedInv'
  OBVIOUS
<1>0. ToolInv'
  BY StepToolInv
<1>1. CASE Start
  <2>1. DOMAIN facts = {} /\ DOMAIN derived = {} /\ quoted = {} /\ UNCHANGED <<facts, derived, quoted>>
    BY <1>1 DEF Start, ToolInv, StepReady, QuotedInv
  <2> QED  BY <2>1 DEF QuotedInv, SettledFacts
<1>2. ASSUME UNCHANGED <<start, facts, derived, quoted>>, held \subseteq held', step' = "idle" => step = "idle"
      PROVE  QuotedInv'
  BY <1>0, <1>2, QuotedStays
<1>3. CASE Company \/ YearByIncome \/ CompanyDone \/ ReadFact \/ ReadFirst \/ ReadInput \/ Return
  <2>1. UNCHANGED <<held, start, facts, derived, quoted>>
    BY <1>3 DEF Company, YearByIncome, CompanyDone, ReadFact, ReadFirst, ReadInput, Return
  <2>2. step' # "idle"
    BY <1>3 DEF Company, YearByIncome, CompanyDone, ReadFact, ReadFirst, ReadInput, Return, HaveYear,
                NextCompany, NextMetric
  <2> QED  BY <1>2, <2>1, <2>2
<1>4. CASE (\E f \in Filings : Land(f)) \/ UNCHANGED <<held, toolVars>>
  <2>1. held \subseteq held' /\ UNCHANGED toolVars
    BY <1>4 DEF Land
  <2> QED  BY <1>2, <2>1 DEF toolVars
<1>5. CASE Versions
  <2>0. PICK id : id = citing
    OBVIOUS
  <2>1. PICK first \in FirstIn(held, id) :
          /\ facts' = Put(facts, id, first)
          /\ quoted' \subseteq quoted \union FactFigures(id, first)
    BY <1>5, <2>0 DEF Versions, FirstReported, FirstIn
  <2>2. UNCHANGED <<held, start, request, derived>> /\ step' # "idle"
    BY <1>5 DEF Versions, NextMetric
  <2>3. /\ DOMAIN facts' = DOMAIN facts \union {id} /\ facts'[id] = first
        /\ \A x \in DOMAIN facts : x # id => facts'[x] = facts[x]
    BY <2>1 DEF Put
  <2>4. \A x : OriginalMoved(x)' <=> OriginalMoved(x)
    BY <2>2 DEF OriginalMoved
  <2>5. CASE OriginalMoved(id)
    <3>1. SettledFacts'
      BY <2>2, <2>3, <2>4, <2>5 DEF QuotedInv, SettledFacts, FirstIn
    <3>2. SomeMoved'
      BY <2>3, <2>4, <2>5 DEF SomeMoved
    <3> QED  BY <2>2, <3>1, <3>2 DEF QuotedInv
  <2>6. CASE ~OriginalMoved(id)
    <3>1. FirstIn(start, id) = FirstIn(held, id) /\ \A f, g \in FirstIn(held, id) : f = g
      BY <2>6 DEF OriginalMoved, FirstIn
    <3>2. id \in DOMAIN facts => facts[id] = first
      BY <2>6, <3>1 DEF QuotedInv, SettledFacts
    <3>3. \A x \in DOMAIN facts : x \in DOMAIN facts' /\ facts'[x] = facts[x]
      BY <2>3, <3>2
    <3>4. \A x \in DOMAIN facts' : x \in DOMAIN facts \/ facts'[x] \in FirstIn(start, x)
      BY <2>1, <2>3, <3>1
    <3>5. quoted' \subseteq quoted \union Figures'
      <4>1. FactFigures(id, facts'[id]) \in {FactFigures(x, facts'[x]) : x \in DOMAIN facts'}
        BY <2>3
      <4>2. FactFigures(id, first) \subseteq Figures'
        BY <2>3, <4>1, Zenon DEF Figures
      <4> QED  BY <2>1, <4>2
    <3> QED  BY <1>0, <2>2, <3>3, <3>4, <3>5, QuotedStays
  <2> QED  BY <2>5, <2>6
<1>6. CASE ReadSecond
  <2>0. PICK key : key = [ticker |-> Ticker, name |-> Metric, year |-> year]
    OBVIOUS
  <2>1. UNCHANGED <<held, start, facts, quoted>> /\ step = "second" /\ step' # "idle"
    BY <1>6 DEF ReadSecond, NextMetric
  <2>2. UNCHANGED derived \/ \E v : derived' = Put(derived, key, v)
    BY <1>6, <2>0 DEF ReadSecond
  <2>3. tickers \in Seq(Tickers) /\ tickers # <<>> /\ metrics \in Seq(Metrics \union DerivedNames) /\ metrics # <<>>
    BY <2>1 DEF ToolInv, ToolTypeOK, StepReady, IsDerived
  <2>4. 1 \in 1..Len(tickers) /\ tickers[1] = key.ticker /\ 1 \in 1..Len(metrics) /\ metrics[1] = key.name
    BY <2>0, <2>3 DEF Ticker, Metric
  <2>5. key \notin DOMAIN derived
    BY <2>1, <2>4 DEF KeyInv, KeysBehind, Behind
  <2>6. \A d \in DOMAIN derived : d \in DOMAIN derived' /\ derived'[d] = derived[d]
    BY <2>2, <2>5 DEF Put
  <2> QED  BY <1>0, <2>1, <2>6, QuotedStays
<1>7. CASE StateDerived
  <2>0. PICK key : key = [ticker |-> Ticker, name |-> Metric, year |-> year]
    OBVIOUS
  <2>1. /\ UNCHANGED <<held, start, facts, derived>> /\ step = "input" /\ step' # "idle"
        /\ quoted' = quoted \union {DerivedFigure(key)}
    BY <1>7, <2>0 DEF StateDerived, NextMetric
  <2>2. key \in DOMAIN derived
    BY <2>0, <2>1 DEF KeyInv, Stating, ToolInv, StepReady
  <2>3. DerivedFigure(key) \in Figures
    BY <2>2, DerivedIsFigure
  <2>4. Figures \subseteq Figures'
    BY <2>1, FiguresGrow
  <2> QED  BY <1>0, <2>1, <2>3, <2>4, QuotedStays
<1> QED  BY <1>1, <1>3, <1>4, <1>5, <1>6, <1>7 DEF ToolNext, ToolStep

\* A figure the findings state is one of the evidence, unless the original of a
\* fact in evidence moved while the tool read.
LEMMA FindingsSourced == ToolSpec => [](SomeMoved \/ quoted \subseteq Figures)
<1>1. ToolInit => KeyInv /\ QuotedInv
  <2>1. ToolInit => KeyInv
    BY DEF ToolInit, KeyInv, NamedOnce, InMetrics, KeysBehind, Stating, IsInjective
  <2>2. ToolInit => QuotedInv
    BY DEF ToolInit, QuotedInv, SettledFacts
  <2> QED  BY <2>1, <2>2
<1>2. QuotedInv => SomeMoved \/ quoted \subseteq Figures
  BY DEF QuotedInv
<1> QED  BY <1>1, <1>2, KeyStep, QuotedStep, ToolInvariant, PTL DEF ToolSpec

-----------------------------------------------------------------------------
(* The graph                                                               *)

\* A step of the graph is a step of the tool, or none of its business.
LEMMA GraphStepIsToolStep == [Next]_vars => [ToolNext]_<<held, toolVars>>
<1> SUFFICES ASSUME [Next]_vars PROVE [ToolNext]_<<held, toolVars>>
  OBVIOUS
<1>1. CASE StartFundamentals
  BY <1>1 DEF StartFundamentals, ToolNext
<1>2. CASE FundamentalsStep
  BY <1>2 DEF FundamentalsStep, ToolNext
<1>3. CASE FundamentalsReturns
  BY <1>3 DEF FundamentalsReturns, ToolNext
<1>4. CASE Landing
  BY <1>4 DEF Landing, ToolNext
<1>5. CASE Route \/ ToSynthesis \/ Raises
  BY <1>5 DEF Route, ToSynthesis, Raises
<1>6. CASE FilingSearch
  BY <1>6 DEF FilingSearch
<1>7. CASE \E tool \in RiskTools : RiskTool(tool)
  BY <1>7 DEF RiskTool
<1>8. CASE \E tool \in Tools \ {"filing_search"} : NeedsCompany(tool)
  BY <1>8 DEF NeedsCompany
<1>9. CASE Template \/ Draft
  BY <1>9 DEF Template, Draft
<1>10. CASE Over \/ UNCHANGED vars
  BY <1>10 DEF Over, vars
<1> QED
  BY <1>1, <1>2, <1>3, <1>4, <1>5, <1>6, <1>7, <1>8, <1>9, <1>10 DEF Next, GraphStep

\* The graph runs run_fundamentals as Fundamentals specifies it.
THEOREM RunsTheTool == Spec => ToolSpec
<1>1. Init => ToolInit
  BY DEF Init
<1> QED  BY <1>1, GraphStepIsToolStep, PTL DEF Spec, ToolSpec

\* The inductive invariant of the tool holds throughout a question.
THEOREM GraphInvariant == Spec => []ToolInv
  BY RunsTheTool, ToolInvariant, PTL

\* As of a date, no evidence of the fundamentals tool was filed after it: not the
\* fact, not an input of a derived metric, not an original that was restated.
THEOREM NoFutureEvidence == Spec => []NoLookAhead
  BY GraphInvariant, SoundInTime, PTL

\* Whatever lands while a question is answered, no fact it cites had been
\* restated when the tool started.
THEOREM NoStaleEvidence == Spec => []CitesNothingStale
  BY GraphInvariant, SoundCurrent, PTL

\* An answer as of a date is not changed by a filing of a later date.
THEOREM PointInTime == Spec => AsOfStable
<1>1. [Next]_vars =>
        [\A f \in held' \ held, d \in Dates : FiledOn[f] > d =>
           \A t \in Tickers, m \in Metrics :
             /\ LatestYear(held', t, m, d) = LatestYear(held, t, m, d)
             /\ \A y \in YearsSeen(held', t, m, NoDate) : Get(held', t, m, y, d) = Get(held, t, m, y, d)]_held
  BY GraphStepIsToolStep, StepKeepsAnswers
<1> QED  BY <1>1, PTL DEF Spec, AsOfStable
\* A gap the tool reports is one of the store it started with.
THEOREM NoFalseGapAnswered == Spec => []GapsAreReal
  BY RunsTheTool, NoFalseGap, PTL

\* The inputs of a derived metric that is cited are evidence too.
THEOREM InputsReachTheAnswer == Spec => []InputsCited
  BY RunsTheTool, InputsAreEvidence, PTL

-----------------------------------------------------------------------------
(* The answer                                                              *)

\* An answer that was not cut carries the verdict on what it states, and one
\* that failed is the findings themselves.
AnswerInv ==
  node = "answered" /\ ~cut =>
    /\ status = Verdict(answer)
    /\ status = "failed" => (mock \/ fallback) /\ answer = Findings

AnswerBasis == <<facts, derived, quoted, passages, measured>>

LEMMA AnswerIsJudged ==
  ASSUME UNCHANGED AnswerBasis, NEW a, cut' \/ (answer' = a /\ status' = Verdict(a)),
         Verdict(a) # "failed" \/ ((mock' \/ fallback') /\ a = Findings)
  PROVE  AnswerInv'
<1>1. UNCHANGED <<Evidence, Findings>>
  BY DEF AnswerBasis, Evidence, Findings, Figures, OtherFigures, DerivedFigure
<1>2. CASE cut'
  BY <1>2 DEF AnswerInv
<1>3. CASE ~cut'
  <2>1. answer' = a /\ status' = Verdict(a)
    BY <1>3
  <2>2. Verdict(answer)' = Verdict(a)
    BY <1>1, <2>1 DEF Verdict
  <2>3. status' = "failed" => (mock' \/ fallback') /\ a = Findings
    BY <2>1
  <2> QED  BY <1>1, <2>1, <2>2, <2>3, Zenon DEF AnswerInv
<1> QED  BY <1>2, <1>3

LEMMA AnswerStep == AnswerInv /\ [Next]_vars => AnswerInv'
<1> SUFFICES ASSUME AnswerInv, [Next]_vars PROVE AnswerInv'
  OBVIOUS
<1>0. PICK findings : findings = Findings
  OBVIOUS
<1>1. CASE Template
  <2>1. UNCHANGED AnswerBasis
    BY <1>1 DEF Template, toolVars, AnswerBasis
  <2>2. mock'
    BY <1>1, Zenon DEF Template
  <2>3. cut' \/ (answer' = findings /\ status' = Verdict(findings))
    BY <1>0, <1>1, Zenon DEF Template, Answer
  <2> QED  BY <1>0, <2>1, <2>2, <2>3, AnswerIsJudged
<1>2. CASE Draft
  <2>1. UNCHANGED AnswerBasis /\ node = "synthesize"
    BY <1>2 DEF Draft, toolVars, AnswerBasis
  <2>2. CASE UNCHANGED node
    BY <2>1, <2>2 DEF AnswerInv
  <2>3. ASSUME NEW a, Accepts(a), Answer(a, FALSE) PROVE AnswerInv'
    <3>1. cut' \/ (answer' = a /\ status' = Verdict(a))
      BY <2>3, Zenon DEF Answer
    <3> QED  BY <2>1, <2>3, <3>1, AnswerIsJudged DEF Accepts
  <2>4. CASE Answer(Findings, TRUE)
    <3>1. cut' \/ (answer' = findings /\ status' = Verdict(findings))
      BY <1>0, <2>4, Zenon DEF Answer
    <3>2. fallback'
      BY <2>4, Zenon DEF Answer
    <3> QED  BY <1>0, <2>1, <3>1, <3>2, AnswerIsJudged
  <2> QED  BY <1>2, <2>2, <2>3, <2>4, Zenon DEF Draft
<1>3. CASE Over \/ UNCHANGED vars
  <2>1. UNCHANGED <<node, cut, status, answer, mock, fallback, Evidence, Findings>>
    BY <1>3 DEF Over, vars, toolVars, graphVars, Evidence, Findings, Figures, OtherFigures, DerivedFigure
  <2>2. UNCHANGED Verdict(answer)
    BY <2>1 DEF Verdict
  <2> QED  BY <2>1, <2>2 DEF AnswerInv
<1>4. CASE node' # "answered"
  BY <1>4 DEF AnswerInv
<1>5. CASE Route \/ StartFundamentals \/ FundamentalsStep \/ FundamentalsReturns \/ FilingSearch
  BY <1>4, <1>5 DEF Route, StartFundamentals, FundamentalsStep, FundamentalsReturns, FilingSearch, At,
                    graphVars
<1>6. CASE Landing
  BY <1>4, <1>6 DEF Landing, At, graphVars
<1>7. CASE \E tool \in RiskTools : RiskTool(tool)
  BY <1>4, <1>7 DEF RiskTool, At
<1>8. CASE \E tool \in Tools \ {"filing_search"} : NeedsCompany(tool)
  BY <1>4, <1>8 DEF NeedsCompany, At
<1>9. CASE ToSynthesis \/ Raises
  BY <1>4, <1>9 DEF ToSynthesis, Raises
<1> QED
  BY <1>1, <1>2, <1>3, <1>5, <1>6, <1>7, <1>8, <1>9 DEF Next, GraphStep

\* A figure the caller reads is one of the evidence, but for a findings answer
\* reported as failed, where the original of a restated fact moved while the
\* tool read.
THEOREM NoUnsourcedFigure == Spec => []OnlySourcedFigures
<1>1. Init => AnswerInv
  BY DEF Init, AnswerInv
<1>2. AnswerInv /\ (SomeMoved \/ quoted \subseteq Figures) => OnlySourcedFigures
  <2> SUFFICES ASSUME AnswerInv, SomeMoved \/ quoted \subseteq Figures,
                      node = "answered", ~cut, ~(answer \subseteq Evidence)
               PROVE  status = "failed" /\ (mock \/ fallback) /\ answer = Findings /\ SomeMoved
    BY DEF OnlySourcedFigures, SomeMoved
  <2>1. status = "failed" /\ (mock \/ fallback) /\ answer = Findings
    BY DEF AnswerInv, Verdict
  <2>2. ~(quoted \subseteq Figures)
    BY <2>1 DEF Findings, Evidence
  <2> QED  BY <2>1, <2>2
<1>3. Spec => [](SomeMoved \/ quoted \subseteq Figures)
  BY RunsTheTool, FindingsSourced, PTL
<1> QED  BY <1>1, <1>2, <1>3, AnswerStep, PTL DEF Spec
-----------------------------------------------------------------------------
(* The search                                                              *)

\* A choice of at least one from what is not empty is not empty.
LEMMA TopNotEmpty ==
  ASSUME NEW S, IsFiniteSet(S), S # {}, NEW n \in Nat \ {0}, NEW T \in Top(S, n)
  PROVE  T \subseteq S /\ T # {} /\ IsFiniteSet(T)
<1> DEFINE k == IF n <= Cardinality(S) THEN n ELSE Cardinality(S)
<1>1. Cardinality(S) \in Nat /\ Cardinality(S) # 0
  BY FS_CardinalityType, FS_EmptySet
<1>2. T \subseteq S /\ Cardinality(T) = k
  BY DEF Top, kSubset
<1>3. T # {}
  BY <1>1, <1>2, FS_EmptySet
<1> QED  BY <1>2, <1>3, FS_Subset

LEMMA DistinctNotEmpty ==
  ASSUME NEW S, S # {}, NEW D \in Distinct(S)
  PROVE  D \subseteq S /\ D # {}
<1>1. D \subseteq S
  BY DEF Distinct
<1>2. PICK p \in S : TRUE
  OBVIOUS
<1>3. Cardinality({q \in D : PassageOf[q].text = PassageOf[p].text}) = 1
  BY <1>2 DEF Distinct
<1>4. {q \in D : PassageOf[q].text = PassageOf[p].text} # {}
  BY <1>3, FS_EmptySet
<1> QED  BY <1>1, <1>4

\* A company that has a passage to offer is among its own hits.
LEMMA HitsFound ==
  ASSUME NEW scope, Ranked(scope) # {}, NEW H \in Hits(scope)
  PROVE  H \subseteq Ranked(scope) /\ H # {}
<1>1. PerScope \in Nat \ {0} /\ 2 * PerScope \in Nat \ {0}
  BY GraphAssumption DEF PerScope
<1>2. IsFiniteSet(Ranked(scope))
  <2>1. Ranked(scope) \subseteq Passages
    BY DEF Ranked
  <2> QED  BY <2>1, GraphAssumption, FS_Subset
<1>3. PICK S \in Top(Ranked(scope), 2 * PerScope) : \E D \in Distinct(S) : H \in Top(D, PerScope)
  BY DEF Hits
<1>0. PICK D \in Distinct(S) : H \in Top(D, PerScope)
  BY <1>3
<1>4. S \subseteq Ranked(scope) /\ S # {} /\ IsFiniteSet(S)
  BY <1>1, <1>2, <1>3, TopNotEmpty
<1>5. D \subseteq S /\ D # {} /\ IsFiniteSet(D)
  BY <1>0, <1>4, DistinctNotEmpty, FS_Subset
<1>6. H \subseteq D /\ H # {}
  BY <1>0, <1>1, <1>5, TopNotEmpty
<1> QED  BY <1>4, <1>5, <1>6

SearchInv == ran \in Seq(Tools) /\ NamedCompaniesFound

\* A tool other than the search takes nothing away from what it found.
LEMMA SearchStays ==
  ASSUME SearchInv, UNCHANGED <<request, mock, passages>>,
         UNCHANGED ran \/ \E tool \in Tools \ {"filing_search"} : ran' = Append(ran, tool)
  PROVE  SearchInv'
<1>1. ran' \in Seq(Tools)
  BY DEF SearchInv
<1>2. \A i \in DOMAIN ran' : ran'[i] = "filing_search" => i \in DOMAIN ran /\ ran[i] = "filing_search"
  BY DEF SearchInv
<1>3. \A scope : Ranked(scope)' = Ranked(scope)
  BY DEF Ranked
<1> QED  BY <1>1, <1>2, <1>3 DEF SearchInv, NamedCompaniesFound

LEMMA SearchStep == ToolInv /\ SearchInv /\ [Next]_vars => SearchInv'
<1> SUFFICES ASSUME ToolInv, SearchInv, [Next]_vars PROVE SearchInv'
  OBVIOUS
<1>1. CASE FilingSearch
  <2>1. PICK found \in [Scopes -> SUBSET Passages] :
          /\ \A scope \in Scopes : found[scope] \in Hits(scope)
          /\ passages' = UNION {found[scope] : scope \in Scopes}
    BY <1>1 DEF FilingSearch
  <2>2. UNCHANGED <<request, mock>> /\ ran' = Append(ran, "filing_search")
    BY <1>1 DEF FilingSearch, Ran, toolVars
  <2>3. ran' \in Seq(Tools)
    BY <2>2 DEF SearchInv, Tools
  <2>4. ASSUME NEW j \in DOMAIN request.tickers, Ranked({request.tickers[j]}) # {}
        PROVE  \E p \in passages' : PassageOf[p].ticker = request.tickers[j]
    <3>1. request.tickers \in Seq(Tickers)
      BY ToolAssumption DEF ToolInv, ToolTypeOK, RequestType
    <3>2. request.tickers # <<>>
      BY <2>4, <3>1
    <3>3. PICK scope \in Scopes : scope = {request.tickers[j]}
      BY <2>4, <3>2 DEF Scopes
    <3>4. found[scope] \subseteq Ranked(scope) /\ found[scope] # {}
      BY <2>1, <2>4, <3>3, HitsFound
    <3>5. PICK p \in found[scope] : p \in Ranked(scope)
      BY <3>4
    <3>6. PassageOf[p].ticker = request.tickers[j]
      BY <3>3, <3>5 DEF Ranked
    <3> QED  BY <2>1, <3>5, <3>6
  <2>5. \A scope : Ranked(scope)' = Ranked(scope)
    BY <2>2 DEF Ranked
  <2> QED  BY <2>2, <2>3, <2>4, <2>5 DEF SearchInv, NamedCompaniesFound
<1>2. CASE Route \/ StartFundamentals \/ FundamentalsReturns \/ ToSynthesis \/ Raises \/ Template \/ Draft
  <2>1. UNCHANGED <<request, mock, passages>>
    BY <1>2 DEF Route, StartFundamentals, FundamentalsReturns, ToSynthesis, Raises, Template, Draft, Start,
                Return, toolVars, graphVars
  <2>2. UNCHANGED ran \/ ran' = Append(ran, "fundamentals")
    BY <1>2 DEF Route, StartFundamentals, FundamentalsReturns, ToSynthesis, Raises, Template, Draft, Ran,
                graphVars
  <2> QED  BY <2>1, <2>2, SearchStays DEF Tools
<1>3. CASE FundamentalsStep
  <2>1. UNCHANGED graphVars
    BY <1>3 DEF FundamentalsStep
  <2>2. UNCHANGED request
    BY <1>3 DEF FundamentalsStep, ToolStep, Company, YearByIncome, CompanyDone, ReadFact, Versions,
                ReadFirst, ReadSecond, ReadInput, StateDerived
  <2> QED  BY <2>1, <2>2, SearchStays DEF graphVars
<1>4. CASE Landing
  BY <1>4, SearchStays DEF Landing, Land, toolVars, graphVars
<1>5. CASE \E tool \in RiskTools : RiskTool(tool)
  <2>1. PICK tool \in RiskTools : RiskTool(tool)
    BY <1>5
  <2>2. UNCHANGED <<request, mock, passages>> /\ ran' = Append(ran, tool)
    BY <2>1 DEF RiskTool, Ran, toolVars
  <2> QED  BY <2>2, SearchStays DEF Tools, RiskTools
<1>6. CASE \E tool \in Tools \ {"filing_search"} : NeedsCompany(tool)
  BY <1>6, SearchStays DEF NeedsCompany, Skip, toolVars
<1>7. CASE Over \/ UNCHANGED vars
  BY <1>7, SearchStays DEF Over, vars, toolVars, graphVars
<1> QED  BY <1>1, <1>2, <1>3, <1>4, <1>5, <1>6, <1>7 DEF Next, GraphStep

\* Every company that was named and has a passage to offer has one in the
\* evidence once the search has run.
THEOREM EveryCompanyFound == Spec => []NamedCompaniesFound
<1>1. Init => SearchInv
  BY DEF Init, SearchInv, NamedCompaniesFound
<1>2. SearchInv => NamedCompaniesFound
  BY DEF SearchInv
<1> QED  BY <1>1, <1>2, SearchStep, GraphInvariant, PTL DEF Spec
-----------------------------------------------------------------------------
(* The queue of tools                                                      *)

LEMMA HeadOfQueue ==
  ASSUME NEW S \in SUBSET Tools, Queue(S) # <<>>
  PROVE  Head(Queue(S)) \in S
BY DEF Queue, Turn, ToolOrder, Tools, RiskTools

LEMMA EmptyQueue ==
  ASSUME NEW S \in SUBSET Tools
  PROVE  Queue(S) = <<>> <=> S = {}
BY DEF Queue, Turn, ToolOrder, Tools, RiskTools

LEMMA QueueType ==
  ASSUME NEW S \in SUBSET Tools
  PROVE  Queue(S) \in Seq(Tools)
<1>1. ASSUME NEW i \in 1..4 PROVE Turn(i, S) \in Seq(Tools)
  BY DEF Turn
<1> QED BY <1>1 DEF Queue

\* The tool at the head comes before the others in the fixed order.
LEMMA FirstOfQueue ==
  ASSUME NEW S \in SUBSET Tools, NEW i \in 1..4, Queue(S) # <<>>, Head(Queue(S)) = ToolOrder[i]
  PROVE  \A j \in 1..4 : ToolOrder[j] \in S => i <= j
BY DEF Queue, Turn, ToolOrder, Tools, RiskTools

\* Taking the head off leaves the queue of the others.
LEMMA TailOfQueue ==
  ASSUME NEW S \in SUBSET Tools, Queue(S) # <<>>
  PROVE  Tail(Queue(S)) = Queue(S \ {Head(Queue(S))})
<1>1. CASE "fundamentals" \in S
  BY <1>1 DEF Queue, Turn, ToolOrder, Tools, RiskTools
<1>2. CASE "fundamentals" \notin S /\ "filing_search" \in S
  BY <1>2 DEF Queue, Turn, ToolOrder, Tools, RiskTools
<1>3. ASSUME NEW x \in Tools, NEW s \in Seq(Tools)
      PROVE  Head(<<x>> \o s) = x /\ Tail(<<x>> \o s) = s /\ <<>> \o s = s /\ s \o <<>> = s
  OBVIOUS
<1>4. CASE {"fundamentals", "filing_search"} \intersect S = {} /\ "market_risk" \in S
  <2> DEFINE rest == S \ {"market_risk"}
  <2>1. /\ Turn(1, S) = <<>> /\ Turn(2, S) = <<>> /\ Turn(3, S) = <<"market_risk">>
        /\ Turn(1, rest) = <<>> /\ Turn(2, rest) = <<>> /\ Turn(3, rest) = <<>> /\ Turn(4, rest) = Turn(4, S)
    BY <1>4 DEF Turn, ToolOrder
  <2>2. Turn(4, S) \in Seq(Tools) /\ <<"market_risk">> \in Seq(Tools) /\ <<>> \in Seq(Tools) /\ "market_risk" \in Tools
    <3>1. "market_risk" \in Tools
      BY DEF Tools, RiskTools
    <3>2. Turn(4, S) \in Seq(Tools)
      BY DEF Turn
    <3> QED BY <3>1, <3>2
  <2>3. Queue(S) = <<"market_risk">> \o Turn(4, S) /\ Queue(rest) = Turn(4, S)
    <3>1. <<>> \o <<>> = <<>> /\ <<>> \o <<"market_risk">> = <<"market_risk">> /\ <<>> \o Turn(4, S) = Turn(4, S)
      BY <1>3, <2>2
    <3> QED BY <2>1, <3>1, ZenonT(30) DEF Queue
  <2> QED BY <1>3, <2>2, <2>3, Zenon
<1>5. CASE S \subseteq {"pretrade_check"}
  <2>1. S = {"pretrade_check"} /\ Queue({}) = <<>>
    BY <1>5, EmptyQueue
  <2>2. Turn(1, S) = <<>> /\ Turn(2, S) = <<>> /\ Turn(3, S) = <<>> /\ Turn(4, S) = <<"pretrade_check">>
    BY <2>1 DEF Turn, ToolOrder
  <2>3. "pretrade_check" \in Tools /\ <<>> \in Seq(Tools) /\ <<"pretrade_check">> \in Seq(Tools)
    BY DEF Tools, RiskTools
  <2>4. Queue(S) = <<"pretrade_check">> \o <<>>
    <3>1. <<>> \o <<>> = <<>> /\ <<>> \o <<"pretrade_check">> = <<"pretrade_check">>
          /\ <<"pretrade_check">> \o <<>> = <<"pretrade_check">>
      BY <1>3, <2>3
    <3> QED BY <2>2, <3>1, Zenon DEF Queue
  <2>5. S \ {"pretrade_check"} = {}
    BY <2>1
  <2> QED BY <1>3, <2>1, <2>3, <2>4, <2>5, Zenon
<1> QED BY <1>1, <1>2, <1>4, <1>5 DEF Tools, RiskTools

\* A tool later in the fixed order joins the queue at its end.
LEMMA AppendToQueue ==
  ASSUME NEW S \in SUBSET Tools, NEW i \in 1..4, \A j \in 1..4 : ToolOrder[j] \in S => j < i
  PROVE  Append(Queue(S), ToolOrder[i]) = Queue(S \union {ToolOrder[i]})
BY DEF Queue, Turn, ToolOrder, Tools, RiskTools

\* The tools still to take their turn are the last of those chosen, in order;
\* the others have run, in order, or left a gap.
TurnsInv(left) ==
  /\ left \subseteq routed
  /\ skipped \subseteq routed \ left
  /\ pending = Queue(left)
  /\ ran = Queue((routed \ left) \ skipped)
  /\ \A i, j \in 1..4 : ToolOrder[i] \in routed \ left /\ ToolOrder[j] \in left => i < j

QueueInv ==
  /\ routed \subseteq Tools
  /\ node = "route" => routed = {}
  /\ node \in {"synthesize", "answered"} => pending = <<>>
  /\ \E left \in SUBSET Tools : TurnsInv(left)

\* The tool at the head of the queue leaves evidence or a gap.
LEMMA TakesTurn ==
  ASSUME QueueInv, NEW tool, At(tool), Ran(tool) \/ Skip(tool), UNCHANGED <<node, routed>>
  PROVE  QueueInv'
<1>1. PICK left \in SUBSET Tools : TurnsInv(left)
  BY DEF QueueInv
<1>2. Queue(left) # <<>> /\ Head(Queue(left)) = tool /\ node = "tools"
  BY <1>1 DEF At, TurnsInv
<1>3. tool \in left
  BY <1>2, HeadOfQueue
<1>4. PICK i \in 1..4 : tool = ToolOrder[i]
  BY <1>3 DEF Tools, RiskTools, ToolOrder
<1> DEFINE rest == left \ {tool}
<1>5. rest \in SUBSET Tools /\ rest \subseteq routed /\ routed \subseteq Tools
  BY <1>1 DEF TurnsInv, QueueInv
<1>6. pending' = Queue(rest)
  <2>1. pending' = Tail(Queue(left))
    BY <1>1 DEF Ran, Skip, Pop, TurnsInv
  <2> QED BY <1>2, <2>1, TailOfQueue
<1>7. \A m, n \in 1..4 : ToolOrder[m] \in routed \ rest /\ ToolOrder[n] \in rest => m < n
  <2>1. \A n \in 1..4 : ToolOrder[n] \in left => i <= n
    BY <1>2, <1>4, FirstOfQueue
  <2>2. \A m \in 1..4 : ToolOrder[m] = tool => m = i
    BY <1>4 DEF ToolOrder
  <2>3. \A m, n \in 1..4 : ToolOrder[m] \in routed \ left /\ ToolOrder[n] \in left => m < n
    BY <1>1 DEF TurnsInv
  <2> QED BY <1>4, <2>1, <2>2, <2>3
<1>8. CASE Ran(tool)
  <2> DEFINE done == (routed \ left) \ skipped
  <2>1. \A j \in 1..4 : ToolOrder[j] \in done => j < i
    BY <1>1, <1>3, <1>4 DEF TurnsInv
  <2>2. ran' = Append(Queue(done), tool) /\ skipped' = skipped
    BY <1>1, <1>8 DEF Ran, TurnsInv
  <2>3. ran' = Queue(done \union {tool})
    BY <1>4, <1>5, <2>1, <2>2, AppendToQueue
  <2>4. done \union {tool} = (routed \ rest) \ skipped
    BY <1>1, <1>3 DEF TurnsInv
  <2>5. TurnsInv(rest)'
    BY <1>1, <1>5, <1>6, <1>7, <2>2, <2>3, <2>4 DEF TurnsInv
  <2> QED BY <1>2, <1>5, <2>5 DEF QueueInv
<1>9. CASE Skip(tool)
  <2>1. ran' = ran /\ skipped' = skipped \union {tool}
    BY <1>9 DEF Skip
  <2>2. (routed \ rest) \ skipped' = (routed \ left) \ skipped
    BY <1>1, <1>3, <2>1 DEF TurnsInv
  <2>3. TurnsInv(rest)'
    BY <1>1, <1>3, <1>5, <1>6, <1>7, <2>1, <2>2 DEF TurnsInv
  <2> QED BY <1>2, <1>5, <2>3 DEF QueueInv
<1> QED BY <1>8, <1>9

LEMMA QueueStep == QueueInv /\ [Next]_vars => QueueInv'
<1> SUFFICES ASSUME QueueInv, [Next]_vars PROVE QueueInv'
  OBVIOUS
<1>1. CASE Route
  <2>1. PICK tools \in SUBSET Tools : routed' = tools /\ pending' = Queue(tools)
    BY <1>1 DEF Route, Default, Tools
  <2>2. ran' = ran /\ skipped' = skipped /\ node' = "tools" /\ routed = {}
    BY <1>1 DEF Route, QueueInv
  <2>3. ran' = Queue({}) /\ skipped' = {}
    <3>1. PICK left \in SUBSET Tools : TurnsInv(left)
      BY DEF QueueInv
    <3>2. skipped = {} /\ (routed \ left) \ skipped = {}
      BY <2>2, <3>1 DEF TurnsInv
    <3> QED BY <2>2, <3>1, <3>2 DEF TurnsInv
  <2>4. TurnsInv(tools)'
    <3>1. (tools \ tools) \ {} = {}
      OBVIOUS
    <3> QED BY <2>1, <2>3, <3>1 DEF TurnsInv
  <2> QED BY <2>1, <2>2, <2>4 DEF QueueInv
<1>2. CASE FundamentalsReturns
  BY <1>2, TakesTurn DEF FundamentalsReturns
<1>3. CASE FilingSearch
  BY <1>3, TakesTurn DEF FilingSearch
<1>4. CASE \E tool \in RiskTools : RiskTool(tool)
  BY <1>4, TakesTurn DEF RiskTool
<1>5. CASE \E tool \in Tools \ {"filing_search"} : NeedsCompany(tool)
  BY <1>5, TakesTurn DEF NeedsCompany
<1>6. CASE /\ UNCHANGED <<pending, routed, ran, skipped>>
           /\ node' = "route" => node = "route"
           /\ node' \in {"synthesize", "answered"} => pending = <<>>
  BY <1>6 DEF QueueInv, TurnsInv
<1>7. CASE ToSynthesis \/ Raises
  BY <1>6, <1>7 DEF ToSynthesis, Raises
<1>8. CASE Template \/ Draft
  <2>1. UNCHANGED <<pending, routed, ran, skipped>> /\ node = "synthesize" /\ node' \in {node, "answered"}
    BY <1>8 DEF Template, Draft, Answer
  <2> QED BY <1>6, <2>1 DEF QueueInv
<1>9. CASE StartFundamentals \/ FundamentalsStep \/ Landing \/ Over \/ UNCHANGED vars
  <2>1. UNCHANGED <<pending, routed, ran, skipped, node>>
    BY <1>9 DEF StartFundamentals, FundamentalsStep, Landing, Over, vars, graphVars
  <2> QED BY <1>6, <2>1 DEF QueueInv
<1> QED
  BY <1>1, <1>2, <1>3, <1>4, <1>5, <1>7, <1>8, <1>9 DEF Next, GraphStep

LEMMA QueueInvariant == Spec => []QueueInv
<1>1. Init => QueueInv
  <2> SUFFICES ASSUME Init PROVE QueueInv
    OBVIOUS
  <2>1. Queue({}) = <<>> /\ ({} \ {}) \ {} = {}
    BY EmptyQueue
  <2>2. TurnsInv({})
    BY <2>1 DEF Init, TurnsInv
  <2> QED BY <2>2 DEF Init, QueueInv
<1> QED BY <1>1, QueueStep, PTL DEF Spec

\* Whatever the router chose, each tool takes its turn once, in the fixed order,
\* and leaves evidence or a gap before the answer is written.
THEOREM EachToolOnce == Spec => []ToolsAccountedFor
<1>1. QueueInv => ToolsAccountedFor
  <2> SUFFICES ASSUME QueueInv, node \in {"synthesize", "answered"}
               PROVE  ran = Queue(routed \ skipped) /\ skipped \subseteq routed /\ pending = <<>>
    BY DEF ToolsAccountedFor
  <2>1. PICK left \in SUBSET Tools : TurnsInv(left)
    BY DEF QueueInv
  <2>2. left = {} /\ pending = <<>>
    BY <2>1, EmptyQueue DEF QueueInv, TurnsInv
  <2>3. (routed \ left) \ skipped = routed \ skipped
    BY <2>2
  <2> QED BY <2>1, <2>2, <2>3 DEF TurnsInv
<1> QED BY <1>1, QueueInvariant, PTL
-----------------------------------------------------------------------------
(* The types of the graph                                                  *)

\* What the queue says nothing of; a draft is asked for at most twice.
FlagsTypeOK ==
  /\ node \in Nodes /\ mock \in BOOLEAN /\ positioned \in BOOLEAN
  /\ passages \subseteq Passages /\ measured \subseteq RiskTools
  /\ status \in Statuses /\ fallback \in BOOLEAN /\ cut \in BOOLEAN
  /\ drafts \in 0..2
  /\ node \in {"route", "tools"} => drafts = 0
  /\ node = "synthesize" => drafts <= 1

LEMMA AnswerFlags ==
  ASSUME NEW a, NEW fell \in BOOLEAN, Answer(a, fell)
  PROVE  node' = "answered" /\ status' \in Statuses /\ fallback' \in BOOLEAN /\ cut' \in BOOLEAN
BY DEF Answer, Verdict, Statuses

LEMMA FlagsStep == FlagsTypeOK /\ [Next]_vars => FlagsTypeOK'
<1> SUFFICES ASSUME FlagsTypeOK, [Next]_vars PROVE FlagsTypeOK'
  OBVIOUS
<1> USE DEF FlagsTypeOK, Nodes
<1>1. CASE Route
  BY <1>1 DEF Route
<1>2. CASE FundamentalsReturns \/ ToSynthesis \/ Raises
  BY <1>2 DEF FundamentalsReturns, ToSynthesis, Raises, At
<1>3. CASE FilingSearch
  <2>1. passages' \subseteq Passages
    BY <1>3 DEF FilingSearch
  <2> QED BY <1>3, <2>1 DEF FilingSearch
<1>4. CASE \E tool \in RiskTools : RiskTool(tool)
  BY <1>4 DEF RiskTool
<1>5. CASE \E tool \in Tools \ {"filing_search"} : NeedsCompany(tool)
  BY <1>5 DEF NeedsCompany
<1>6. CASE Template
  BY <1>6, AnswerFlags DEF Template
<1>7. CASE Draft
  <2>1. node = "synthesize" /\ drafts' = drafts + 1
        /\ UNCHANGED <<mock, positioned, passages, measured>>
    BY <1>7 DEF Draft
  <2>2. CASE MayRetry /\ UNCHANGED <<node, status, fallback, answer, cut>>
    BY <2>1, <2>2 DEF MayRetry
  <2>3. ASSUME NEW a, NEW fell \in BOOLEAN, Answer(a, fell) PROVE FlagsTypeOK'
    BY <2>1, <2>3, AnswerFlags
  <2>4. \/ MayRetry /\ UNCHANGED <<node, status, fallback, answer, cut>>
        \/ \E a : Answer(a, FALSE)
        \/ Answer(Findings, TRUE)
    BY <1>7, Zenon DEF Draft
  <2> HIDE DEF FlagsTypeOK
  <2> QED BY <2>2, <2>3, <2>4, Zenon
<1>8. CASE StartFundamentals \/ FundamentalsStep \/ Landing \/ Over \/ UNCHANGED vars
  BY <1>8 DEF StartFundamentals, FundamentalsStep, Landing, Over, vars, graphVars
<1> QED
  BY <1>1, <1>2, <1>3, <1>4, <1>5, <1>6, <1>7, <1>8 DEF Next, GraphStep

LEMMA FlagsInit == Init => FlagsTypeOK
<1> SUFFICES ASSUME Init PROVE FlagsTypeOK
  OBVIOUS
<1>1. mock \in BOOLEAN /\ positioned \in BOOLEAN /\ fallback \in BOOLEAN /\ cut \in BOOLEAN
  BY Zenon DEF Init
<1>2. drafts = 0 /\ node = "route" /\ passages = {} /\ measured = {} /\ status = "none"
  BY DEF Init
<1> QED BY <1>1, <1>2 DEF FlagsTypeOK, Nodes, Statuses

\* Every variable of the graph has its type: no question costs more than two
\* drafts, and nothing but tools is queued.
THEOREM GraphTypeCorrect == Spec => []TypeOK
<1>1. Init => FlagsTypeOK
  BY FlagsInit
<1>2. ToolInv /\ QueueInv /\ FlagsTypeOK => TypeOK
  <2> SUFFICES ASSUME ToolInv, QueueInv, FlagsTypeOK PROVE TypeOK
    OBVIOUS
  <2>1. PICK left \in SUBSET Tools : TurnsInv(left)
    BY DEF QueueInv
  <2>2. pending \in Seq(Tools) /\ ran \in Seq(Tools) /\ skipped \subseteq Tools /\ routed \subseteq Tools
    BY <2>1, QueueType DEF TurnsInv, QueueInv
  <2> QED BY <2>2 DEF TypeOK, FlagsTypeOK, ToolInv
<1> QED BY <1>1, <1>2, FlagsStep, QueueInvariant, GraphInvariant, PTL DEF Spec
-----------------------------------------------------------------------------
(* The work of a question                                                  *)

\* The queries left: a company costs its fiscal year and its metrics, a derived
\* metric two queries and, for each input, another one and its versions.
PerCompany == 7 * Len(request.metrics) + 3

MetricsLeft ==
  CASE step = "metric" -> 7 * Len(metrics)
    [] step = "second" -> 7 * Len(metrics) - 1
    [] step = "input"  -> 7 * Len(metrics) - 6 + 2 * Len(inputs)
    [] OTHER           -> 7 * Len(metrics) - 5 + 2 * Len(inputs)

ToolLeft ==
  CASE step = "idle"    -> PerCompany * Len(request.tickers) + 2
    [] step = "company" -> PerCompany * Len(tickers) + 1
    [] step = "year"    -> PerCompany * Len(tickers)
    [] step = "done"    -> 0
    [] OTHER            -> PerCompany * (Len(tickers) - 1) + MetricsLeft + 2

\* The steps left to a question: its tools, a step to the synthesizer, two drafts.
StepsLeft ==
  CASE node = "route"      -> ToolLeft + 8
    [] node = "tools"      -> ToolLeft + Len(pending) + 3
    [] node = "synthesize" -> 2 - drafts
    [] OTHER               -> 0

\* Every step of the thread that answers leaves less to do, and a filing that
\* lands meanwhile adds nothing: a question ends after so many steps of its own.
BoundedWork ==
  [][/\ StepsLeft \in Nat
     /\ GraphStep => StepsLeft' < StepsLeft
     /\ Landing => StepsLeft' = StepsLeft]_vars

InputsShort == Len(inputs) <= 2

LEMMA InputsShortStep == ToolInv /\ InputsShort /\ [ToolNext]_<<held, toolVars>> => InputsShort'
<1> SUFFICES ASSUME ToolInv, InputsShort, [ToolNext]_<<held, toolVars>> PROVE InputsShort'
  OBVIOUS
<1>1. CASE ReadSecond
  <2>1. inputs' = inputs \/ Len(inputs') = 2
    BY <1>1 DEF ReadSecond, Lineage
  <2>2. 2 <= 2
    OBVIOUS
  <2> QED  BY <2>1, <2>2, Zenon DEF InputsShort
<1>2. CASE ReadInput
  <2>1. inputs \in Seq(FactIds) /\ inputs # <<>> /\ inputs' = Tail(inputs)
    BY <1>2 DEF ReadInput, NextInputs, ToolInv, ToolTypeOK
  <2> QED  BY <2>1, TailType DEF InputsShort
<1>3. CASE Start \/ Company \/ YearByIncome \/ CompanyDone \/ ReadFact \/ Versions \/ ReadFirst
           \/ StateDerived \/ Return
  BY <1>3 DEF Start, Company, YearByIncome, CompanyDone, ReadFact, Versions, ReadFirst, StateDerived,
              Return, InputsShort
<1>4. CASE (\E f \in Filings : Land(f)) \/ UNCHANGED <<held, toolVars>>
  BY <1>4 DEF Land, toolVars, InputsShort
<1> QED  BY <1>1, <1>2, <1>3, <1>4 DEF ToolNext, ToolStep

\* p for n is p more than p for all but one.
LEMMA OneLess ==
  ASSUME NEW p \in Nat, NEW n \in Nat
  PROVE  /\ p * n \in Nat
         /\ n # 0 => p * (n - 1) \in Nat /\ p * n = p * (n - 1) + p
OBVIOUS

\* The lengths a step changes.
LEMMA Lengths ==
  ASSUME ToolInv
  PROVE  /\ Len(request.metrics) \in Nat /\ Len(request.tickers) \in Nat
         /\ PerCompany \in Nat /\ PerCompany = 7 * Len(request.metrics) + 3
         /\ Len(tickers) \in Nat /\ (tickers # <<>> => Len(tickers) # 0 /\ Len(Tail(tickers)) = Len(tickers) - 1)
         /\ Len(metrics) \in Nat /\ (metrics # <<>> => Len(metrics) # 0 /\ Len(Tail(metrics)) = Len(metrics) - 1)
         /\ Len(inputs) \in Nat /\ (inputs # <<>> => Len(inputs) # 0 /\ Len(Tail(inputs)) = Len(inputs) - 1)
<1>1. /\ request.tickers \in Seq(Tickers) /\ request.metrics \in Seq(Metrics \union DerivedNames)
      /\ tickers \in Seq(Tickers) /\ metrics \in Seq(Metrics \union DerivedNames) /\ inputs \in Seq(FactIds)
  BY RequestParts DEF ToolInv, ToolTypeOK
<1> QED  BY <1>1, TailType DEF PerCompany

\* What the companies left cost, with and without the current one.
LEMMA CompaniesLeft ==
  ASSUME ToolInv
  PROVE  /\ PerCompany * Len(request.tickers) \in Nat /\ PerCompany * Len(tickers) \in Nat
         /\ tickers # <<>> => /\ PerCompany * (Len(tickers) - 1) \in Nat
                              /\ PerCompany * Len(tickers) = PerCompany * (Len(tickers) - 1) + PerCompany
<1>1. /\ PerCompany \in Nat /\ Len(request.tickers) \in Nat /\ Len(tickers) \in Nat
      /\ tickers # <<>> => Len(tickers) # 0
  BY Lengths, Zenon
<1> QED  BY <1>1, OneLess, Zenon

LEMMA ToolLeftType ==
  ASSUME ToolInv
  PROVE  ToolLeft \in Nat
<1>1. /\ PerCompany * Len(request.tickers) \in Nat /\ PerCompany * Len(tickers) \in Nat
      /\ tickers # <<>> => PerCompany * (Len(tickers) - 1) \in Nat
  BY CompaniesLeft
<1>2. step \in {"second", "input", "versions"} => Len(metrics) # 0
  BY Lengths DEF ToolInv, StepReady, IsDerived
<1>3. step \in {"metric", "second", "input", "versions"} => MetricsLeft \in Nat
  BY <1>2, Lengths DEF MetricsLeft
<1>4. step \in Steps /\ (step \in {"year", "metric", "second", "input", "versions"} => tickers # <<>>)
  BY DEF ToolInv, ToolTypeOK, StepReady
<1> QED  BY <1>1, <1>3, <1>4, SMTT(30) DEF ToolLeft, Steps

\* Each query of the tool leaves less of it.
LEMMA ToolWork ==
  ASSUME ToolInv, InputsShort, Start \/ ToolStep \/ Return
  PROVE  ToolLeft' < ToolLeft
<1> DEFINE p == PerCompany
           n == Len(tickers)
           all == p * n
           rest == p * (n - 1)
<1>0. PerCompany' = PerCompany
  BY DEF PerCompany, Start, ToolStep, Return, Company, YearByIncome, CompanyDone, ReadFact, Versions,
         ReadFirst, ReadSecond, ReadInput, StateDerived
<1>1. ToolLeft \in Nat
  BY ToolLeftType
<1>2. CASE Start
  <2>1. ToolLeft = PerCompany * Len(request.tickers) + 2 /\ ToolLeft' = PerCompany * Len(request.tickers) + 1
    BY <1>0, <1>2 DEF Start, ToolLeft
  <2> QED  BY <1>1, <2>1, CompaniesLeft
<1>3. CASE Return
  <2>1. ToolLeft = all + 1 /\ ToolLeft' = 0
    BY <1>3 DEF Return, ToolLeft
  <2> QED  BY <2>1, CompaniesLeft
<1>4. ASSUME tickers # <<>>, step \in {"company", "year"}, UNCHANGED tickers,
             step' = "metric", metrics' = request.metrics
      PROVE  ToolLeft' < ToolLeft
  <2>1. ToolLeft = all \/ ToolLeft = all + 1
    BY <1>4 DEF ToolLeft
  <2>2. ToolLeft' = rest + 7 * Len(request.metrics) + 2
    BY <1>0, <1>4 DEF ToolLeft, MetricsLeft
  <2> HIDE DEF p, n, all, rest
  <2>3. all = rest + p /\ rest \in Nat /\ p = 7 * Len(request.metrics) + 3
    BY <1>4, CompaniesLeft, Lengths, Zenon DEF p, n, all, rest
  <2> QED  BY <1>1, <2>1, <2>2, <2>3, Lengths
<1>5. CASE Company
  <2>1. CASE step' = "metric" /\ metrics' = request.metrics
    BY <1>4, <1>5, <2>1 DEF Company
  <2>2. CASE step' = "year"
    <3>1. ToolLeft = all + 1 /\ ToolLeft' = all
      BY <1>0, <1>5, <2>2 DEF Company, ToolLeft
    <3> QED  BY <3>1, CompaniesLeft
  <2> QED  BY <1>5, <2>1, <2>2 DEF Company, HaveYear
<1>6. ASSUME tickers # <<>>, step = "year" \/ (step = "metric" /\ metrics = <<>>), NextCompany
      PROVE  ToolLeft' < ToolLeft
  <2>1. ToolLeft' = rest + 1
    BY <1>0, <1>6, Lengths DEF NextCompany, ToolLeft
  <2>2. ToolLeft = all \/ ToolLeft = rest + 2
    <3>1. step = "metric" => MetricsLeft = 0
      BY <1>6 DEF MetricsLeft
    <3>2. rest \in Nat
      BY <1>6, CompaniesLeft
    <3> QED  BY <1>6, <3>1, <3>2 DEF ToolLeft
  <2> HIDE DEF p, n, all, rest
  <2>3. all = rest + p /\ rest \in Nat /\ p = 7 * Len(request.metrics) + 3
    BY <1>6, CompaniesLeft, Lengths, Zenon DEF p, n, all, rest
  <2> QED  BY <2>1, <2>2, <2>3, Lengths
<1>7. CASE YearByIncome
  <2>1. tickers # <<>> /\ step = "year"
    BY <1>7 DEF YearByIncome, ToolInv, StepReady
  <2> QED  BY <1>4, <1>6, <1>7, <2>1 DEF YearByIncome, HaveYear
<1>8. CASE CompanyDone
  <2>1. tickers # <<>>
    BY <1>8 DEF CompanyDone, ToolInv, StepReady
  <2> QED  BY <1>6, <1>8, <2>1 DEF CompanyDone
<1>9. ASSUME UNCHANGED tickers, step \in {"metric", "second", "input", "versions"},
             step' \in {"metric", "second", "input", "versions"}, MetricsLeft \in Int, MetricsLeft' \in Int,
             MetricsLeft' < MetricsLeft
      PROVE  ToolLeft' < ToolLeft
  <2>1. ToolLeft = rest + MetricsLeft + 2 /\ ToolLeft' = rest + MetricsLeft' + 2
    BY <1>0, <1>9 DEF ToolLeft
  <2>2. tickers # <<>>
    BY <1>9 DEF ToolInv, StepReady
  <2> HIDE DEF p, n, all, rest
  <2>3. rest \in Nat
    BY <2>2, CompaniesLeft DEF p, n, rest
  <2>4. MetricsLeft \in Int /\ MetricsLeft' \in Int /\ MetricsLeft' < MetricsLeft
    BY <1>9
  <2>5. \A a \in Nat, x, y \in Int : y < x => a + y + 2 < a + x + 2
    OBVIOUS
  <2> QED  BY <2>1, <2>3, <2>4, <2>5, Zenon
<1>10. CASE ReadFact \/ ReadFirst \/ ReadSecond \/ ReadInput \/ StateDerived \/ Versions
  <2> DEFINE Fewer == MetricsLeft \in Int /\ MetricsLeft' \in Int /\ MetricsLeft' < MetricsLeft
  <2>1. /\ UNCHANGED tickers /\ metrics # <<>>
        /\ step \in {"metric", "second", "input", "versions"} /\ step' \in {"metric", "second", "input", "versions"}
    BY <1>10 DEF ReadFact, ReadFirst, ReadSecond, ReadInput, StateDerived, Versions, NextMetric, IsDerived,
                 ToolInv, StepReady
  <2>2. /\ metrics \in Seq(Metrics \union DerivedNames) /\ inputs \in Seq(FactIds)
        /\ Len(metrics) \in Nat /\ Len(metrics) >= 1 /\ Len(Tail(metrics)) = Len(metrics) - 1
        /\ Len(inputs) \in Nat /\ Len(inputs) <= 2 /\ (inputs # <<>> => Len(inputs) # 0 /\ Len(Tail(inputs)) = Len(inputs) - 1)
    <3>1. metrics \in Seq(Metrics \union DerivedNames) /\ inputs \in Seq(FactIds)
      BY DEF ToolInv, ToolTypeOK
    <3>2. Len(inputs) \in Nat /\ Len(inputs) <= 2
      BY <3>1 DEF InputsShort
    <3>3. Len(metrics) \in Nat /\ Len(metrics) >= 1
      BY <2>1, <3>1
    <3>4. Len(Tail(metrics)) = Len(metrics) - 1
      BY <2>1, Lengths, Zenon
    <3>5. inputs # <<>> => Len(inputs) # 0 /\ Len(Tail(inputs)) = Len(inputs) - 1
      BY Lengths, Zenon
    <3> QED  BY <3>1, <3>2, <3>3, <3>4, <3>5, Zenon
  <2>3. ASSUME ReadFact PROVE Fewer
    <3>1. \/ step' = "metric" /\ metrics' = Tail(metrics)
          \/ step' = "versions" /\ metrics' = metrics /\ inputs' = inputs
      BY <2>3, Zenon DEF ReadFact, NextMetric
    <3>2. MetricsLeft = 7 * Len(metrics)
      BY <2>3 DEF ReadFact, MetricsLeft
    <3>3. MetricsLeft' = 7 * (Len(metrics) - 1) \/ MetricsLeft' = 7 * Len(metrics) - 5 + 2 * Len(inputs)
      BY <2>2, <3>1 DEF MetricsLeft
    <3> QED  BY <2>2, <3>2, <3>3
  <2>4. ASSUME ReadFirst PROVE Fewer
    BY <2>2, <2>4 DEF ReadFirst, MetricsLeft
  <2>5. ASSUME ReadSecond PROVE Fewer
    <3>1. \/ step' = "metric" /\ metrics' = Tail(metrics)
          \/ step' = "input" /\ metrics' = metrics /\ Len(inputs') = 2
      BY <2>5 DEF ReadSecond, NextMetric, Lineage
    <3>2. MetricsLeft = 7 * Len(metrics) - 1
      BY <2>5 DEF ReadSecond, MetricsLeft
    <3>3. MetricsLeft' = 7 * (Len(metrics) - 1) \/ MetricsLeft' = 7 * Len(metrics) - 6 + 2 * 2
      BY <2>2, <3>1 DEF MetricsLeft
    <3> QED  BY <2>2, <3>2, <3>3
  <2>6. ASSUME ReadInput PROVE Fewer
    <3>1. /\ metrics' = metrics /\ inputs # <<>> /\ inputs' = Tail(inputs) /\ step = "input"
          /\ step' = "versions" \/ step' = "input"
      BY <2>6 DEF ReadInput, NextInputs
    <3> QED  BY <2>2, <3>1 DEF MetricsLeft
  <2>7. ASSUME StateDerived PROVE Fewer
    BY <2>2, <2>7 DEF StateDerived, NextMetric, MetricsLeft
  <2>8. ASSUME Versions PROVE Fewer
    <3>1. /\ inputs' = inputs /\ step = "versions"
          /\ \/ step' = "metric" /\ metrics' = Tail(metrics)
             \/ step' = "input" /\ metrics' = metrics
      BY <2>8, Zenon DEF Versions, NextMetric
    <3> QED  BY <2>2, <3>1 DEF MetricsLeft
  <2>9. Fewer
    BY <1>10, <2>3, <2>4, <2>5, <2>6, <2>7, <2>8
  <2> QED  BY <1>9, <2>1, <2>9
<1> QED
  BY <1>2, <1>3, <1>5, <1>7, <1>8, <1>10 DEF ToolStep

LEMMA ShortQueue ==
  ASSUME NEW S \in SUBSET Tools
  PROVE  Len(Queue(S)) \in Nat /\ Len(Queue(S)) <= 4
<1>1. ASSUME NEW i \in 1..4 PROVE Turn(i, S) \in Seq(Tools) /\ Len(Turn(i, S)) <= 1
  BY DEF Turn
<1> QED BY <1>1 DEF Queue

LEMMA PendingType ==
  ASSUME QueueInv
  PROVE  pending \in Seq(Tools)
BY QueueType DEF QueueInv, TurnsInv

LEMMA StepsLeftType ==
  ASSUME ToolInv, QueueInv, FlagsTypeOK
  PROVE  StepsLeft \in Nat
<1>1. ToolLeft \in Nat /\ Len(pending) \in Nat
  BY ToolLeftType, PendingType
<1>2. node = "synthesize" => 2 - drafts \in Nat
  BY DEF FlagsTypeOK
<1> QED BY <1>1, <1>2 DEF StepsLeft

LEMMA ToolAtRest ==
  ASSUME UNCHANGED toolVars
  PROVE  ToolLeft' = ToolLeft
BY DEF toolVars, ToolLeft, MetricsLeft, PerCompany

LEMMA StepWork ==
  ASSUME ToolInv, InputsShort, QueueInv, FlagsTypeOK, GraphStep, ToolLeft' \in Nat
  PROVE  StepsLeft' < StepsLeft
<1>0. ToolLeft \in Nat /\ Len(pending) \in Nat /\ pending \in Seq(Tools)
  BY ToolLeftType, PendingType
<1>1. CASE Route
  <2>1. PICK S \in SUBSET Tools : pending' = Queue(S)
    BY <1>1 DEF Route, Default, Tools
  <2>2. Len(pending') \in Nat /\ Len(pending') <= 4
    BY <2>1, ShortQueue
  <2>3. node = "route" /\ node' = "tools" /\ ToolLeft' = ToolLeft
    BY <1>1, ToolAtRest DEF Route
  <2> QED BY <1>0, <2>2, <2>3 DEF StepsLeft
<1>2. CASE StartFundamentals \/ FundamentalsStep
  <2>1. node = "tools" /\ UNCHANGED <<node, pending>> /\ ToolLeft' < ToolLeft
    BY <1>2, ToolWork DEF StartFundamentals, FundamentalsStep, At, graphVars
  <2> QED BY <1>0, <2>1 DEF StepsLeft
<1>3. ASSUME NEW tool, At(tool), Ran(tool) \/ Skip(tool), UNCHANGED node, ToolLeft' <= ToolLeft
      PROVE  StepsLeft' < StepsLeft
  <2>1. node = "tools" /\ pending # <<>> /\ pending' = Tail(pending)
    BY <1>3 DEF At, Ran, Skip, Pop
  <2>2. Len(pending') = Len(pending) - 1
    BY <1>0, <2>1
  <2> QED BY <1>0, <1>3, <2>1, <2>2 DEF StepsLeft
<1>4. CASE FundamentalsReturns
  <2>1. ToolLeft' < ToolLeft
    BY <1>4, ToolWork DEF FundamentalsReturns
  <2> QED BY <1>0, <1>3, <1>4, <2>1 DEF FundamentalsReturns
<1>5. CASE \/ FilingSearch \/ \E tool \in RiskTools : RiskTool(tool)
           \/ \E tool \in Tools \ {"filing_search"} : NeedsCompany(tool)
  <2>1. ToolLeft' = ToolLeft
    BY <1>5, ToolAtRest DEF FilingSearch, RiskTool, NeedsCompany
  <2> QED BY <1>0, <1>3, <1>5, <2>1 DEF FilingSearch, RiskTool, NeedsCompany
<1>6. CASE ToSynthesis
  BY <1>0, <1>6 DEF ToSynthesis, StepsLeft, FlagsTypeOK
<1>7. ASSUME node \in {"route", "tools", "synthesize"}, node' \in {"answered", "failed"}
      PROVE  StepsLeft' < StepsLeft
  BY <1>0, <1>7 DEF StepsLeft, FlagsTypeOK
<1>8. CASE Raises
  BY <1>7, <1>8 DEF Raises, At
<1>9. CASE Template
  BY <1>7, <1>9 DEF Template, Answer
<1>10. CASE Draft
  <2>1. node = "synthesize" /\ drafts' = drafts + 1 /\ node' \in {"synthesize", "answered"}
    BY <1>10 DEF Draft, Answer
  <2> QED BY <1>7, <2>1 DEF StepsLeft, FlagsTypeOK
<1> QED BY <1>1, <1>2, <1>4, <1>5, <1>6, <1>8, <1>9, <1>10 DEF GraphStep

\* A question takes at most 7 queries for each metric of each company, 3 more
\* for the company, and 10 steps for the other tools, the synthesizer and its
\* drafts, whatever lands while it is answered.
THEOREM QuestionEnds ==
  Spec => StepsLeft = PerCompany * Len(request.tickers) + 10 /\ BoundedWork
<1> DEFINE Inv == ToolInv /\ QueueInv /\ FlagsTypeOK /\ InputsShort
           Work == /\ StepsLeft \in Nat
                   /\ GraphStep => StepsLeft' < StepsLeft
                   /\ Landing => StepsLeft' = StepsLeft
<1>1. Init => StepsLeft = PerCompany * Len(request.tickers) + 10
  <2> SUFFICES ASSUME Init PROVE StepsLeft = PerCompany * Len(request.tickers) + 10
    OBVIOUS
  <2>1. node = "route" /\ step = "idle" /\ ToolInv
    BY InitToolInv DEF Init, ToolInit
  <2>2. PerCompany * Len(request.tickers) \in Nat
    BY <2>1, CompaniesLeft
  <2> QED BY <2>1, <2>2 DEF StepsLeft, ToolLeft
<1>2. Init => InputsShort
  BY DEF Init, ToolInit, InputsShort
<1>3. InputsShort /\ ToolInv /\ [Next]_vars => InputsShort'
  BY InputsShortStep, GraphStepIsToolStep
<1>4. Inv /\ (ToolLeft \in Nat)' /\ [Next]_vars => [Work]_vars
  <2> SUFFICES ASSUME Inv, ToolLeft' \in Nat, [Next]_vars PROVE Work
    OBVIOUS
  <2>1. Landing => StepsLeft' = StepsLeft
    <3> SUFFICES ASSUME Landing PROVE StepsLeft' = StepsLeft
      OBVIOUS
    <3>1. UNCHANGED <<toolVars, node, pending, drafts>>
      BY DEF Landing, Land, graphVars
    <3> QED BY <3>1, ToolAtRest DEF StepsLeft
  <2> QED BY <2>1, StepsLeftType, StepWork
<1>5. Spec => []Inv
  <2>1. Init => FlagsTypeOK
    BY FlagsInit
  <2> QED BY <1>2, <1>3, <2>1, FlagsStep, QueueInvariant, GraphInvariant, PTL DEF Spec
<1>6. Inv => ToolLeft \in Nat
  BY ToolLeftType
<1> QED BY <1>1, <1>4, <1>5, <1>6, PTL DEF Spec, BoundedWork
=============================================================================
