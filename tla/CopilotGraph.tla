---------------------------- MODULE CopilotGraph ----------------------------
(***************************************************************************)
(* One question on its way through the agent graph                         *)
(* (src/copilot/graph.py, router.py, synthesis.py, verification.py): the   *)
(* router queues tools, each tool leaves evidence and findings, and the    *)
(* synthesizer writes an answer whose figures are checked against the      *)
(* evidence.  Fundamentals models the first tool query by query, while     *)
(* filings land.                                                           *)
(***************************************************************************)
EXTENDS Fundamentals, FiniteSetsExt

CONSTANTS
  Passages,    \* risk factor passages of the corpus
  PassageOf,   \* PassageOf[p]: whose filing it is from, and its text
  Matching,    \* the passages that share a term with the question
  SearchK,     \* k of run_filing_search
  Invented,    \* figures no tool produced
  MaxFigures   \* figures a draft of the model states

ASSUME GraphAssumption ==
  /\ IsFiniteSet(Passages)
  /\ \A p \in Passages : PassageOf[p].ticker \in Tickers
  /\ Matching \subseteq Passages
  /\ SearchK \in Nat \ {0}
  /\ MaxFigures \in Nat

VARIABLES
  node,        \* where the graph is
  mock,        \* templates or a language model
  positioned,  \* there is a portfolio for the tools that need one
  pending,     \* pending_tools
  routed,      \* history: the tools the router chose
  ran,         \* tool_calls: the tools that returned evidence
  skipped,     \* tools that left a gap instead
  passages,    \* evidence of filing_search
  measured,    \* tools of the risk engine that left evidence
  drafts,      \* answers asked of the model
  status,      \* of the verification report
  fallback,    \* fallback_used
  answer,      \* the figures of the answer
  cut          \* the answer was longer than MAX_ANSWER_CHARS

graphVars == <<node, mock, positioned, pending, routed, ran, skipped, passages, measured, drafts,
               status, fallback, answer, cut>>
vars == <<held, toolVars, graphVars>>

ToolOrder == <<"fundamentals", "filing_search", "market_risk", "pretrade_check">>
RiskTools == {"market_risk", "pretrade_check"}
Tools == {"fundamentals", "filing_search"} \union RiskTools
Nodes == {"route", "tools", "synthesize", "answered", "failed"}
Statuses == {"none", "verified", "failed", "no_numeric_claims"}
-----------------------------------------------------------------------------
\* What the tools' evidence and findings state.  Findings of the other tools
\* state figures of their own evidence only.
OtherFigures == {<<"passage", p>> : p \in passages} \union {<<"risk", t>> : t \in measured}
Evidence == Figures \union OtherFigures
Findings == quoted \union OtherFigures

Verdict(a) == IF a = {} THEN "no_numeric_claims"
              ELSE IF a \subseteq Evidence THEN "verified" ELSE "failed"

\* answer[:MAX_ANSWER_CHARS]: the figure at the cut becomes another one.  What
\* is lost behind it had been verified.
Stub(x) == <<"stub", x>>
Cuts(a) == {(a \ {x}) \union {Stub(x)} : x \in a}
-----------------------------------------------------------------------------
(* Mutated forms, none of which Next uses.                                 *)

Pop_two == IF Len(pending) > 1 THEN Tail(Tail(pending)) ELSE Tail(pending)
Scopes_all == {Tickers}
Accepts_second(a) == Verdict(a) # "failed" \/ drafts # 0
-----------------------------------------------------------------------------
\* The router: the model or the keywords choose any tools.  Without a choice
\* there is a default; a portfolio of equal weights is made up for the
\* companies named; the pre-trade check stands in for market risk.
Default == IF mock /\ request.tickers # <<>> THEN "fundamentals" ELSE "filing_search"
Turn(i, tools) == IF ToolOrder[i] \in tools THEN <<ToolOrder[i]>> ELSE <<>>
Queue(tools) == Turn(1, tools) \o Turn(2, tools) \o Turn(3, tools) \o Turn(4, tools)

Route ==
  /\ node = "route"
  /\ \E chosen \in SUBSET Tools, portfolio \in BOOLEAN :
       LET tools == IF chosen = {} THEN {Default} ELSE chosen
           kept  == IF RiskTools \subseteq tools THEN tools \ {"market_risk"} ELSE tools
       IN /\ positioned' = (tools \intersect RiskTools # {} /\ (portfolio \/ request.tickers # <<>>))
          /\ routed' = kept
          /\ pending' = Queue(kept)
  /\ node' = "tools"
  /\ UNCHANGED <<held, toolVars, mock, ran, skipped, passages, measured, drafts, status, fallback,
                 answer, cut>>

\* A tool node takes itself off the queue, whatever its tool returned.
Pop == Tail(pending)
At(tool) == node = "tools" /\ pending # <<>> /\ Head(pending) = tool

Skip(tool) ==
  /\ skipped' = skipped \union {tool}
  /\ pending' = Pop
  /\ UNCHANGED ran

Ran(tool) ==
  /\ ran' = Append(ran, tool)
  /\ pending' = Pop
  /\ UNCHANGED skipped

StartFundamentals ==
  /\ At("fundamentals") /\ request.tickers # <<>>
  /\ Start
  /\ UNCHANGED graphVars

FundamentalsStep ==
  /\ At("fundamentals")
  /\ ToolStep
  /\ UNCHANGED graphVars

FundamentalsReturns ==
  /\ At("fundamentals")
  /\ Return
  /\ Ran("fundamentals")
  /\ UNCHANGED <<node, mock, positioned, routed, passages, measured, drafts, status, fallback,
                 answer, cut>>

\* One index per company named; without one, the index of all companies.
Scopes ==
  IF request.tickers = <<>> THEN {Tickers} ELSE {{request.tickers[i]} : i \in DOMAIN request.tickers}

PerScope == IF Cardinality(Scopes) = 1 THEN SearchK ELSE IF SearchK > 2 THEN SearchK - 1 ELSE 1

\* BM25 ranks what shares a term with the question; embeddings, which mock mode
\* is without, rank every passage.
Ranked(scope) ==
  LET corpus == {p \in Passages : PassageOf[p].ticker \in scope}
  IN IF mock THEN corpus \intersect Matching ELSE corpus

\* The first n of the fused ranking, whose order is left open.
Top(S, n) == kSubset(IF n <= Cardinality(S) THEN n ELSE Cardinality(S), S)

\* dedupe_by_field: a text the filing repeats is kept once.
Distinct(S) ==
  {D \in SUBSET S : \A p \in S : Cardinality({q \in D : PassageOf[q].text = PassageOf[p].text}) = 1}

\* search(): twice as many as asked for, without repeats, cut to as many.
Hits(scope) ==
  UNION UNION {{Top(D, PerScope) : D \in Distinct(S)} : S \in Top(Ranked(scope), 2 * PerScope)}

\* The date asked for is not handed on.
FilingSearch ==
  /\ At("filing_search")
  /\ \E found \in [Scopes -> SUBSET Passages] :
       /\ \A scope \in Scopes : found[scope] \in Hits(scope)
       /\ passages' = UNION {found[scope] : scope \in Scopes}
  /\ Ran("filing_search")
  /\ UNCHANGED <<held, toolVars, node, mock, positioned, routed, measured, drafts, status, fallback,
                 answer, cut>>

\* The tools of the risk engine need a portfolio.
RiskTool(tool) ==
  /\ At(tool) /\ positioned
  /\ measured' = measured \union {tool}
  /\ Ran(tool)
  /\ UNCHANGED <<held, toolVars, node, mock, positioned, routed, passages, drafts, status, fallback,
                 answer, cut>>

NeedsCompany(tool) ==
  /\ At(tool)
  /\ IF tool = "fundamentals" THEN request.tickers = <<>> ELSE ~positioned
  /\ Skip(tool)
  /\ UNCHANGED <<held, toolVars, node, mock, positioned, routed, passages, measured, drafts, status,
                 fallback, answer, cut>>

ToSynthesis ==
  /\ node = "tools" /\ pending = <<>>
  /\ node' = "synthesize"
  /\ UNCHANGED <<held, toolVars, mock, positioned, pending, routed, ran, skipped, passages, measured,
                 drafts, status, fallback, answer, cut>>

\* The risk engine has too few days of prices, or the language model or the
\* embedder cannot be reached: the exception ends the graph.
Raises ==
  /\ \/ \E tool \in RiskTools : At(tool) /\ positioned
     \/ ~mock /\ (node \in {"route", "synthesize"} \/ At("filing_search"))
  /\ node' = "failed"
  /\ UNCHANGED <<held, toolVars, mock, positioned, pending, routed, ran, skipped, passages, measured,
                 drafts, status, fallback, answer, cut>>

\* The answer leaves with the verdict on the whole of it.
Answer(a, fell) ==
  /\ status' = Verdict(a)
  /\ fallback' = fell
  /\ \/ answer' = a /\ cut' = FALSE
     \/ answer' \in Cuts(a) /\ cut' = TRUE
  /\ node' = "answered"

\* Mock mode: the findings are the answer.
Template ==
  /\ node = "synthesize" /\ mock
  /\ Answer(Findings, FALSE)
  /\ UNCHANGED <<held, toolVars, mock, positioned, pending, routed, ran, skipped, passages, measured,
                 drafts>>

\* The model writes any figures it was given or makes up; a draft that does not
\* verify is written once more and then replaced by the findings.
Accepts(a) == Verdict(a) # "failed"
MayRetry == drafts = 0

Drafts ==
  UNION {kSubset(n, Evidence \union Findings \union Invented) : n \in 0..MaxFigures}

Draft ==
  /\ node = "synthesize" /\ ~mock
  /\ drafts' = drafts + 1
  /\ \E a \in Drafts :
       \/ Accepts(a) /\ Answer(a, FALSE)
       \/ /\ ~Accepts(a) /\ MayRetry
          /\ UNCHANGED <<node, status, fallback, answer, cut>>
       \/ ~Accepts(a) /\ ~MayRetry /\ Answer(Findings, TRUE)
  /\ UNCHANGED <<held, toolVars, mock, positioned, pending, routed, ran, skipped, passages, measured>>

\* What lands once the tool has read the store is for the next question.
Landing ==
  /\ node = "route" \/ At("fundamentals")
  /\ \E f \in Filings : Land(f)
  /\ UNCHANGED graphVars

GraphStep ==
  \/ Route
  \/ StartFundamentals \/ FundamentalsStep \/ FundamentalsReturns
  \/ FilingSearch
  \/ \E tool \in RiskTools : RiskTool(tool)
  \/ \E tool \in Tools \ {"filing_search"} : NeedsCompany(tool)
  \/ ToSynthesis \/ Raises \/ Template \/ Draft

\* The response is on its way.
Over == node \in {"answered", "failed"} /\ UNCHANGED vars

Init ==
  /\ ToolInit
  /\ node = "route"
  /\ mock \in BOOLEAN
  /\ positioned = FALSE
  /\ pending = <<>> /\ routed = {} /\ ran = <<>> /\ skipped = {}
  /\ passages = {} /\ measured = {}
  /\ drafts = 0 /\ status = "none" /\ fallback = FALSE /\ answer = {} /\ cut = FALSE

Next == GraphStep \/ Landing \/ Over

Spec == Init /\ [][Next]_vars

\* The thread that answers keeps running; nothing is assumed of landings.
FairSpec == Spec /\ WF_vars(GraphStep)
-----------------------------------------------------------------------------
TypeOK ==
  /\ ToolTypeOK
  /\ node \in Nodes /\ mock \in BOOLEAN /\ positioned \in BOOLEAN
  /\ pending \in Seq(Tools) /\ ran \in Seq(Tools)
  /\ routed \subseteq Tools /\ skipped \subseteq Tools
  /\ passages \subseteq Passages /\ measured \subseteq RiskTools
  /\ drafts \in 0..2 /\ status \in Statuses /\ fallback \in BOOLEAN /\ cut \in BOOLEAN

\* Each tool the router chose takes its turn once, in the fixed order, and
\* leaves either evidence or a gap (graph.py, state.py: "deterministic ordering").
ToolsAccountedFor ==
  node \in {"synthesize", "answered"} =>
    ran = Queue(routed \ skipped) /\ skipped \subseteq routed /\ pending = <<>>

\* "A hallucinated figure can cost a retry or a less fluent answer, but it cannot
\* reach the caller" (synthesis.py): an answer that was not cut states figures of
\* the evidence.  The exception is a findings answer reported as failed, for
\* the original of a restated fact changed while the tool read; templates
\* verify otherwise (formatting.py).
OnlySourcedFigures ==
  node = "answered" /\ ~cut /\ ~(answer \subseteq Evidence) =>
    /\ status = "failed" /\ (mock \/ fallback)
    /\ answer = Findings
    /\ \E id \in DOMAIN facts : OriginalMoved(id)

\* "a strong lexical match in another issuer's 10-K cannot crowd out the one
\* asked about" (filing_search.py), nor can boilerplate both filings repeat: a
\* company that was named and has a passage to offer has one in the evidence.
NamedCompaniesFound ==
  \A i \in DOMAIN ran, j \in DOMAIN request.tickers :
    ran[i] = "filing_search" /\ Ranked({request.tickers[j]}) # {} =>
      \E p \in passages : PassageOf[p].ticker = request.tickers[j]

\* Every question is answered or fails, whatever lands meanwhile.
Answers == <>(node \in {"answered", "failed"})
=============================================================================
