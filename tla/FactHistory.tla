----------------------------- MODULE FactHistory -----------------------------
(***************************************************************************)
(* What the fact store answers from a set of filings                       *)
(* (src/filings/factstore.py).  A filing reports values for some metrics   *)
(* and fiscal years, later filings restate them, and a query sees the      *)
(* filings of one company filed on or before a date.  Only full fiscal     *)
(* years are asked for, and only the filings that report them are here.    *)
(***************************************************************************)
EXTENDS Integers, FiniteSets

CONSTANTS
  Tickers,
  Filings,
  NoFiling,    \* a query found nothing
  NoDate,      \* as_of is None
  NoYear,      \* fiscal_year is None
  TickerOf,    \* TickerOf[f]: the company that filed f
  FiledOn,     \* FiledOn[f]: the day it was filed
  Accession,   \* Accession[f]: the rank of its accession number
  Reports      \* Reports[f]: its values, by metric and fiscal year

\* METRICS and DERIVED_LABELS, with the inputs of each derived metric: a ratio
\* is not computable over a zero denominator, the difference always is; lag 1
\* is the fiscal year before.
Metrics == {"revenue", "net_income", "operating_income", "gross_profit", "operating_cash_flow",
            "capex", "total_assets", "total_liabilities", "stockholders_equity", "cash",
            "long_term_debt", "eps_diluted"}

Ratio(num, den) == [num |-> num, den |-> den, lag |-> 0, divides |-> TRUE]
Growth(metric) == [num |-> metric, den |-> metric, lag |-> 1, divides |-> TRUE]
Difference(a, b) == [num |-> a, den |-> b, lag |-> 0, divides |-> FALSE]

Formula == [net_margin            |-> Ratio("net_income", "revenue"),
            operating_margin      |-> Ratio("operating_income", "revenue"),
            gross_margin          |-> Ratio("gross_profit", "revenue"),
            debt_to_equity        |-> Ratio("long_term_debt", "stockholders_equity"),
            revenue_growth_yoy    |-> Growth("revenue"),
            net_income_growth_yoy |-> Growth("net_income"),
            free_cash_flow        |-> Difference("operating_cash_flow", "capex")]

DerivedNames == DOMAIN Formula

ASSUME HistoryAssumption ==
  /\ NoFiling \notin Filings
  /\ TickerOf \in [Filings -> Tickers]
  /\ FiledOn \in [Filings -> Nat]
  /\ Accession \in [Filings -> Int]
  /\ \A f, g \in Filings : Accession[f] = Accession[g] => f = g
  /\ \A f \in Filings : DOMAIN Reports[f] \subseteq Metrics \X Int
-----------------------------------------------------------------------------
(* Mutated forms, none of which is used.                                   *)

Seen_all(S, asOf) == S
-----------------------------------------------------------------------------
\* The point in time: filed <= as_of.
Seen(S, asOf) == {f \in S : asOf = NoDate \/ FiledOn[f] <= asOf}

\* ORDER BY filed DESC, accession DESC.
Newer(f, g) ==
  FiledOn[f] > FiledOn[g] \/ (FiledOn[f] = FiledOn[g] /\ Accession[f] > Accession[g])

Value(f, metric, year) == Reports[f][<<metric, year>>]

\* The filings of S that report a fact: the versions of one period.
Reporting(S, ticker, metric, year) ==
  {f \in S : TickerOf[f] = ticker /\ <<metric, year>> \in DOMAIN Reports[f]}

\* Mutated: ORDER BY filed DESC alone, which of two versions filed on a day
\* comes first is left open.
Get_untied(S, ticker, metric, year, asOf) ==
  LET versions == Reporting(Seen(S, asOf), ticker, metric, year)
  IN IF versions = {} THEN {NoFiling}
     ELSE {f \in versions : \A g \in versions : FiledOn[f] >= FiledOn[g]}

\* get(): the newest version seen, or nothing.  The result is given as the
\* set that holds it.
Get(S, ticker, metric, year, asOf) ==
  LET versions == Reporting(Seen(S, asOf), ticker, metric, year)
  IN IF versions = {} THEN {NoFiling}
     ELSE {f \in versions : \A g \in versions \ {f} : Newer(f, g)}

\* get() without a year: the latest fiscal year a version was seen of.
YearsSeen(S, ticker, metric, asOf) ==
  {y \in UNION {{line[2] : line \in DOMAIN Reports[f]} : f \in S} :
     Reporting(Seen(S, asOf), ticker, metric, y) # {}}

LatestYear(S, ticker, metric, asOf) ==
  LET years == YearsSeen(S, ticker, metric, asOf)
  IN IF years = {} THEN {NoYear} ELSE {y \in years : \A z \in years : y >= z}

\* What fact_evidence calls originally reported: of all versions filed before
\* f with another value (versions() knows no as_of), the first; among versions
\* of one day ORDER BY filed leaves it open which.
Prior(S, f, metric, year) ==
  {g \in Reporting(S, TickerOf[f], metric, year) :
     FiledOn[g] < FiledOn[f] /\ Value(g, metric, year) # Value(f, metric, year)}

Originals(S, f, metric, year) ==
  LET prior == Prior(S, f, metric, year)
  IN IF prior = {} THEN {NoFiling}
     ELSE {g \in prior : \A h \in prior : FiledOn[g] <= FiledOn[h]}
=============================================================================
