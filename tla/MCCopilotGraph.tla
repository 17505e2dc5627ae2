--------------------------- MODULE MCCopilotGraph ---------------------------
(***************************************************************************)
(* Company A files f1 to f4, B only b1.  f2 restates the first year's      *)
(* income and f3, an amendment, restates it again; f4, filed on f3's day   *)
(* under a later accession, restates it once more, so the two tie on a     *)
(* fact and a day, and takes the second year's revenue back to nothing.    *)
(* B reports no revenue.                                                   *)
(***************************************************************************)
EXTENDS CopilotGraph, TLC
CONSTANTS A, B, f1, f2, f3, f4, b1, p1, p2, p3

MC_TickerOf  == [f \in Filings |-> IF f = b1 THEN B ELSE A]
MC_FiledOn   == f1 :> 1 @@ f2 :> 2 @@ f3 :> 3 @@ f4 :> 3 @@ b1 :> 2
MC_Accession == f1 :> 1 @@ f2 :> 2 @@ f3 :> 4 @@ f4 :> 5 @@ b1 :> 3

MC_Reports ==
  LET rev(y) == <<"revenue", y>>
      inc(y) == <<"net_income", y>>
  IN f1 :> (rev(1) :> 10 @@ inc(1) :> 5)
  @@ f2 :> (rev(1) :> 10 @@ inc(1) :> 4 @@ rev(2) :> 20 @@ inc(2) :> 6)
  @@ f3 :> (inc(1) :> 3)
  @@ f4 :> (inc(1) :> 2 @@ rev(2) :> 0 @@ inc(2) :> 7)
  @@ b1 :> (inc(1) :> 2)

MC_Requests ==
  [tickers: {<<>>, <<B, A>>}, metrics: {<<"revenue_growth_yoy">>}, year: {NoYear}, asOf: {NoDate, 1}]
  \union
  [tickers: {<<A>>}, metrics: {<<"net_income", "net_margin">>}, year: {1}, asOf: {NoDate, 2}]
  \union
  [tickers: {<<A>>}, metrics: {<<"net_margin", "free_cash_flow">>}, year: {2}, asOf: {NoDate}]

MC_Invented == {<<99>>}

\* p1 and p2 are boilerplate both companies use.
MC_PassageOf ==
  p1 :> [ticker |-> A, text |-> 1] @@ p2 :> [ticker |-> B, text |-> 1] @@ p3 :> [ticker |-> A, text |-> 2]
=============================================================================
