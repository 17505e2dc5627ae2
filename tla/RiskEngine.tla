----------------------------- MODULE RiskEngine -----------------------------
(***************************************************************************)
(* portfolio_risk (src/risk/engine.py): the daily returns of a portfolio   *)
(* go through riskcore's historical VaR, its Monte Carlo VaR, whose paths  *)
(* are simulated by several threads, and its backtest, which keeps a       *)
(* sorted window of the days before each day it forecasts.                 *)
(***************************************************************************)
EXTENDS RiskTail, MonteCarlo

CONSTANTS
  Histories,  \* daily portfolio returns, whole numbers of some small unit
  Windows,    \* the windows a request may ask for, in days
  Margin,     \* the days portfolio_risk needs beyond it
  Lookback    \* the window of the backtest, whatever a request asks for

ASSUME EngineAssumption ==
  /\ Histories \subseteq Seq(Int)
  /\ Windows \subseteq Nat \ {0} /\ Margin \in Nat \ {0}
  /\ Lookback \in Nat /\ 2 <= Lookback

VARIABLES
  phase,       \* which call of riskcore portfolio_risk is in
  days,        \* req.window
  returns,     \* pnl_all
  hist,        \* result of historical_var
  mc,          \* result of monte_carlo_var
  k,           \* tail_count of the lookback
  day,         \* the day the backtest forecasts
  window,      \* its SortedWindow
  exceptions   \* days with a loss beyond VaR

engineVars == <<phase, days, returns, hist, mc, k, day, window, exceptions>>
vars == <<engineVars, simVars>>

NoResult == [var |-> 0, loss |-> 0]
-----------------------------------------------------------------------------
(* Mutated forms, none of which is used elsewhere.                         *)

Left_today(d) == returns[d - Lookback]
IsException_atVaR == returns[day] <= window[k]
Observed_whole_window == Len(returns) >= Lookback
-----------------------------------------------------------------------------
\* The last n days.
LastDays(s, n) == SubSeq(s, Len(s) - n + 1, Len(s))

\* historical_var, and what monte_carlo_var checks before it starts threads.
Historical ==
  /\ phase = "load" /\ Len(returns) >= days + Margin
  /\ \E err \in Slips :
       hist' \in TailStats(LastDays(returns, days), 1, days, TailCount(days, err))
  /\ phase' = "simulate"
  /\ UNCHANGED <<days, returns, mc, k, day, window, exceptions, simVars>>

\* Too few days of prices; or the covariance has no Cholesky factor.
Raise ==
  /\ \/ phase = "load" /\ Len(returns) < days + Margin
     \/ phase = "simulate" /\ stage[Main] = "launch" /\ \A t \in Others : stage[t] = "none"
  /\ phase' = "raised"
  /\ UNCHANGED <<days, returns, hist, mc, k, day, window, exceptions, simVars>>

SimulationStep ==
  /\ phase = "simulate"
  /\ SimStep
  /\ UNCHANGED engineVars

\* What backtest_historical_var requires: a day beyond its window.
Observed == Len(returns) > Lookback

\* monte_carlo_var returns: the tail of the joined simulation.
Simulated ==
  /\ phase = "simulate" /\ Joined
  /\ \E err \in Slips : mc' \in TailStats(pnl, 0, Paths, TailCount(Paths, err))

\* The backtest sorts its first days.
Backtest ==
  /\ Simulated
  /\ Observed
  /\ \E err \in Slips : k' = TailCount(Lookback, err)
  /\ window' = Sorted(SubSeq(returns, 1, Lookback))
  /\ day' = Lookback + 1
  /\ phase' = "backtest"
  /\ UNCHANGED <<days, returns, hist, exceptions, simVars>>

\* The history need only be a little longer than the window asked for, and may
\* be no longer than the backtest looks back: then it raises, after the
\* simulation, and portfolio_risk returns nothing.
BacktestRaises ==
  /\ Simulated
  /\ ~Observed
  /\ phase' = "raised"
  /\ UNCHANGED <<days, returns, hist, k, day, window, exceptions, simVars>>

\* A loss beyond the k-th smallest of the window.
IsException == returns[day] < window[k]

\* The day that leaves the window before day d is forecast.
Left(d) == returns[d - Lookback - 1]

Forecast ==
  /\ phase = "backtest" /\ day <= Len(returns)
  /\ exceptions' = exceptions + IF IsException THEN 1 ELSE 0
  /\ day' = day + 1
  /\ window' = IF day < Len(returns) THEN Slide(window, Left(day + 1), returns[day]) ELSE window
  /\ UNCHANGED <<phase, days, returns, hist, mc, k, simVars>>

Report ==
  /\ phase = "backtest" /\ day > Len(returns)
  /\ phase' = "done"
  /\ UNCHANGED <<days, returns, hist, mc, k, day, window, exceptions, simVars>>

\* log_returns keeps the last req.window + 250 days.
Init ==
  /\ SimInit
  /\ phase = "load"
  /\ days \in Windows
  /\ returns \in {h \in Histories : Len(h) <= days + Lookback}
  /\ hist = NoResult /\ mc = NoResult
  /\ k = 1 /\ day = 1 /\ window = <<>> /\ exceptions = 0

Next ==
  \/ Historical \/ Raise \/ SimulationStep
  \/ Backtest \/ BacktestRaises \/ Forecast \/ Report

Spec == Init /\ [][Next]_vars
-----------------------------------------------------------------------------
\* "The P&L vector, and therefore VaR/ES, is identical for any thread count"
\* (riskcore.cpp): once the threads are joined, every path has the P&L one
\* thread alone gives it.
SameForAnyThreads == (phase = "simulate" /\ Joined) \/ phase \in {"backtest", "done"} => pnl = Alone

\* Two threads never write the same entry of the P&L, which is not locked.
NoSharedPath ==
  \A t, u \in Threads : t # u /\ stage[t] = "block" /\ stage[u] = "block" => at[t] # at[u]

\* Both engines agree (test_riskcore.py): rounding, the sample of a thin tail
\* and ties at its edge change neither VaR nor ES.
TailsAgree ==
  /\ phase \notin {"load", "raised"} => hist = RefTail(LastDays(returns, days), RefTailCount(days))
  /\ phase \in {"backtest", "done"} => mc = RefTail(pnl, RefTailCount(Paths))

\* Days of equal returns enter and leave the window; it is always the sorted
\* copy of the days before the one forecast.
Before(d) == SubSeq(returns, d - Lookback, d - 1)

WindowIsSorted ==
  phase = "backtest" /\ day <= Len(returns) => window = Sorted(Before(day))

\* A result stands on at least one day the backtest observed, however short the
\* window asked for (Kupiec's test divides by their number), and its exceptions
\* are those a backtest by fresh selections of each window counts.
ExceptionsAgree ==
  phase = "done" =>
    /\ Len(returns) > Lookback
    /\ exceptions = Cardinality({d \in Lookback + 1..Len(returns) :
                                   returns[d] < RefKth(Before(d), RefTailCount(Lookback))})
=============================================================================
