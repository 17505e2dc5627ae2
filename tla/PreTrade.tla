------------------------------ MODULE PreTrade ------------------------------
(***************************************************************************)
(* run_pretrade_check (src/copilot/tools/pretrade.py): a proposed book is  *)
(* held against the limits on names, sectors, gross exposure and on the    *)
(* VaR portfolio_risk computes for it, and approved or rejected.           *)
(*                                                                         *)
(* Weights and limits are whole numbers of some unit; a sum of several     *)
(* doubles is off by at most Slip in Grain of a unit, of which 1e-9 is     *)
(* Guard.                                                                  *)
(***************************************************************************)
EXTENDS RiskEngine

CONSTANTS
  Tickers,
  SectorOf,    \* SectorOf[t]: sector of t in the universe
  Books,       \* the positions proposed: weights by ticker
  MaxName, MaxSector, MaxGross, MaxVar,  \* data/risk_limits.json
  Restricted,  \* restricted_list
  DefaultWindow \* the window of a RiskRequest that names none

ASSUME PreTradeAssumption ==
  /\ \A b \in Books : DOMAIN b \subseteq Tickers /\ DOMAIN b # {} /\ b \in [DOMAIN b -> Int]
  /\ {MaxName, MaxSector, MaxGross, MaxVar} \subseteq Int

\* Sum of the weights of S, whichever way they are held.
Magnitude(w) == IF w < 0 THEN -w ELSE w
Exposure(b, S) == MapThenSumSet(LAMBDA t : Magnitude(b[t]), S)

ASSUME ExposureAssumption ==
  \A b \in Books : \A S \in SUBSET DOMAIN b : Exposure(b, S) \in Int

VARIABLES
  book,     \* positions
  decision  \* "none" before the tool returned

tradeVars == <<vars, book, decision>>

SectorsOf(b) == {SectorOf[t] : t \in DOMAIN b}
InSector(b, s) == {t \in DOMAIN b : SectorOf[t] = s}

\* What the loop over S adds up, err off: of one weight it is the weight.
Added(b, S, err) == Exposure(b, S) * Grain + IF Cardinality(S) = 1 THEN 0 ELSE err

-----------------------------------------------------------------------------
(* Mutated forms, none of which is used elsewhere.                         *)

GrossPasses_unguarded(x) == x <= MaxGross * Grain
-----------------------------------------------------------------------------
NamesPass(b) == \A t \in DOMAIN b : Magnitude(b[t]) <= MaxName

SectorPasses(x) == x <= MaxSector * Grain

GrossPasses(x) == x <= MaxGross * Grain + Guard

VarPasses == hist.var <= MaxVar

\* approved: no breach, and no name on the restricted list.
Verdict(b, sums, gross) ==
  IF /\ NamesPass(b) /\ GrossPasses(gross) /\ VarPasses
     /\ \A s \in DOMAIN sums : SectorPasses(sums[s])
     /\ DOMAIN b \intersect Restricted = {}
  THEN "APPROVE" ELSE "REJECT"

\* The tool returns.  Until then nothing depended on the book but the returns,
\* which are any; its request names no window.
Decide ==
  /\ phase = "done" /\ decision = "none" /\ days = DefaultWindow
  /\ \E b \in Books :
       \E err \in Slips, errs \in [SectorsOf(b) -> Slips] :
         LET sums == [s \in SectorsOf(b) |-> Added(b, InSector(b, s), errs[s])]
         IN book' = b /\ decision' = Verdict(b, sums, Added(b, DOMAIN b, err))
  /\ UNCHANGED vars

TradeInit == Init /\ book = <<>> /\ decision = "none"

TradeNext == (Next /\ UNCHANGED <<book, decision>>) \/ Decide

TradeSpec == TradeInit /\ [][TradeNext]_tradeVars
-----------------------------------------------------------------------------
WithinLimits(b) ==
  /\ NamesPass(b) /\ VarPasses
  /\ \A s \in SectorsOf(b) : Exposure(b, InSector(b, s)) <= MaxSector
  /\ Exposure(b, DOMAIN b) <= MaxGross
  /\ DOMAIN b \intersect Restricted = {}

\* "Rules, not an LLM, decide APPROVE/REJECT" (pretrade.py), and rounding does
\* not: what is approved is within every limit, and what is within every limit
\* is approved, unless several names add up to just the limit of their sector,
\* whose sum is compared without the 1e-9 the gross exposure has.
DecisionIsExact ==
  decision # "none" =>
    \/ decision = "APPROVE" <=> WithinLimits(book)
    \/ /\ decision = "REJECT"
       /\ \E s \in SectorsOf(book) :
            Cardinality(InSector(book, s)) # 1 /\ Exposure(book, InSector(book, s)) = MaxSector
=============================================================================
