---------------------------- MODULE MCFiledFacts ----------------------------
(* Two fiscal years of one company and what it files about them.           *)
EXTENDS FiledFacts, TLC
CONSTANTS a1, q1, a2, m2

Order == (a1 :> 1) @@ (q1 :> 2) @@ (a2 :> 3) @@ (m2 :> 4)
Forms == (a1 :> "10-K") @@ (q1 :> "10-Q") @@ (a2 :> "10-K") @@ (m2 :> "10-K/A")
Years == (a1 :> 1) @@ (q1 :> 2) @@ (a2 :> 2) @@ (m2 :> 2)
Periods == (a1 :> "FY") @@ (q1 :> "Q1") @@ (a2 :> "FY") @@ (m2 :> "FY")

Dates == (a1 :> 364) @@ (q1 :> 455) @@ (a2 :> 728) @@ (m2 :> 728)

Tags == {"new", "old", "assets"}
Metrics == [c \in Tags |-> IF c = "assets" THEN "total_assets" ELSE "revenue"]
Ranks == [c \in Tags |-> CASE c = "new" -> 1 [] c = "old" -> 2 [] c = "assets" -> 3]

Row(f, c, s, e) == [filing |-> f, concept |-> c, start |-> s, end |-> e]

\* The second year begins on day 364 and ends on day 728, its first quarter on
\* day 455; what a filing lists besides its own period is optional.
Year1 == Row(a1, "old", 0, 364)
Quarter == Row(q1, "new", 364, 455)
QuarterTwice == Row(q1, "old", 364, 455)
TwelveMonths == Row(q1, "old", 91, 455)
Year2 == Row(a2, "new", 364, 728)
Year1Again == Row(a2, "new", 0, 364)
Beyond == Row(a2, "assets", NoStart, 740)
Year2Amended == Row(m2, "new", 364, 728)
Quarter4 == Row(m2, "new", 637, 728)
YearEnd == Row(m2, "assets", NoStart, 728)

Contents ==
  (a1 :> {{Year1}})
  @@ (q1 :> {{Quarter} \union S : S \in SUBSET {QuarterTwice, TwelveMonths}})
  @@ (a2 :> {{Year2} \union S : S \in SUBSET {Year1Again, Beyond}})
  @@ (m2 :> {{Year2Amended, YearEnd}, {Year2Amended, YearEnd, Quarter4}})
=============================================================================
