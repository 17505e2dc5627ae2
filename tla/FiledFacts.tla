----------------------------- MODULE FiledFacts -----------------------------
(***************************************************************************)
(* From XBRL rows to stored facts: normalize_company_facts                 *)
(* (src/filings/xbrl.py) labels periods and resolves tags over everything  *)
(* SEC lists of a company; the ingest worker (src/streaming/worker.py)     *)
(* runs it for each filing on what is listed at that time, and keeps the   *)
(* facts of that filing; the store (src/filings/factstore.py) upserts      *)
(* them.  Filings appear in companyfacts in the order they were filed,     *)
(* perhaps after they were announced.                                      *)
(***************************************************************************)
EXTENDS Integers

CONSTANTS
  Filings,       \* the filings of one company
  Nth,           \* Nth[f]: 1 for the first one filed
  Form,          \* Form[f]
  FiscalYear,    \* FiscalYear[f]: fy, as tagged on every row of f
  FiscalPeriod,  \* FiscalPeriod[f]: fp
  Concepts,      \* XBRL tags
  MetricOf,      \* MetricOf[c]: the metric a tag is an alias of
  Rank,          \* Rank[c]: its place in METRICS, aliases in priority order
  NoStart,       \* start of a balance sheet row
  ReportDate,    \* ReportDate[f]: the last day of the period f is about
  MaxLag,        \* bound: the filings announced and not listed
  MaxLost,       \* bound: acknowledgements lost
  Reports        \* Reports[f]: the sets of rows f may list; days are counted from any day

Rows == UNION UNION {Reports[f] : f \in Filings}
RowType == [filing: Filings, concept: Concepts, start: Int \union {NoStart}, end: Int]

\* Rows come by concept in the order of METRICS, under a concept by filing.
Precedes(r, s) ==
  Rank[r.concept] < Rank[s.concept] \/ (Rank[r.concept] = Rank[s.concept] /\ Nth[r.filing] <= Nth[s.filing])

ASSUME FiledAssumption ==
  /\ NoStart \notin Int
  /\ Nth \in [Filings -> Nat \ {0}] /\ \A f, g \in Filings : Nth[f] = Nth[g] => f = g
  /\ Rank \in [Concepts -> Nat]
  /\ Rows \subseteq RowType /\ \A f \in Filings : \A S \in Reports[f] : \A r \in S : r.filing = f

ASSUME RowsHaveFirst ==
  \A S \in SUBSET Rows : S # {} => \E r \in S : \A s \in S : Precedes(r, s)

VARIABLES
  announced,  \* how many filings the submissions index shows
  rows,       \* the rows companyfacts lists
  listed,     \* how many filings they are of
  acked,      \* the filings whose message was acknowledged
  store,      \* the facts of the store
  lost,       \* messages handled whose acknowledgement was lost
  view        \* history: view[f], the filings listed when f was last fetched

vars == <<announced, rows, listed, acked, store, lost, view>>

-----------------------------------------------------------------------------
(* normalize_company_facts                                                 *)

\* _duration_class: a year, a quarter, a day; year-to-date rows have none.
Class(r) ==
  CASE r.start = NoStart             -> "instant"
    [] r.start # NoStart /\ r.end - r.start \in 350..380 -> "annual"
    [] r.start # NoStart /\ r.end - r.start \in 80..100  -> "quarter"
    [] OTHER                         -> "none"

IsAnnual(form) == form \in {"10-K", "10-K/A"}

Usable(r) == Form[r.filing] \in {"10-K", "10-Q", "10-K/A", "10-Q/A"} /\ Class(r) # "none"

SamePeriod(r, s) == r.end = s.end /\ Class(r) = Class(s)

\* The row ends on the latest day any row of its filing ends.
OwnPeriod(R, r) == \A s \in R : s.filing = r.filing => s.end <= r.end

\* What a filing's own tags make of a row.
LabelOf(r) ==
  [year   |-> FiscalYear[r.filing],
   period |-> CASE Class(r) = "quarter" /\ FiscalPeriod[r.filing] = "FY" -> "Q4"
                [] Class(r) = "annual"                                   -> "FY"
                [] Class(r) = "instant" /\ IsAnnual(Form[r.filing])      -> "FY"
                [] OTHER                                                 -> FiscalPeriod[r.filing]]

\* Mutated, not used: a row is labelled by the tags of its own filing.
Naming_itself(R, r) == {r}

\* The rows whose filing may name the period of r: it is its report period.
Naming(R, r) == {s \in R : Usable(s) /\ OwnPeriod(R, s) /\ SamePeriod(s, r)}

\* setdefault: the first such row names the period.
Labels(R, r) ==
  LET naming == Naming(R, r) IN {LabelOf(s) : s \in {t \in naming : \A u \in naming : Precedes(t, u)}}

\* Mutated, not used: aliases are resolved once per period.
SameContext_any_filing(r, s) == r.start = s.start /\ r.end = s.end

\* Aliases are resolved per period and filing.
SameContext(r, s) == r.start = s.start /\ r.end = s.end /\ r.filing = s.filing

\* A tag of higher priority reports the same in the same filing.
Claimed(R, r) ==
  \E s \in R : /\ MetricOf[s.concept] = MetricOf[r.concept] /\ Rank[s.concept] < Rank[r.concept]
               /\ Usable(s) /\ SameContext(r, s)

\* Every version of every metric, with the label of its period.
Facts(R) ==
  UNION {{[row |-> r, label |-> l] : l \in Labels(R, r)} : r \in {s \in R : Usable(s) /\ ~Claimed(R, s)}}

\* Filings that are about the same period tag it alike.
ASSUME ConsistentTags ==
  \A f, g \in Filings : \A S \in Reports[f], T \in Reports[g] : \A s \in S, t \in T :
    Usable(s) /\ Usable(t) /\ OwnPeriod(S, s) /\ OwnPeriod(T, t) /\ SamePeriod(s, t) =>
      LabelOf(s) = LabelOf(t)

\* The tags of a filing are not about a row of twelve months in a 10-Q, nor about
\* a day after the period of the filing.
OffTag(s) == (Class(s) = "annual" /\ ~IsAnnual(Form[s.filing])) \/ s.end > ReportDate[s.filing]

\* The company keeps one fiscal calendar: a metric is an amount over a period or
\* on a day, periods of a kind that end together begin together, and the tags of
\* two filings that say the same are about the same period.
ASSUME FiscalCalendar ==
  /\ \A r, s \in Rows : MetricOf[r.concept] = MetricOf[s.concept] => (r.start = NoStart <=> s.start = NoStart)
  /\ \A r, s \in Rows : Usable(r) /\ Usable(s) /\ SamePeriod(r, s) => r.start = s.start
  /\ \A f, g \in Filings : \A S \in Reports[f], T \in Reports[g] : \A s \in S, t \in T :
       /\ Usable(s) /\ OwnPeriod(S, s) /\ ~OffTag(s)
       /\ Usable(t) /\ OwnPeriod(T, t) /\ ~OffTag(t)
       /\ Class(s) = Class(t) /\ LabelOf(s) = LabelOf(t)
       => s.end = t.end

-----------------------------------------------------------------------------
(* The worker and the store                                                *)

\* Mutated, not used: only the filing's own rows are normalised.
Payload_own(f) == {r \in rows : r.filing = f}

\* live_source reads everything listed, and keeps the facts of the filing.
Payload(f) == rows

FactsFor(f) == {x \in Facts(Payload(f)) : x.row.filing = f}

\* PRIMARY KEY (ticker, metric, fiscal_year, fiscal_period, accession).
Key(x) == <<MetricOf[x.row.concept], x.label, x.row.filing>>

\* INSERT OR REPLACE of a batch; which row of a batch wins a key is left open.
Upserted(batch) ==
  {{x \in store : \A y \in batch : Key(x) # Key(y)} \union kept :
     kept \in {K \in SUBSET batch : \A x \in batch : \E y \in K : Key(y) = Key(x)
                                      /\ \A z \in K : Key(z) = Key(x) => z = y}}

\* SEC's index shows the next filing; the poller publishes it.
Announce ==
  /\ announced < listed + MaxLag
  /\ \E f \in Filings : Nth[f] = announced + 1
  /\ announced' = announced + 1
  /\ UNCHANGED <<rows, listed, acked, store, lost, view>>

\* companyfacts lists the next filing, with all its rows.
List(f, S) ==
  /\ Nth[f] = listed + 1 /\ listed < announced
  /\ rows' = rows \union S
  /\ listed' = listed + 1
  /\ UNCHANGED <<announced, acked, store, lost, view>>

\* The worker handles a filing, again if it dies before it acknowledges it.
\* A filing not listed yet has no facts, which is a success.
Fetch(f) ==
  /\ Nth[f] <= announced /\ f \notin acked
  /\ store' \in Upserted(FactsFor(f))
  /\ \/ acked' = acked \union {f} /\ lost' = lost
     \/ lost < MaxLost /\ lost' = lost + 1 /\ acked' = acked
  /\ view' = [view EXCEPT ![f] = listed]
  /\ UNCHANGED <<announced, rows, listed>>

Init ==
  /\ announced = 0 /\ listed = 0 /\ lost = 0
  /\ rows = {} /\ acked = {} /\ store = {}
  /\ view = [f \in Filings |-> 0]

Next ==
  \/ Announce
  \/ \E f \in Filings : Fetch(f) \/ \E S \in Reports[f] : List(f, S)

Spec == Init /\ [][Next]_vars

-----------------------------------------------------------------------------
(* Properties                                                              *)

TypeOK ==
  /\ announced \in Nat /\ listed \in Nat /\ listed <= announced
  /\ rows \subseteq Rows /\ \A r \in rows : Nth[r.filing] <= listed
  /\ acked \subseteq Filings /\ lost \in 0..MaxLost
  /\ view \in [Filings -> Nat]

\* Inductive: a filing is listed whole, in the order filings were filed.
Whole(R, n) ==
  /\ n \in Nat /\ R \subseteq Rows
  /\ \A r \in R : Nth[r.filing] <= n
  /\ \A f \in Filings : Nth[f] <= n => {r \in R : r.filing = f} \in Reports[f]

ListedWhole == Whole(rows, listed)

\* Later filings neither change nor shadow the facts of earlier ones, so that a
\* query as of a date finds what it would have found on that date.
FactsStay == [][Facts(rows) \subseteq Facts(rows')]_rows

\* Filings normalised one by one give the store the whole history gives: it
\* holds nothing else, and every fact of an acknowledged filing unless the
\* filing was fetched before it was listed, or its period was only named by
\* filings listed after it was fetched.
LiveIsWhole ==
  /\ store \subseteq Facts(rows)
  /\ \A x \in {y \in Facts(rows) : y.row.filing \in acked} :
       \/ \E y \in store : Key(y) = Key(x)
       \/ view[x.row.filing] < Nth[x.row.filing]
       \/ \A s \in Naming(rows, x.row) : Nth[s.filing] > view[x.row.filing]

SameLabel(x, y) == MetricOf[x.row.concept] = MetricOf[y.row.concept] /\ x.label = y.label

SameDays(x, y) == x.row.start = y.row.start /\ x.row.end = y.row.end

\* A metric's label stands for one period in the whole store, unless one of two
\* periods was named by a row its filing's tags are not about.
LabelNamesPeriod ==
  \A x, y \in store : SameLabel(x, y) =>
    SameDays(x, y) \/ \E z \in {x, y} : \E s \in Naming(rows, z.row) : OffTag(s)

\* "fiscal_period: FY | Q1 | Q2 | Q3 | Q4", and a label is "taken only from rows
\* where the period IS the filing's own report period" (xbrl.py): the twelve
\* months stored as a fiscal year of a metric are the same in every filing.
YearIsFiscalYear ==
  \A x, y \in store :
    Class(x.row) = "annual" /\ Class(y.row) = "annual" /\ SameLabel(x, y) => SameDays(x, y)
=============================================================================
