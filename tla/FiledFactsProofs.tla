-------------------------- MODULE FiledFactsProofs --------------------------
(* What normalisation promises of facts filed earlier, and what the worker *)
(* keeps of them in the store, for any filings whose tags agree on the     *)
(* periods they are about.                                                 *)
EXTENDS FiledFacts, TLAPS

\* The rows a listed filing has in companyfacts.
LEMMA ListedInv == Spec => []ListedWhole
<1>1. Init => ListedWhole
  BY FiledAssumption DEF Init, ListedWhole, Whole
<1>2. ListedWhole /\ [Next]_vars => ListedWhole'
  <2> SUFFICES ASSUME ListedWhole, [Next]_vars PROVE ListedWhole'
    OBVIOUS
  <2>1. ASSUME NEW f \in Filings, NEW S \in Reports[f], List(f, S) PROVE ListedWhole'
    <3>1. Nth[f] = listed + 1 /\ rows' = rows \union S /\ listed' = listed + 1
      BY <2>1 DEF List
    <3>2. S \subseteq Rows /\ \A r \in S : r.filing = f
      BY FiledAssumption DEF Rows
    <3>3. /\ listed \in Nat /\ rows \subseteq Rows /\ \A r \in rows : Nth[r.filing] <= listed
          /\ \A g \in Filings : Nth[g] \in Nat
      BY FiledAssumption DEF ListedWhole, Whole
    <3>4. \A r \in Rows : r.filing \in Filings
      BY FiledAssumption DEF RowType
    <3>5. \A r \in rows' : Nth[r.filing] <= listed'
      BY <3>1, <3>2, <3>3, <3>4
    <3>6. ASSUME NEW g \in Filings, Nth[g] <= listed'
          PROVE  {r \in rows' : r.filing = g} \in Reports[g]
      <4>1. CASE g = f
        <5>1. \A r \in rows : r.filing # f
          BY <3>1, <3>3
        <5>2. {r \in rows' : r.filing = f} = S
          BY <3>1, <3>2, <5>1
        <5> QED BY <4>1, <5>2
      <4>2. CASE g # f
        <5>1. Nth[g] # listed + 1
          BY <3>1, <4>2, FiledAssumption
        <5>2. Nth[g] <= listed
          BY <3>1, <3>3, <3>6, <5>1
        <5>3. {r \in rows' : r.filing = g} = {r \in rows : r.filing = g}
          BY <3>1, <3>2, <4>2
        <5> QED BY <5>2, <5>3 DEF ListedWhole, Whole
      <4> QED BY <4>1, <4>2
    <3> QED BY <3>1, <3>2, <3>3, <3>5, <3>6 DEF ListedWhole, Whole
  <2>2. CASE Announce \/ (\E f \in Filings : Fetch(f)) \/ UNCHANGED vars
    <3>1. UNCHANGED <<rows, listed>>
      BY <2>2 DEF Announce, Fetch, vars
    <3> QED BY <3>1 DEF ListedWhole, Whole
  <2> QED BY <2>1, <2>2 DEF Next
<1> QED BY <1>1, <1>2, PTL DEF Spec

\* Whether a row is about the report period of its filing, and whether a tag of
\* higher priority shadows it, is settled by the rows of that filing.
LEMMA OwnRows ==
  ASSUME NEW R, NEW r, NEW S, S = {s \in R : s.filing = r.filing}
  PROVE  /\ OwnPeriod(R, r) <=> OwnPeriod(S, r)
         /\ Claimed(R, r) <=> Claimed(S, r)
BY DEF OwnPeriod, Claimed, SameContext

\* The label of a period is the one any filing about it gives it.
LEMMA LabelIsAny ==
  ASSUME NEW R, NEW n, Whole(R, n), NEW r, NEW s \in Naming(R, r)
  PROVE  Labels(R, r) = {LabelOf(s)}
<1>1. R \subseteq Rows /\ Naming(R, r) \subseteq R
  BY DEF Whole, Naming
<1>2. PICK t \in Naming(R, r) : \A u \in Naming(R, r) : Precedes(t, u)
  BY <1>1, RowsHaveFirst
<1>3. ASSUME NEW u \in Naming(R, r), NEW v \in Naming(R, r) PROVE LabelOf(u) = LabelOf(v)
  <2>1. /\ Usable(u) /\ OwnPeriod(R, u) /\ SamePeriod(u, r) /\ u \in R
        /\ Usable(v) /\ OwnPeriod(R, v) /\ SamePeriod(v, r) /\ v \in R
    BY DEF Naming
  <2> DEFINE U == {x \in R : x.filing = u.filing}
             V == {x \in R : x.filing = v.filing}
  <2>2. u.filing \in Filings /\ v.filing \in Filings
    BY <1>1, <2>1, FiledAssumption DEF RowType
  <2>3. U \in Reports[u.filing] /\ V \in Reports[v.filing]
    BY <2>1, <2>2 DEF Whole
  <2>4. OwnPeriod(U, u) /\ OwnPeriod(V, v) /\ u \in U /\ v \in V
    BY <2>1, OwnRows
  <2>5. SamePeriod(u, v)
    BY <2>1 DEF SamePeriod
  <2> HIDE DEF U, V
  <2> QED BY <2>1, <2>2, <2>3, <2>4, <2>5, ConsistentTags
<1> QED BY <1>2, <1>3 DEF Labels

\* What a listing leaves of the rows that are there: their standing in their own
\* filing, the filings that name their period, and the label of one that is
\* named.  A filing that only now names a period is the new one.
LEMMA ListingKeeps ==
  ASSUME ListedWhole, ListedWhole', NEW f \in Filings, NEW S \in Reports[f], List(f, S), NEW r \in rows
  PROVE  /\ Claimed(rows', r) <=> Claimed(rows, r)
         /\ Naming(rows, r) \subseteq Naming(rows', r)
         /\ \A s \in Naming(rows', r) \ Naming(rows, r) : s.filing = f
         /\ Naming(rows, r) # {} => Labels(rows', r) = Labels(rows, r)
<1>1. Nth[f] = listed + 1 /\ rows' = rows \union S
  BY DEF List
<1>2. /\ \A s \in S : s.filing = f
      /\ \A s \in rows : s.filing # f
  BY <1>1, FiledAssumption DEF ListedWhole, Whole
<1>3. ASSUME NEW s \in rows
      PROVE  /\ OwnPeriod(rows', s) <=> OwnPeriod(rows, s)
             /\ Claimed(rows', s) <=> Claimed(rows, s)
  <2> DEFINE own == {t \in rows : t.filing = s.filing}
  <2>1. own = {t \in rows' : t.filing = s.filing}
    BY <1>1, <1>2
  <2> HIDE DEF own
  <2>2. /\ OwnPeriod(rows', s) <=> OwnPeriod(own, s)
        /\ Claimed(rows', s) <=> Claimed(own, s)
    BY <2>1, OwnRows
  <2>3. /\ OwnPeriod(rows, s) <=> OwnPeriod(own, s)
        /\ Claimed(rows, s) <=> Claimed(own, s)
    BY OwnRows DEF own
  <2> QED BY <2>2, <2>3
<1>4. /\ Naming(rows, r) \subseteq Naming(rows', r)
      /\ \A s \in Naming(rows', r) \ Naming(rows, r) : s.filing = f
  BY <1>1, <1>2, <1>3 DEF Naming
<1>5. ASSUME NEW s \in Naming(rows, r) PROVE Labels(rows', r) = Labels(rows, r)
  <2>1. Labels(rows, r) = {LabelOf(s)}
    BY LabelIsAny DEF ListedWhole
  <2>2. Labels(rows', r) = {LabelOf(s)}
    BY <1>4, LabelIsAny DEF ListedWhole
  <2> QED BY <2>1, <2>2
<1> QED BY <1>3, <1>4, <1>5

\* A fact has a label, and so a filing that names its period.
LEMMA FactIsNamed ==
  ASSUME NEW R, NEW x
  PROVE  x \in Facts(R) <=> /\ x.row \in R /\ Usable(x.row) /\ ~Claimed(R, x.row)
                            /\ x.label \in Labels(R, x.row) /\ x = [row |-> x.row, label |-> x.label]
BY DEF Facts

LEMMA LabelIsNamed ==
  ASSUME NEW R, NEW r, Labels(R, r) # {}
  PROVE  Naming(R, r) # {}
BY DEF Labels

\* A fact that is listed is a fact still when the next filing is.
LEMMA ListingKeepsFacts ==
  ASSUME ListedWhole, ListedWhole', NEW f \in Filings, NEW S \in Reports[f], List(f, S)
  PROVE  Facts(rows) \subseteq Facts(rows')
<1> SUFFICES ASSUME NEW x \in Facts(rows) PROVE x \in Facts(rows')
  OBVIOUS
<1>1. PICK r : r = x.row
  OBVIOUS
<1>2. /\ r \in rows /\ Usable(r) /\ ~Claimed(rows, r) /\ x.label \in Labels(rows, r)
      /\ x = [row |-> r, label |-> x.label]
  BY <1>1, FactIsNamed
<1>3. Naming(rows, r) # {}
  BY <1>2, LabelIsNamed
<1>4. Labels(rows', r) = Labels(rows, r) /\ ~Claimed(rows', r) /\ r \in rows'
  BY <1>2, <1>3, ListingKeeps DEF List
<1> QED BY <1>1, <1>2, <1>4, FactIsNamed

\* A later filing neither relabels nor shadows what is listed, whatever it
\* reports: a fact keeps its label, and a tag of higher priority hides it in the
\* filing that uses the tag only.
THEOREM EarlierFactsStay == Spec => FactsStay
<1>1. ListedWhole /\ ListedWhole' /\ [Next]_vars => [Facts(rows) \subseteq Facts(rows')]_rows
  <2> SUFFICES ASSUME ListedWhole, ListedWhole', [Next]_vars, rows' # rows
               PROVE  Facts(rows) \subseteq Facts(rows')
    OBVIOUS
  <2>1. PICK f \in Filings : \E S \in Reports[f] : List(f, S)
    BY DEF Next, Announce, Fetch, vars
  <2> QED BY <2>1, ListingKeepsFacts
<1> QED BY <1>1, ListedInv, PTL DEF Spec, FactsStay
-----------------------------------------------------------------------------
(* The store                                                               *)

\* Where a fact of an acknowledged filing is: in the store, or its filing was
\* fetched too early for it.
Kept(x) ==
  \/ \E y \in store : Key(y) = Key(x)
  \/ view[x.row.filing] < Nth[x.row.filing]
  \/ \A s \in Naming(rows, x.row) : Nth[s.filing] > view[x.row.filing]

StoreInv ==
  /\ view \in [Filings -> Nat] /\ \A f \in Filings : view[f] <= listed
  /\ store \subseteq Facts(rows)
  /\ \A x \in Facts(rows) : x.row.filing \in acked => Kept(x)

\* An upsert leaves a fact under every key of the store and of the batch.
LEMMA UpsertKeys ==
  ASSUME NEW batch, NEW T \in Upserted(batch)
  PROVE  /\ T \subseteq store \union batch
         /\ \A x \in store \union batch : \E y \in T : Key(y) = Key(x)
<1>1. PICK K \in SUBSET batch :
        /\ \A x \in batch : \E y \in K : Key(y) = Key(x)
        /\ T = {x \in store : \A y \in batch : Key(x) # Key(y)} \union K
  BY DEF Upserted
<1>2. ASSUME NEW x \in store PROVE \E y \in T : Key(y) = Key(x)
  BY <1>1
<1> QED BY <1>1, <1>2

LEMMA StoreStepFetch ==
  ASSUME ListedWhole, StoreInv, NEW f \in Filings, Fetch(f)
  PROVE  StoreInv'
<1>1. /\ store' \in Upserted(FactsFor(f)) /\ UNCHANGED <<rows, listed>> /\ f \notin acked
      /\ acked' \subseteq acked \union {f} /\ view' = [view EXCEPT ![f] = listed]
  BY DEF Fetch
<1>2. FactsFor(f) = {x \in Facts(rows) : x.row.filing = f}
  BY DEF FactsFor, Payload
<1>3. /\ store' \subseteq store \union FactsFor(f)
      /\ \A x \in store \union FactsFor(f) : \E y \in store' : Key(y) = Key(x)
  BY <1>1, UpsertKeys
<1>4. listed \in Nat
  BY DEF ListedWhole, Whole
<1>5. view' \in [Filings -> Nat] /\ \A g \in Filings : view'[g] <= listed
  BY <1>1, <1>4 DEF StoreInv
<1>6. Facts(rows)' = Facts(rows) /\ \A x : Naming(rows, x.row)' = Naming(rows, x.row)
  BY <1>1
<1>7. ASSUME NEW x \in Facts(rows), x.row.filing \in acked' PROVE Kept(x)'
  <2>1. CASE x.row.filing = f
    BY <1>2, <1>3, <2>1 DEF Kept, Key
  <2>2. CASE x.row.filing # f
    <3>1. Kept(x)
      BY <1>1, <1>7, <2>2 DEF StoreInv
    <3>2. (\E y \in store : Key(y) = Key(x)) => \E y \in store' : Key(y) = Key(x)
      BY <1>3
    <3>3. view'[x.row.filing] = view[x.row.filing]
      BY <1>1, <2>2 DEF StoreInv
    <3> QED BY <1>6, <3>1, <3>2, <3>3 DEF Kept, Key
  <2> QED BY <2>1, <2>2
<1> QED BY <1>1, <1>2, <1>3, <1>5, <1>6, <1>7 DEF StoreInv

LEMMA StoreStepList ==
  ASSUME ListedWhole, ListedWhole', StoreInv, NEW f \in Filings, NEW S \in Reports[f], List(f, S)
  PROVE  StoreInv'
<1>1. /\ Nth[f] = listed + 1 /\ listed' = listed + 1 /\ rows' = rows \union S
      /\ UNCHANGED <<acked, store, view>> /\ \A r \in S : r.filing = f
  BY FiledAssumption DEF List
<1>2. listed \in Nat /\ view \in [Filings -> Nat] /\ \A g \in Filings : view[g] <= listed /\ Nth[g] \in Nat
  BY FiledAssumption DEF ListedWhole, Whole, StoreInv
<1>3. Facts(rows) \subseteq Facts(rows')
  BY ListingKeepsFacts
<1>4. \A r \in rows \union S : r.filing \in Filings
  BY <1>1, FiledAssumption DEF ListedWhole, Whole, RowType
<1>5. ASSUME NEW x \in Facts(rows'), x.row.filing \in acked PROVE Kept(x)'
  <2>1. PICK r : r = x.row
    OBVIOUS
  <2>2. /\ r \in rows' /\ Usable(r) /\ ~Claimed(rows', r) /\ x.label \in Labels(rows', r)
        /\ x = [row |-> r, label |-> x.label] /\ r.filing \in Filings
    BY <1>1, <1>4, <2>1, FactIsNamed
  <2>3. CASE r \notin rows
    <3>1. r.filing = f /\ view[f] < Nth[f]
      BY <1>1, <1>2, <2>2, <2>3
    <3> QED BY <1>1, <2>1, <3>1 DEF Kept
  <2>4. CASE r \in rows
    <3>1. /\ ~Claimed(rows, r)
          /\ \A s \in Naming(rows', r) : s \in Naming(rows, r) \/ s.filing = f
          /\ Naming(rows, r) # {} => Labels(rows', r) = Labels(rows, r)
      BY <2>2, <2>4, ListingKeeps
    <3>2. view[r.filing] < Nth[f]
      BY <1>1, <1>2, <2>2
    <3>3. CASE Naming(rows, r) = {}
      BY <1>1, <2>1, <3>1, <3>2, <3>3 DEF Kept
    <3>4. CASE Naming(rows, r) # {}
      <4>1. x \in Facts(rows)
        BY <2>1, <2>2, <2>4, <3>1, <3>4, FactIsNamed
      <4>2. Kept(x)
        BY <1>5, <4>1 DEF StoreInv
      <4> QED BY <1>1, <2>1, <3>1, <3>2, <4>2 DEF Kept, Key
    <3> QED BY <3>3, <3>4
  <2> QED BY <2>3, <2>4
<1>6. \A g \in Filings : view'[g] <= listed'
  BY <1>1, <1>2
<1>7. store' \subseteq Facts(rows') /\ Facts(rows)' = Facts(rows') /\ view' \in [Filings -> Nat]
  BY <1>1, <1>3 DEF StoreInv
<1>8. \A x \in Facts(rows') : x.row.filing \in acked' => Kept(x)'
  BY <1>1, <1>5
<1> QED BY <1>6, <1>7, <1>8, Zenon DEF StoreInv

\* Filings normalised one by one, each on what is listed when it is handled, give
\* the store the whole history gives, but for what the worker came too early
\* for.
THEOREM LiveStoreIsWhole == Spec => []LiveIsWhole
<1>1. Init => StoreInv
  BY DEF Init, StoreInv, Facts
<1>2. ListedWhole /\ ListedWhole' /\ StoreInv /\ [Next]_vars => StoreInv'
  <2> SUFFICES ASSUME ListedWhole, ListedWhole', StoreInv, [Next]_vars PROVE StoreInv'
    OBVIOUS
  <2>1. CASE Announce \/ UNCHANGED vars
    BY <2>1 DEF Announce, vars, StoreInv, Kept
  <2>2. ASSUME NEW f \in Filings, Fetch(f) PROVE StoreInv'
    BY <2>2, StoreStepFetch
  <2>3. ASSUME NEW f \in Filings, NEW S \in Reports[f], List(f, S) PROVE StoreInv'
    BY <2>3, StoreStepList
  <2> QED BY <2>1, <2>2, <2>3 DEF Next
<1>3. StoreInv => LiveIsWhole
  BY DEF StoreInv, LiveIsWhole, Kept
<1> QED BY <1>1, <1>2, <1>3, ListedInv, PTL DEF Spec

\* A year is labelled FY, and a quarter is not.
LEMMA ClassOfLabel ==
  ASSUME NEW r, Usable(r)
  PROVE  /\ Class(r) \in {"instant", "annual", "quarter"}
         /\ Class(r) = "instant" <=> r.start = NoStart
         /\ Class(r) = "annual" => LabelOf(r).period = "FY"
         /\ Class(r) = "quarter" => LabelOf(r).period # "FY"
BY DEF Class, Usable, LabelOf

\* Two facts with the label of a metric are of the same period, where the rows
\* that named theirs are what their filings' tags are about.
LEMMA OneLabelOnePeriod ==
  ASSUME ListedWhole, NEW x \in Facts(rows), NEW y \in Facts(rows), SameLabel(x, y),
         \A s \in Naming(rows, x.row) \union Naming(rows, y.row) : ~OffTag(s)
  PROVE  SameDays(x, y)
<1>1. /\ x.row \in rows /\ Usable(x.row) /\ x.label \in Labels(rows, x.row)
      /\ y.row \in rows /\ Usable(y.row) /\ y.label \in Labels(rows, y.row)
  BY FactIsNamed
<1>2. PICK s \in Naming(rows, x.row) : x.label = LabelOf(s)
  BY <1>1, LabelIsNamed, LabelIsAny DEF ListedWhole
<1>3. PICK t \in Naming(rows, y.row) : y.label = LabelOf(t)
  BY <1>1, LabelIsNamed, LabelIsAny DEF ListedWhole
<1>4. /\ s \in rows /\ Usable(s) /\ OwnPeriod(rows, s) /\ s.end = x.row.end /\ Class(s) = Class(x.row)
      /\ t \in rows /\ Usable(t) /\ OwnPeriod(rows, t) /\ t.end = y.row.end /\ Class(t) = Class(y.row)
  BY <1>2, <1>3 DEF Naming, SamePeriod
<1>5. LabelOf(s) = LabelOf(t)
  BY <1>2, <1>3 DEF SameLabel
<1>6. /\ rows \subseteq Rows
      /\ \A f \in Filings : Nth[f] <= listed => {r \in rows : r.filing = f} \in Reports[f]
      /\ \A r \in rows : r.filing \in Filings /\ Nth[r.filing] <= listed
  BY FiledAssumption DEF ListedWhole, Whole, RowType
<1>7. Class(s) = Class(t)
  <2>1. x.row.start = NoStart <=> y.row.start = NoStart
    BY <1>1, <1>6, FiscalCalendar DEF SameLabel
  <2>2. Class(x.row) = "instant" <=> Class(y.row) = "instant"
    BY <1>1, <2>1, ClassOfLabel
  <2> QED BY <1>4, <1>5, <2>2, ClassOfLabel
<1>8. s.end = t.end
  <2> DEFINE S == {r \in rows : r.filing = s.filing}
             T == {r \in rows : r.filing = t.filing}
  <2>1. /\ s.filing \in Filings /\ S \in Reports[s.filing] /\ s \in S /\ OwnPeriod(S, s)
        /\ t.filing \in Filings /\ T \in Reports[t.filing] /\ t \in T /\ OwnPeriod(T, t)
    BY <1>4, <1>6, OwnRows
  <2>2. ~OffTag(s) /\ ~OffTag(t)
    BY <1>2, <1>3
  <2> HIDE DEF S, T
  <2> QED BY <1>4, <1>5, <1>7, <2>1, <2>2, FiscalCalendar
<1>9. SamePeriod(x.row, y.row)
  BY <1>4, <1>7, <1>8 DEF SamePeriod
<1> QED BY <1>1, <1>6, <1>9, FiscalCalendar DEF SameDays, SamePeriod

\* In the store, a metric's label stands for one period, in whatever order and
\* however often the filings that name periods were handled.
THEOREM LabelMeansPeriod == Spec => []LabelNamesPeriod
<1>1. ListedWhole /\ LiveIsWhole => LabelNamesPeriod
  BY OneLabelOnePeriod DEF LiveIsWhole, LabelNamesPeriod
<1> QED BY <1>1, ListedInv, LiveStoreIsWhole, PTL
=============================================================================
