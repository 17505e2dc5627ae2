------------------------- MODULE EdgarClientProofs --------------------------
(***************************************************************************)
(* Theorems about EdgarClient, for every number of threads, capacity,      *)
(* resolution of time, number of retries and backoff: the budget of        *)
(* requests, and that the sleep computed for a missing token is enough.    *)
(***************************************************************************)
EXTENDS EdgarClient, TLAPS

\* A full bucket is more than one token; a token is more than nothing.
LEMMA FullFacts == Full \in Nat /\ Full >= Grain /\ Grain \in Nat \ {0}
<1>1. Capacity \in Nat /\ Capacity >= 1 /\ Grain \in Nat \ {0}
  BY EdgarAssumption
<1>2. \A c, g \in Nat : c >= 1 => c * g \in Nat /\ c * g >= g
  BY SMT
<1> QED  BY <1>1, <1>2 DEF Full

\* What the bucket holds when it is looked at lies between empty and full.
LEMMA RefilledType ==
  ASSUME TypeOK
  PROVE  Refilled \in 0..Full /\ Refilled >= tokens /\ Refilled <= tokens + elapsed
BY FullFacts DEF TypeOK, Refilled, Min2

\* The attempts of a call are numbers the backoff is known for.
LEMMA BackoffType ==
  ASSUME NEW a \in 0..MaxRetries, NEW d \in 0..Backoff[a]
  PROVE  d \in Nat
BY EdgarAssumption

\* The initial state has the types.
LEMMA InitTypeOK == Init => TypeOK
BY FullFacts, EdgarAssumption DEF Init, TypeOK, Spans, Places

\* Every step keeps the types.
LEMMA NextTypeOK == TypeOK /\ [Next]_vars => TypeOK'
<1> SUFFICES ASSUME TypeOK, [Next]_vars PROVE TypeOK'
  OBVIOUS
<1> USE FullFacts
<1>1. CASE Tick
  <2>1. elapsed' \in 0..Full
    BY <1>1 DEF Tick, TypeOK, Min2
  <2>2. left' \in [Threads -> Nat]
    BY <1>1 DEF Tick, TypeOK
  <2>3. since' \in [Spans -> Nat]
    BY <1>1, EdgarAssumption DEF Tick, TypeOK, Spans
  <2> QED  BY <1>1, <2>1, <2>2, <2>3 DEF Tick, TypeOK
<1>2. ASSUME NEW t \in Threads, TakeToken(t) PROVE TypeOK'
  <2>1. tokens' \in 0..Full /\ elapsed' \in 0..Full
    BY <1>2, RefilledType DEF TakeToken
  <2>2. since' \in [Spans -> Nat]
    BY <1>2 DEF TakeToken, TypeOK
  <2> QED  BY <1>2, <2>1, <2>2 DEF TakeToken, TypeOK, Places
<1>3. ASSUME NEW t \in Threads, Wait(t) PROVE TypeOK'
  <2>1. tokens' \in 0..Full /\ elapsed' \in 0..Full /\ Shortfall \in Nat
    BY <1>3, RefilledType DEF Wait, Shortfall
  <2> QED  BY <1>3, <2>1 DEF Wait, TypeOK, Places
<1>4. ASSUME NEW t \in Threads, WakeUp(t) PROVE TypeOK'
  BY <1>4 DEF WakeUp, TypeOK, Places
<1>5. ASSUME NEW t \in Threads, Call(t) PROVE TypeOK'
  BY <1>5, EdgarAssumption DEF Call, TypeOK, Places
<1>6. ASSUME NEW t \in Threads, Answered(t) PROVE TypeOK'
  BY <1>6 DEF Answered, TypeOK, Places
<1>7. ASSUME NEW t \in Threads, Failed(t) PROVE TypeOK'
  <2>1. CASE GivesUp(t)
    BY <1>7, <2>1 DEF Failed, TypeOK, Places
  <2>2. CASE ~GivesUp(t)
    <3>1. attempt[t] \in 0..MaxRetries /\ attempt[t] + 1 \in 0..MaxRetries
      BY <2>2, EdgarAssumption DEF TypeOK, GivesUp
    <3>2. PICK d \in 0..Backoff[attempt[t]] : left' = [left EXCEPT ![t] = d]
      BY <1>7, <2>2 DEF Failed
    <3>3. left' \in [Threads -> Nat]
      BY <3>1, <3>2, BackoffType DEF TypeOK
    <3> QED  BY <1>7, <2>2, <3>1, <3>3 DEF Failed, TypeOK, Places, NextAttempt
  <2> QED  BY <2>1, <2>2
<1>8. CASE UNCHANGED vars
  BY <1>8 DEF vars, TypeOK
<1> QED  BY <1>1, <1>2, <1>3, <1>4, <1>5, <1>6, <1>7, <1>8 DEF Next, Thread

\* The variables have their types: attempts stay within max_retries, the
\* bucket between empty and full.
THEOREM TypeCorrect == Spec => []TypeOK
BY InitTypeOK, NextTypeOK, PTL DEF Spec

-----------------------------------------------------------------------------
(* The budget                                                              *)

\* A step that neither takes a token nor lets time pass credits nothing anew.
LEMMA QuietStep ==
  ASSUME TypeOK, UNCHANGED since, Refilled' = Refilled, BudgetInv
  PROVE  BudgetInv'
BY DEF BudgetInv

\* Every step keeps the budget.
LEMMA NextBudget == TypeOK /\ TypeOK' /\ BudgetInv /\ [Next]_vars => BudgetInv'
<1> SUFFICES ASSUME TypeOK, TypeOK', BudgetInv, [Next]_vars PROVE BudgetInv'
  OBVIOUS
<1> USE FullFacts
<1>1. CASE Tick
  <2> SUFFICES ASSUME NEW a \in Spans PROVE Grain * since'[a] + Refilled' <= Full + a
    BY DEF BudgetInv
  <2>1. Refilled' <= Refilled + 1 /\ Refilled' <= Full /\ Refilled' \in Nat /\ Refilled \in Nat
    BY <1>1 DEF Tick, TypeOK, Refilled, Min2
  <2>2. CASE a = 0
    <3>1. since'[a] = 0
      BY <1>1, <2>2 DEF Tick
    <3>2. Grain * since'[a] = 0
      BY <3>1
    <3> QED  BY <2>1, <2>2, <3>2
  <2>3. CASE a # 0
    <3>1. a \in Nat /\ a - 1 \in Spans
      BY <2>3, EdgarAssumption DEF Spans
    <3>2. since'[a] = since[a - 1]
      BY <1>1, <2>3 DEF Tick
    <3>3. Grain * since[a - 1] + Refilled <= Full + (a - 1)
      BY <3>1 DEF BudgetInv
    <3>4. Grain * since[a - 1] \in Nat
      BY <3>1 DEF TypeOK
    <3> QED  BY <2>1, <3>1, <3>2, <3>3, <3>4
  <2> QED  BY <2>2, <2>3
<1>2. ASSUME NEW t \in Threads, TakeToken(t) PROVE BudgetInv'
  <2> SUFFICES ASSUME NEW a \in Spans PROVE Grain * since'[a] + Refilled' <= Full + a
    BY DEF BudgetInv
  <2>1. Refilled' = Refilled - Grain
    BY <1>2, RefilledType DEF TakeToken, Refilled, Min2
  <2>2. since[a] \in Nat /\ since'[a] = since[a] + 1
    BY <1>2 DEF TakeToken, TypeOK
  <2>3. Grain * since'[a] = Grain * since[a] + Grain /\ Grain * since[a] \in Nat
    BY <2>2
  <2>4. Grain * since[a] + Refilled <= Full + a
    BY DEF BudgetInv
  <2> QED  BY <2>1, <2>3, <2>4, RefilledType DEF Spans
<1>3. ASSUME NEW t \in Threads, Wait(t) PROVE BudgetInv'
  BY <1>3, RefilledType, QuietStep DEF Wait, Refilled, Min2
<1>4. ASSUME NEW t \in Threads, WakeUp(t) \/ Call(t) \/ Answered(t) \/ Failed(t) PROVE BudgetInv'
  <2>1. UNCHANGED <<tokens, elapsed, since>>
    BY <1>4 DEF WakeUp, Call, Answered, Failed
  <2> QED  BY <2>1, QuietStep DEF Refilled
<1>5. CASE UNCHANGED vars
  BY <1>5, QuietStep DEF vars, Refilled
<1> QED  BY <1>1, <1>2, <1>3, <1>4, <1>5 DEF Next, Thread

\* A full bucket and no request is the whole budget.
LEMMA InitBudget == Init => BudgetInv
<1> SUFFICES ASSUME Init, NEW a \in Spans PROVE Grain * since[a] + Refilled <= Full + a
  BY DEF BudgetInv
<1>1. Grain * since[a] = 0 /\ Refilled = Full
  BY FullFacts DEF Init, Refilled, Min2
<1> QED  BY <1>1, FullFacts, EdgarAssumption DEF Spans

\* In any span of time the threads together make at most Capacity requests and
\* one for each token refilled in it, whatever the resolution of the clock.
THEOREM RequestBudget == Spec => []WithinBudget
<1>1. TypeOK /\ BudgetInv => WithinBudget
  <2> SUFFICES ASSUME TypeOK, BudgetInv, NEW a \in Spans PROVE Grain * since[a] <= Full + a
    BY DEF WithinBudget
  <2>1. Grain * since[a] + Refilled <= Full + a /\ Grain * since[a] \in Nat
    BY FullFacts DEF BudgetInv, TypeOK
  <2> QED  BY <2>1, RefilledType, FullFacts DEF Spans
<1> QED  BY <1>1, InitBudget, NextBudget, TypeCorrect, PTL DEF Spec

-----------------------------------------------------------------------------
(* The sleeps                                                              *)

\* Every step keeps the sleep of a thread nobody has beaten long enough.
LEMMA NextWait == TypeOK /\ TypeOK' /\ WaitIsEnough /\ [Next]_vars => WaitIsEnough'
<1> SUFFICES ASSUME TypeOK, TypeOK', WaitIsEnough, [Next]_vars,
                    NEW u \in Threads, pc'[u] = "wait", ~beaten'[u]
             PROVE  Refilled' + left'[u] >= Grain
  BY DEF WaitIsEnough
<1> USE FullFacts
<1>0. left[u] \in Nat /\ left'[u] \in Nat
  BY DEF TypeOK
<1>1. CASE Tick
  <2>1. pc[u] = "wait" /\ ~beaten[u]
    BY <1>1 DEF Tick
  <2>2. Refilled + left[u] >= Grain
    BY <2>1 DEF WaitIsEnough
  <2>3. Refilled' = Full \/ Refilled' = Refilled + 1
    BY <1>1 DEF Tick, TypeOK, Refilled, Min2
  <2>4. left'[u] >= left[u] - 1
    BY <1>1, <1>0 DEF Tick
  <2> QED  BY <1>0, <2>2, <2>3, <2>4, RefilledType
<1>2. ASSUME NEW t \in Threads, TakeToken(t) PROVE Refilled' + left'[u] >= Grain
  <2>1. pc'[t] = "http" /\ (u # t => beaten'[u])
    BY <1>2 DEF TakeToken, TypeOK
  <2> QED  BY <2>1
<1>3. ASSUME NEW t \in Threads, Wait(t) PROVE Refilled' + left'[u] >= Grain
  <2>1. Refilled' = Refilled
    BY <1>3, RefilledType DEF Wait, Refilled, Min2
  <2>2. CASE u = t
    <3>1. left'[u] = Grain - Refilled
      BY <1>3, <2>2 DEF Wait, TypeOK, Shortfall
    <3> QED  BY <2>1, <3>1, RefilledType
  <2>3. CASE u # t
    <3>1. pc[u] = "wait" /\ ~beaten[u] /\ left'[u] = left[u]
      BY <1>3, <2>3 DEF Wait, TypeOK
    <3> QED  BY <2>1, <3>1 DEF WaitIsEnough
  <2> QED  BY <2>2, <2>3
<1>4. ASSUME NEW t \in Threads, WakeUp(t) \/ Call(t) \/ Answered(t) \/ Failed(t)
      PROVE Refilled' + left'[u] >= Grain
  <2>1. UNCHANGED <<tokens, elapsed, beaten>> /\ pc' = [pc EXCEPT ![t] = pc'[t]] /\ pc'[t] # "wait"
    BY <1>4 DEF WakeUp, Call, Answered, Failed, TypeOK
  <2>2. u # t /\ pc[u] = "wait" /\ ~beaten[u]
    BY <2>1 DEF TypeOK
  <2>3. left'[u] = left[u]
    BY <1>4, <2>2 DEF WakeUp, Call, Answered, Failed, TypeOK
  <2> QED  BY <2>1, <2>2, <2>3 DEF WaitIsEnough, Refilled
<1>5. CASE UNCHANGED vars
  BY <1>5 DEF vars, WaitIsEnough, Refilled
<1> QED  BY <1>1, <1>2, <1>3, <1>4, <1>5 DEF Next, Thread

\* A thread that slept for a token nobody else took finds it when it wakes up.
THEOREM SleepsOnce == Spec => []WaitIsEnough
<1>1. Init => WaitIsEnough
  BY DEF Init, WaitIsEnough
<1> QED  BY <1>1, NextWait, TypeCorrect, PTL DEF Spec
=============================================================================
