----------------------------- MODULE Failover_proofs -----------------------------
(***************************************************************************)
(* Proofs about Failover: how breakers change state, how far the spending  *)
(* may overdraw its cap, what an open breaker still lets through, and how  *)
(* many steps a call may take.                                             *)
(***************************************************************************)
EXTENDS Failover, FiniteSetTheorems, TLAPS

\* A call that enters the chain is at some step from which it goes on or ends.
LEMMA NextModelTypes ==
    ASSUME TypeOK, NEW c \in Calls, NextModel(c)
    PROVE  model' \in [Calls -> 1..ChainLength] /\ pc' \in [Calls -> Steps]
<1>1. model[c] \in 1..ChainLength
  BY DEF TypeOK
<1>2. HasFallback(c) => model[c] + 1 \in 1..ChainLength
  BY <1>1, ChainAssumption DEF HasFallback
<1> QED
  BY <1>2 DEF NextModel, Goto, TypeOK, Steps, Admitted

\* What the operations of CircuitBreaker return.
LEMMA BreakerTypes ==
    ASSUME NEW b \in Breaker
    PROVE  /\ HalfOpen(b) \in Breaker /\ Succeeded(b) \in Breaker /\ Failed(b) \in Breaker
           /\ HalfOpen(b).state = "halfopen" /\ HalfOpen(b).failures = 0
           /\ Succeeded(b).failures = 0
           /\ (Succeeded(b).state = "open") <=> (b.state = "open")
           /\ (Failed(b).state = "open") <=> (b.state = "open" \/ Trips(b))
           /\ Failed(b).failures = b.failures + 1
<1>1. b.failures \in Nat /\ b.state \in {"closed", "open", "halfopen"}
  BY DEF Breaker
<1>2. HalfOpen(b) \in Breaker /\ HalfOpen(b).state = "halfopen" /\ HalfOpen(b).failures = 0
  BY <1>1 DEF Breaker, HalfOpen
<1>3. /\ Succeeded(b) \in Breaker /\ Succeeded(b).failures = 0
      /\ (Succeeded(b).state = "open") <=> (b.state = "open")
  BY <1>1 DEF Breaker, Succeeded
<1>4. Failed(b) \in Breaker /\ Failed(b).failures = b.failures + 1
  BY <1>1 DEF Breaker, Failed
<1>5. (Failed(b).state = "open") <=> (b.state = "open" \/ Trips(b))
  BY <1>1 DEF Failed
<1> QED
  BY <1>2, <1>3, <1>4, <1>5

-------------------------------------------------------------------------------
(* Types *)

LEMMA TypeOKInit == Init => TypeOK
BY ChainAssumption, RetriesAssumption
   DEF Init, TypeOK, Breaker, Steps, Admitted, IsOpen

LEMMA TypeOKNext == TypeOK /\ [Next]_vars => TypeOK'
<1> SUFFICES ASSUME TypeOK, [Next]_vars PROVE TypeOK'
  OBVIOUS
<1>1. ASSUME NEW c \in Calls, CheckMonth(c) \/ Drop(c) PROVE TypeOK'
  BY <1>1 DEF CheckMonth, Drop, TypeOK, Goto, Steps, Admitted, args, IsOpen
<1>2. ASSUME NEW c \in Calls, Arrivals(c) PROVE TypeOK'
  BY <1>2, ChainAssumption
     DEF Arrivals, Arrive, TypeOK, Goto, Steps, Admitted, IsOpen
<1>3. ASSUME NEW c \in Calls, Skip(c) PROVE TypeOK'
  BY <1>3, NextModelTypes DEF Skip, TypeOK, args, IsOpen
<1>4. ASSUME NEW c \in Calls, Pass(c) PROVE TypeOK'
  <2>1. provider[c] \in Providers /\ breaker[provider[c]] \in Breaker
    BY DEF TypeOK
  <2>2. /\ breaker' \in [Providers -> Breaker]
        /\ \A p \in Providers \ {provider[c]} : breaker'[p] = breaker[p]
    BY <1>4, <2>1, BreakerTypes DEF Pass, TypeOK
  <2>3. due' \subseteq {p \in Providers : IsOpen(p)'}
    BY <1>4, <2>2 DEF Pass, TypeOK, IsOpen
  <2>4. attempt' \in [Calls -> 0..MaxRetries] /\ pc' \in [Calls -> Steps]
    BY <1>4, RetriesAssumption DEF Pass, TypeOK, Goto, Steps, Admitted
  <2> QED
    BY <1>4, <2>2, <2>3, <2>4 DEF Pass, TypeOK, args
<1>5. ASSUME NEW c \in Calls, ChatOk(c) \/ ChatRetry(c) \/ ChatFail(c) PROVE TypeOK'
  <2>1. hits' \in [Providers -> Nat]
    BY <1>5 DEF ChatOk, ChatRetry, ChatFail, Chat, TypeOK
  <2>2. attempt' \in [Calls -> 0..MaxRetries]
    BY <1>5, RetriesAssumption
       DEF ChatOk, ChatRetry, ChatFail, Retries, NextAttempt, TypeOK
  <2>3. pc' \in [Calls -> Steps]
    BY <1>5 DEF ChatOk, ChatRetry, ChatFail, TypeOK, Goto, Steps, Admitted
  <2> QED
    BY <1>5, <2>1, <2>2, <2>3 DEF ChatOk, ChatRetry, ChatFail, Chat, TypeOK, args, IsOpen
<1>6. ASSUME NEW c \in Calls, RecordSuccess(c) PROVE TypeOK'
  <2>1. provider[c] \in Providers /\ breaker[provider[c]] \in Breaker
    BY DEF TypeOK
  <2>2. /\ breaker' \in [Providers -> Breaker]
        /\ \A p \in Providers : IsOpen(p)' <=> IsOpen(p)
    BY <1>6, <2>1, BreakerTypes DEF RecordSuccess, TypeOK, IsOpen
  <2> QED
    BY <1>6, <2>2 DEF RecordSuccess, TypeOK, Goto, Steps, Admitted, args
<1>7. ASSUME NEW c \in Calls, RecordFailure(c) PROVE TypeOK'
  <2>1. provider[c] \in Providers /\ breaker[provider[c]] \in Breaker
    BY DEF TypeOK
  <2>2. /\ breaker' \in [Providers -> Breaker]
        /\ \A p \in Providers : IsOpen(p) => IsOpen(p)'
    BY <1>7, <2>1, BreakerTypes DEF RecordFailure, TypeOK, IsOpen
  <2>3. hits' \in [Providers -> Nat] /\ due' \subseteq due
    BY <1>7 DEF RecordFailure, TypeOK
  <2>4. model' \in [Calls -> 1..ChainLength] /\ pc' \in [Calls -> Steps]
    BY <1>7, NextModelTypes DEF RecordFailure
  <2> QED
    BY <1>7, <2>2, <2>3, <2>4 DEF RecordFailure, TypeOK, args
<1>8. ASSUME NEW c \in Calls, Bill(c) PROVE TypeOK'
  <2>1. spent' \in [Periods -> Nat]
    BY <1>8, PriceAssumption DEF Bill, TypeOK
  <2> QED
    BY <1>8, <2>1 DEF Bill, TypeOK, Goto, Steps, args, IsOpen
<1>9. ASSUME NEW p \in Providers, Expire(p) PROVE TypeOK'
  BY <1>9 DEF Expire, TypeOK, args, IsOpen
<1>10. ASSUME NEW t \in Periods, Elapse(t) PROVE TypeOK'
  BY <1>10 DEF Elapse, TypeOK, args, IsOpen
<1>11. CASE UNCHANGED vars
  BY <1>11 DEF vars, TypeOK, IsOpen
<1> QED
  BY <1>1, <1>2, <1>3, <1>4, <1>5, <1>6, <1>7, <1>8, <1>9, <1>10, <1>11
     DEF Next, Proceed

\* The variables of the router keep their types, whatever the calls do.
THEOREM SpecTypeOK == Spec => []TypeOK
<1>1. Init => TypeOK
  BY TypeOKInit
<1>2. TypeOK /\ [Next]_vars => TypeOK'
  BY TypeOKNext
<1> QED
  BY <1>1, <1>2, PTL DEF Spec

-------------------------------------------------------------------------------
(* Breakers *)

\* What a step may do to a breaker: nothing, or one of the operations of CircuitBreaker,
\* and is_open half-opens an open one only when its timeout has passed.
BreakerStep(p) ==
    \/ breaker'[p] = breaker[p]
    \/ IsOpen(p) /\ p \in due /\ breaker'[p] = HalfOpen(breaker[p])
    \/ breaker'[p] = Succeeded(breaker[p])
    \/ breaker'[p] = Failed(breaker[p])

LEMMA NextBreaker ==
    ASSUME TypeOK, [Next]_vars, NEW p \in Providers
    PROVE  BreakerStep(p)
<1>1. ASSUME NEW c \in Calls, Pass(c) PROVE BreakerStep(p)
  BY <1>1 DEF Pass, Blocked, TypeOK, BreakerStep
<1>2. ASSUME NEW c \in Calls, RecordSuccess(c) \/ RecordFailure(c) PROVE BreakerStep(p)
  BY <1>2 DEF RecordSuccess, RecordFailure, TypeOK, BreakerStep
<1>3. CASE UNCHANGED breaker
  BY <1>3 DEF BreakerStep
<1> QED
  BY <1>1, <1>2, <1>3
     DEF Next, Proceed, vars, Arrivals, Arrive, CheckMonth, Skip, ChatOk, ChatRetry, ChatFail, Chat,
         Bill, Drop, Expire, Elapse

LEMMA BreakerStepKeeps ==
    ASSUME TypeOK, NEW p \in Providers, BreakerStep(p)
    PROVE  /\ (~IsOpen(p) => breaker[p].failures < Threshold)
                 => (~IsOpen(p)' => breaker'[p].failures < Threshold)
           /\ IsOpen(p) /\ ~IsOpen(p)' => p \in due
<1>1. breaker[p] \in Breaker /\ breaker[p].failures \in Nat
  BY DEF TypeOK, Breaker
<1>2. CASE breaker'[p] = breaker[p]
  BY <1>2 DEF IsOpen
<1>3. CASE IsOpen(p) /\ p \in due /\ breaker'[p] = HalfOpen(breaker[p])
  BY <1>1, <1>3, BreakerTypes, ThresholdAssumption DEF IsOpen
<1>4. CASE breaker'[p] = Succeeded(breaker[p])
  BY <1>1, <1>4, BreakerTypes, ThresholdAssumption DEF IsOpen
<1>5. CASE breaker'[p] = Failed(breaker[p])
  BY <1>1, <1>5, BreakerTypes, ThresholdAssumption DEF IsOpen, Trips
<1> QED
  BY <1>2, <1>3, <1>4, <1>5 DEF BreakerStep

\* A breaker that lets requests pass is below its threshold (record_failure, is_open).
THEOREM SpecClosedBelowThreshold == Spec => []ClosedBelowThreshold
<1>1. Init => ClosedBelowThreshold
  BY ThresholdAssumption DEF Init, ClosedBelowThreshold
<1>2. TypeOK /\ ClosedBelowThreshold /\ [Next]_vars => ClosedBelowThreshold'
  BY NextBreaker, BreakerStepKeeps DEF ClosedBelowThreshold
<1> QED
  BY <1>1, <1>2, SpecTypeOK, PTL DEF Spec

\* Nothing but its timeout ends the open state of a breaker (record_success).
THEOREM SpecOpenLasts == Spec => OpenLasts
<1>1. TypeOK /\ [Next]_vars => [\A p \in Providers : IsOpen(p) /\ ~IsOpen(p)' => p \in due]_vars
  BY NextBreaker, BreakerStepKeeps
<1> QED
  BY <1>1, SpecTypeOK, PTL DEF Spec, OpenLasts

-------------------------------------------------------------------------------
(* Spending *)

\* The calls that have passed the test of a period and may still add to it.
Counted(t) == IF t = "day" THEN Admitted ELSE Admitted \ {"month"}
UnderWay(t) == {c \in Calls : pc[c] \in Counted(t)}

\* SpendBounded is not inductive: it holds because each answer uses up a place that its call
\* has taken when the spending was below the cap.
SpendInv ==
    \A t \in Periods :
        spent[t] + MaxPrice * Cardinality(UnderWay(t)) < Cap[t] + MaxPrice * Cardinality(Calls)

LEMMA TimesMonotone ==
    ASSUME NEW m \in Nat, NEW a \in Nat, NEW b \in Nat, a <= b
    PROVE  m * a <= m * b
OBVIOUS

LEMMA UnderWayCounts ==
    ASSUME NEW t
    PROVE  /\ IsFiniteSet(UnderWay(t)) /\ Cardinality(UnderWay(t)) \in Nat
           /\ Cardinality(Calls) \in Nat
           /\ Cardinality(UnderWay(t)) <= Cardinality(Calls)
<1>1. UnderWay(t) \subseteq Calls
  BY DEF UnderWay
<1> QED
  BY <1>1, CallsAssumption, FS_Subset, FS_CardinalityType

\* The three ways a step can change a period's account.
AccountStep(t) ==
    \/ /\ UnderWay(t)' \subseteq UnderWay(t)
       /\ spent'[t] <= spent[t]
    \/ /\ spent'[t] = spent[t]
       /\ spent[t] < Cap[t]
    \/ /\ \E c \in UnderWay(t) : UnderWay(t)' = UnderWay(t) \ {c}
       /\ spent'[t] <= spent[t] + MaxPrice

LEMMA AccountStepKeeps ==
    ASSUME TypeOK, TypeOK', NEW t \in Periods, AccountStep(t),
           spent[t] + MaxPrice * Cardinality(UnderWay(t)) < Cap[t] + MaxPrice * Cardinality(Calls)
    PROVE  spent'[t] + MaxPrice * Cardinality(UnderWay(t)')
             < Cap[t] + MaxPrice * Cardinality(Calls)
<1> DEFINE k == Cardinality(UnderWay(t))
           n == Cardinality(UnderWay(t)')
           all == Cardinality(Calls)
<1>1. /\ k \in Nat /\ all \in Nat /\ IsFiniteSet(UnderWay(t))
      /\ spent[t] \in Nat /\ spent'[t] \in Nat /\ Cap[t] \in Nat /\ MaxPrice \in Nat
  BY UnderWayCounts, CapAssumption, PriceAssumption DEF TypeOK
<1>2. UnderWay(t)' \subseteq Calls
  BY DEF UnderWay
<1>3. n \in Nat /\ n <= all
  BY <1>2, CallsAssumption, FS_Subset, FS_CardinalityType
<1>4. MaxPrice * n \in Nat /\ MaxPrice * k \in Nat /\ MaxPrice * all \in Nat
  BY <1>1, <1>3
<1>5. CASE UnderWay(t)' \subseteq UnderWay(t) /\ spent'[t] <= spent[t]
  <2>1. n <= k
    BY <1>1, <1>5, FS_Subset
  <2>2. MaxPrice * n <= MaxPrice * k
    BY <1>1, <1>3, <2>1, TimesMonotone
  <2> QED
    BY <1>1, <1>4, <1>5, <2>2
<1>6. CASE spent'[t] = spent[t] /\ spent[t] < Cap[t]
  <2>1. MaxPrice * n <= MaxPrice * all
    BY <1>1, <1>3, TimesMonotone
  <2> QED
    BY <1>1, <1>4, <1>6, <2>1
<1>7. CASE /\ \E c \in UnderWay(t) : UnderWay(t)' = UnderWay(t) \ {c}
           /\ spent'[t] <= spent[t] + MaxPrice
  <2>1. n = k - 1
    BY <1>1, <1>7, FS_RemoveElement
  <2>2. MaxPrice * n = MaxPrice * k - MaxPrice
    BY <1>1, <1>3, <2>1
  <2> QED
    BY <1>1, <1>4, <1>7, <2>2
<1> QED
  BY <1>5, <1>6, <1>7 DEF AccountStep

LEMMA NextAccount ==
    ASSUME TypeOK, TypeOK', [Next]_vars, NEW t \in Periods
    PROVE  AccountStep(t)
<1> USE DEF AccountStep, UnderWay, Counted, Goto, Periods
<1>0. spent[t] \in Nat /\ MaxPrice \in Nat /\ t \in {"day", "month"}
      /\ Cap[t] \in Nat /\ pc \in [Calls -> Steps]
  BY CapAssumption, PriceAssumption DEF TypeOK
<1>1. ASSUME NEW c \in Calls, Arrivals(c) PROVE AccountStep(t)
  <2>1. CASE t = "day"
    BY <1>0, <1>1, <2>1 DEF Arrivals, Arrive, OverBudget, Admitted
  <2>2. CASE t = "month"
    BY <1>0, <1>1, <2>2 DEF Arrivals, Arrive, Admitted
  <2> QED
    BY <1>0, <2>1, <2>2
<1>2. ASSUME NEW c \in Calls, CheckMonth(c) PROVE AccountStep(t)
  <2>1. CASE t = "day"
    BY <1>0, <1>2, <2>1 DEF CheckMonth, Admitted
  <2>2. CASE t = "month"
    BY <1>0, <1>2, <2>2 DEF CheckMonth, OverBudget, Admitted
  <2> QED
    BY <1>0, <2>1, <2>2
<1>3. ASSUME NEW c \in Calls, Skip(c) \/ RecordFailure(c) PROVE AccountStep(t)
  BY <1>0, <1>3 DEF Skip, RecordFailure, NextModel, Admitted
<1>4. ASSUME NEW c \in Calls, Pass(c) \/ RecordSuccess(c) \/ Drop(c) PROVE AccountStep(t)
  BY <1>0, <1>4 DEF Pass, RecordSuccess, Drop, Admitted
<1>5. ASSUME NEW c \in Calls, ChatOk(c) \/ ChatRetry(c) \/ ChatFail(c) PROVE AccountStep(t)
  BY <1>0, <1>5 DEF ChatOk, ChatRetry, ChatFail, Chat, Admitted
<1>6. ASSUME NEW c \in Calls, Bill(c) PROVE AccountStep(t)
  <2>1. c \in UnderWay(t) /\ UnderWay(t)' = UnderWay(t) \ {c}
    BY <1>0, <1>6 DEF Bill, Admitted
  <2>2. spent'[t] <= spent[t] + MaxPrice
    BY <1>0, <1>6 DEF Bill
  <2> QED
    BY <2>1, <2>2
<1>7. ASSUME NEW p \in Providers, Expire(p) PROVE AccountStep(t)
  BY <1>0, <1>7 DEF Expire
<1>8. ASSUME NEW u \in Periods, Elapse(u) PROVE AccountStep(t)
  BY <1>0, <1>8 DEF Elapse, TypeOK
<1>9. CASE UNCHANGED vars
  BY <1>0, <1>9 DEF vars
<1> QED
  BY <1>1, <1>2, <1>3, <1>4, <1>5, <1>6, <1>7, <1>8, <1>9 DEF Next, Proceed

\* However many calls were admitted before the cap was reached, they overdraw it by no more
\* than what that many answers cost (check_budget, record).
THEOREM SpecSpendBounded == Spec => []SpendBounded
<1>1. Init => SpendInv
  <2> SUFFICES ASSUME Init, NEW t \in Periods
      PROVE  spent[t] + MaxPrice * Cardinality(UnderWay(t))
               < Cap[t] + MaxPrice * Cardinality(Calls)
    BY DEF SpendInv
  <2>1. UnderWay(t) = {} /\ spent[t] = 0
    BY DEF Init, UnderWay, Counted, Admitted
  <2>2. Cardinality(UnderWay(t)) = 0 /\ Cardinality(Calls) \in Nat
    BY <2>1, FS_EmptySet, UnderWayCounts
  <2>3. MaxPrice * Cardinality(Calls) \in Nat /\ MaxPrice * 0 = 0 /\ Cap[t] \in Nat \ {0}
    BY <2>2, PriceAssumption, CapAssumption
  <2> QED
    BY <2>1, <2>2, <2>3
<1>2. TypeOK /\ TypeOK' /\ SpendInv /\ [Next]_vars => SpendInv'
  BY NextAccount, AccountStepKeeps DEF SpendInv
<1>3. TypeOK /\ SpendInv => SpendBounded
  <2> SUFFICES ASSUME TypeOK, SpendInv, NEW t \in Periods
      PROVE  spent[t] < Cap[t] + Cardinality(Calls) * MaxPrice
    BY DEF SpendBounded
  <2>1. /\ spent[t] \in Nat /\ Cap[t] \in Nat /\ MaxPrice \in Nat
        /\ Cardinality(Calls) \in Nat /\ Cardinality(UnderWay(t)) \in Nat
    BY UnderWayCounts, CapAssumption, PriceAssumption DEF TypeOK
  <2>2. /\ MaxPrice * Cardinality(UnderWay(t)) \in Nat
        /\ MaxPrice * Cardinality(Calls) = Cardinality(Calls) * MaxPrice
    BY <2>1
  <2> QED
    BY <2>1, <2>2 DEF SpendInv
<1> QED
  BY <1>1, <1>2, <1>3, SpecTypeOK, PTL DEF Spec
-------------------------------------------------------------------------------
(* Open breakers *)

\* The requests that calls which passed before may still send to a provider: of each such
\* call, the attempts it has left.
Left(p) == {x \in Calls \X (0 .. MaxRetries) :
              pc[x[1]] = "chat" /\ provider[x[1]] = p /\ attempt[x[1]] <= x[2]}

\* OpenDrains is not inductive: it holds because each request uses up one that was left when
\* the breaker opened, and no call gets new ones while it stays open.
DrainInv ==
    \A p \in Providers : IsOpen(p) =>
        hits[p] + Cardinality(Left(p)) <= (Cardinality(Calls) - 1) * (MaxRetries + 1)

\* The three ways a step can change the account of a breaker that is open after it.
DrainStep(p) ==
    \/ /\ IsOpen(p)
       /\ Left(p)' \subseteq Left(p)
       /\ hits'[p] = hits[p]
    \/ /\ IsOpen(p)
       /\ \E x \in Left(p) : Left(p)' \subseteq Left(p) \ {x}
       /\ hits'[p] = hits[p] + 1
    \/ /\ \E c \in Calls : Left(p)' \subseteq (Calls \ {c}) \X (0 .. MaxRetries)
       /\ hits'[p] = 0

LEMMA AttemptsAreFinite == IsFiniteSet(Calls \X (0 .. MaxRetries))
<1>1. IsFiniteSet(0 .. MaxRetries)
  BY RetriesAssumption, FS_Interval
<1> QED
  BY <1>1, CallsAssumption, FS_Product

LEMMA LeftIsFinite ==
    ASSUME NEW p
    PROVE  IsFiniteSet(Left(p)) /\ Cardinality(Left(p)) \in Nat
<1>1. IsFiniteSet(Calls \X (0 .. MaxRetries))
  BY AttemptsAreFinite
<1>2. Left(p) \subseteq Calls \X (0 .. MaxRetries)
  BY DEF Left
<1> QED
  BY <1>1, <1>2, FS_Subset, FS_CardinalityType

\* Without the call that trips the breaker there are this many attempts at most.
LEMMA AttemptsOfOthers ==
    ASSUME NEW c \in Calls, NEW S, S \subseteq (Calls \ {c}) \X (0 .. MaxRetries)
    PROVE  Cardinality(S) <= (Cardinality(Calls) - 1) * (MaxRetries + 1)
<1> DEFINE others == Calls \ {c}
           tries == 0 .. MaxRetries
<1>1. IsFiniteSet(others) /\ Cardinality(others) = Cardinality(Calls) - 1
  BY CallsAssumption, FS_RemoveElement
<1>2. IsFiniteSet(tries) /\ Cardinality(tries) = MaxRetries + 1
  BY RetriesAssumption, FS_Interval
<1>3. /\ IsFiniteSet(others \X tries)
      /\ Cardinality(others \X tries) = Cardinality(others) * Cardinality(tries)
  BY <1>1, <1>2, FS_Product
<1>4. Cardinality(S) <= Cardinality(others \X tries)
  BY <1>3, FS_Subset
<1> QED
  BY <1>1, <1>2, <1>3, <1>4

LEMMA NextDrain ==
    ASSUME TypeOK, TypeOK', [Next]_vars, NEW p \in Providers, IsOpen(p)'
    PROVE  DrainStep(p)
<1> USE DEF DrainStep, Left, Goto
<1>0. /\ pc \in [Calls -> Steps] /\ provider \in [Calls -> Providers]
      /\ attempt \in [Calls -> 0 .. MaxRetries] /\ MaxRetries \in Nat
      /\ hits \in [Providers -> Nat] /\ breaker \in [Providers -> Breaker]
  BY RetriesAssumption DEF TypeOK
<1>1. ASSUME NEW c \in Calls, Arrivals(c) PROVE DrainStep(p)
  BY <1>0, <1>1 DEF Arrivals, Arrive, IsOpen
<1>2. ASSUME NEW c \in Calls, CheckMonth(c) \/ Bill(c) \/ Drop(c) PROVE DrainStep(p)
  BY <1>0, <1>2 DEF CheckMonth, Bill, Drop, args, IsOpen
<1>3. ASSUME NEW c \in Calls, Skip(c) PROVE DrainStep(p)
  BY <1>0, <1>3 DEF Skip, NextModel, args, IsOpen
<1>4. ASSUME NEW c \in Calls, Pass(c) PROVE DrainStep(p)
  <2>1. provider[c] # p
    <3> DEFINE q == provider[c]
    <3>1. q \in Providers /\ breaker[q] \in Breaker
      BY <1>0
    <3>2. breaker'[q].state # "open"
      BY <1>0, <1>4, <3>1, BreakerTypes DEF Pass, IsOpen
    <3> QED
      BY <3>2 DEF IsOpen
  <2> QED
    BY <1>0, <1>4, <2>1 DEF Pass, args, IsOpen
<1>5. ASSUME NEW c \in Calls, ChatOk(c) \/ ChatRetry(c) \/ ChatFail(c) PROVE DrainStep(p)
  <2>1. IsOpen(p)
    BY <1>5 DEF ChatOk, ChatRetry, ChatFail, Chat, IsOpen
  <2>2. pc[c] = "chat" /\ provider' = provider
    BY <1>5 DEF ChatOk, ChatRetry, ChatFail, Chat, args
  <2>3. \A d \in Calls \ {c} : pc'[d] = pc[d] /\ attempt'[d] = attempt[d]
    BY <1>0, <1>5 DEF ChatOk, ChatRetry, ChatFail
  <2>4. pc'[c] # "chat" \/ attempt'[c] = attempt[c] + 1
    BY <1>0, <1>5 DEF ChatOk, ChatRetry, ChatFail, NextAttempt
  <2>5. CASE provider[c] # p
    <3>1. hits'[p] = hits[p]
      BY <1>0, <1>5, <2>5 DEF ChatOk, ChatRetry, ChatFail, Chat
    <3> QED
      BY <1>0, <2>1, <2>2, <2>3, <2>5, <3>1
  <2>6. CASE provider[c] = p
    <3>1. hits'[p] = hits[p] + 1
      BY <1>0, <1>5, <2>1, <2>6 DEF ChatOk, ChatRetry, ChatFail, Chat
    <3>2. <<c, attempt[c]>> \in Left(p)
      BY <1>0, <2>2, <2>6
    <3>3. Left(p)' \subseteq Left(p) \ {<<c, attempt[c]>>}
      BY <1>0, <2>2, <2>3, <2>4, <2>6
    <3> QED
      BY <2>1, <3>1, <3>2, <3>3
  <2> QED
    BY <2>5, <2>6
<1>6. ASSUME NEW c \in Calls, RecordSuccess(c) PROVE DrainStep(p)
  <2>1. IsOpen(p)
    BY <1>0, <1>6, BreakerTypes DEF RecordSuccess, IsOpen
  <2> QED
    BY <1>0, <1>6, <2>1 DEF RecordSuccess, args
<1>7. ASSUME NEW c \in Calls, RecordFailure(c) PROVE DrainStep(p)
  <2>1. /\ pc[c] = "lost" /\ pc'[c] # "chat" /\ provider' = provider /\ attempt' = attempt
        /\ \A d \in Calls \ {c} : pc'[d] = pc[d]
    BY <1>0, <1>7 DEF RecordFailure, NextModel, args
  <2>2. Left(p)' \subseteq Left(p) /\ Left(p)' \subseteq (Calls \ {c}) \X (0 .. MaxRetries)
    BY <2>1
  <2>3. CASE IsOpen(p)
    BY <1>0, <1>7, <2>2, <2>3 DEF RecordFailure
  <2>4. CASE ~IsOpen(p)
    <3>1. provider[c] = p
      BY <1>0, <1>7, <2>4 DEF RecordFailure, IsOpen
    <3>2. hits'[p] = 0
      BY <1>0, <1>7, <2>4, <3>1 DEF RecordFailure
    <3> QED
      BY <2>2, <3>2
  <2> QED
    BY <2>3, <2>4
<1>8. CASE (\E q \in Providers : Expire(q)) \/ (\E t \in Periods : Elapse(t)) \/ UNCHANGED vars
  BY <1>0, <1>8 DEF Expire, Elapse, vars, args, IsOpen
<1> QED
  BY <1>1, <1>2, <1>3, <1>4, <1>5, <1>6, <1>7, <1>8 DEF Next, Proceed

LEMMA DrainStepKeeps ==
    ASSUME TypeOK, TypeOK', NEW p \in Providers, DrainStep(p),
           IsOpen(p) => hits[p] + Cardinality(Left(p))
                          <= (Cardinality(Calls) - 1) * (MaxRetries + 1)
    PROVE  hits'[p] + Cardinality(Left(p)') <= (Cardinality(Calls) - 1) * (MaxRetries + 1)
<1> DEFINE k == Cardinality(Left(p))
           n == Cardinality(Left(p)')
           bound == (Cardinality(Calls) - 1) * (MaxRetries + 1)
<1>1. IsFiniteSet(Left(p)) /\ k \in Nat
  BY LeftIsFinite
<1>2. n \in Nat
  <2>1. IsFiniteSet(Calls \X (0 .. MaxRetries))
    BY AttemptsAreFinite
  <2>2. Left(p)' \subseteq Calls \X (0 .. MaxRetries)
    BY DEF Left
  <2> QED
    BY <2>1, <2>2, FS_Subset, FS_CardinalityType
<1>3. hits[p] \in Nat /\ hits'[p] \in Nat
  BY DEF TypeOK
<1>4. bound \in Int
  BY CallsAssumption, FS_CardinalityType, RetriesAssumption
<1>5. CASE IsOpen(p) /\ Left(p)' \subseteq Left(p) /\ hits'[p] = hits[p]
  <2>1. n <= k
    BY <1>1, <1>5, FS_Subset
  <2> HIDE DEF bound
  <2> QED
    BY <1>1, <1>2, <1>3, <1>4, <1>5, <2>1 DEF bound
<1>6. ASSUME IsOpen(p), NEW x \in Left(p), Left(p)' \subseteq Left(p) \ {x},
             hits'[p] = hits[p] + 1
      PROVE  hits'[p] + n <= bound
  <2>1. IsFiniteSet(Left(p) \ {x}) /\ Cardinality(Left(p) \ {x}) = k - 1
    BY <1>1, FS_RemoveElement
  <2>2. n <= k - 1
    BY <1>6, <2>1, FS_Subset
  <2> QED
    BY <1>1, <1>2, <1>3, <1>4, <1>6, <2>2
<1>7. ASSUME NEW c \in Calls, Left(p)' \subseteq (Calls \ {c}) \X (0 .. MaxRetries),
             hits'[p] = 0
      PROVE  hits'[p] + n <= bound
  <2>1. n <= bound
    BY <1>7, AttemptsOfOthers
  <2> HIDE DEF bound, n
  <2> QED
    BY <1>2, <1>4, <1>7, <2>1
<1> QED
  BY <1>5, <1>6, <1>7 DEF DrainStep

\* Whatever the calls, retries, timeouts and late answers, a provider whose breaker is open is
\* sent no more than what the other calls had left when it opened.
THEOREM SpecOpenDrains == Spec => []OpenDrains
<1>1. Init => DrainInv
  BY DEF Init, DrainInv, IsOpen
<1>2. TypeOK /\ TypeOK' /\ DrainInv /\ [Next]_vars => DrainInv'
  <2> SUFFICES ASSUME TypeOK, TypeOK', DrainInv, [Next]_vars, NEW p \in Providers, IsOpen(p)'
               PROVE  hits'[p] + Cardinality(Left(p)')
                        <= (Cardinality(Calls) - 1) * (MaxRetries + 1)
    BY DEF DrainInv
  <2> QED
    BY NextDrain, DrainStepKeeps DEF DrainInv
<1>3. TypeOK /\ DrainInv => OpenDrains
  <2> SUFFICES ASSUME TypeOK, DrainInv, NEW p \in Providers, IsOpen(p)
               PROVE  hits[p] <= (Cardinality(Calls) - 1) * (MaxRetries + 1)
    BY DEF OpenDrains
  <2> DEFINE bound == (Cardinality(Calls) - 1) * (MaxRetries + 1)
  <2>1. hits[p] \in Nat /\ Cardinality(Left(p)) \in Nat /\ bound \in Int
    BY LeftIsFinite, CallsAssumption, FS_CardinalityType, RetriesAssumption DEF TypeOK
  <2>2. hits[p] + Cardinality(Left(p)) <= bound
    BY DEF DrainInv
  <2> HIDE DEF bound
  <2>3. hits[p] <= bound
    BY <2>1, <2>2
  <2> QED
    BY <2>3 DEF bound
<1> QED
  BY <1>1, <1>2, <1>3, SpecTypeOK, PTL DEF Spec

-------------------------------------------------------------------------------
(* The steps of a call *)

\* The steps a call can still take: of the model it is at, and of a whole round for each model
\* that may follow in the chain.
Round == MaxRetries + 4
StepsHere(c) ==
    CASE pc[c] = "idle"           -> 0
      [] pc[c] = "month"          -> Round + 1
      [] pc[c] = "gate"           -> Round
      [] pc[c] = "chat"           -> MaxRetries - attempt[c] + 3
      [] pc[c] \in {"won", "lost"} -> 2
      [] pc[c] = "bill"           -> 1
StepsLeft(c) == IF pc[c] = "idle" THEN 0 ELSE (ChainLength - model[c]) * Round + StepsHere(c)

\* A step of a call uses one of its steps up, and nothing but the arrival of the next call
\* gives a place new ones: neither other calls, nor a breaker, a timeout or a new day.
StepsUsed ==
    [][\A c \in Calls :
          /\ StepsLeft(c) \in Nat
          /\ Proceed(c) => StepsLeft(c)' < StepsLeft(c)
          /\ ~Arrivals(c) => StepsLeft(c)' <= StepsLeft(c)]_vars

\* A round less for a model more.
LEMMA Rounds ==
    ASSUME NEW m \in 1 .. ChainLength
    PROVE  /\ Round \in Nat
           /\ (ChainLength - m) * Round \in Nat
           /\ m < ChainLength =>
                 (ChainLength - m) * Round = (ChainLength - (m + 1)) * Round + Round
<1>1. Round \in Nat /\ ChainLength - m \in Nat
  BY RetriesAssumption, ChainAssumption DEF Round
<1> DEFINE n == ChainLength - m
<1>2. m < ChainLength => ChainLength - (m + 1) = n - 1
  BY ChainAssumption
<1> HIDE DEF n, Round
<1>3. n * Round \in Nat /\ (n - 1) * Round + Round = n * Round
  BY <1>1 DEF n
<1> QED
  BY <1>1, <1>2, <1>3 DEF n

\* What a call has left is a number, and at least what it has left of the model it is at.
LEMMA StepsAreCounted ==
    ASSUME TypeOK, NEW c \in Calls
    PROVE  /\ StepsHere(c) \in Nat /\ StepsLeft(c) \in Nat
           /\ pc[c] # "idle" => StepsHere(c) >= 1
<1>1. /\ pc[c] \in Steps /\ model[c] \in 1 .. ChainLength /\ attempt[c] \in 0 .. MaxRetries
      /\ MaxRetries \in Nat
  BY RetriesAssumption DEF TypeOK
<1>2. StepsHere(c) \in Nat /\ (pc[c] # "idle" => StepsHere(c) >= 1)
  BY <1>1 DEF StepsHere, Steps, Admitted, Round
<1>3. (ChainLength - model[c]) * Round \in Nat
  BY <1>1, Rounds
<1> QED
  BY <1>2, <1>3 DEF StepsLeft

\* The next model of the chain costs the call a round, the end of the chain all it has.
LEMMA NextModelUses ==
    ASSUME TypeOK, NEW c \in Calls, NextModel(c), pc[c] \in {"gate", "lost"}
    PROVE  StepsLeft(c)' < StepsLeft(c)
<1>1. /\ pc \in [Calls -> Steps] /\ model \in [Calls -> 1 .. ChainLength]
      /\ model[c] \in 1 .. ChainLength /\ ChainLength \in Nat /\ MaxRetries \in Nat
  BY ChainAssumption, RetriesAssumption DEF TypeOK
<1>2. StepsHere(c) \in Nat /\ StepsHere(c) >= 1 /\ StepsLeft(c) \in Nat
  BY StepsAreCounted
<1>3. /\ StepsLeft(c) = (ChainLength - model[c]) * Round + StepsHere(c)
      /\ (ChainLength - model[c]) * Round \in Nat
  BY <1>1, Rounds DEF StepsLeft
<1>4. CASE HasFallback(c)
  <2>1. model'[c] = model[c] + 1 /\ pc'[c] = "gate" /\ model[c] < ChainLength
    BY <1>1, <1>4 DEF NextModel, Goto, HasFallback
  <2>2. StepsLeft(c)' = (ChainLength - (model[c] + 1)) * Round + Round
    BY <2>1 DEF StepsLeft, StepsHere, Round
  <2>3. StepsLeft(c)' = (ChainLength - model[c]) * Round
    BY <1>1, <2>1, <2>2, Rounds
  <2> QED
    BY <1>2, <1>3, <2>3
<1>5. CASE ~HasFallback(c)
  <2>1. pc'[c] = "idle"
    BY <1>1, <1>5 DEF NextModel, Goto
  <2>2. StepsLeft(c)' = 0
    BY <2>1 DEF StepsLeft
  <2> QED
    BY <1>2, <1>3, <2>2
<1> QED
  BY <1>4, <1>5

LEMMA ProceedUses ==
    ASSUME TypeOK, TypeOK', NEW c \in Calls, Proceed(c)
    PROVE  StepsLeft(c)' < StepsLeft(c)
<1>1. /\ pc \in [Calls -> Steps] /\ attempt \in [Calls -> 0 .. MaxRetries]
      /\ model[c] \in 1 .. ChainLength
      /\ attempt[c] \in 0 .. MaxRetries /\ MaxRetries \in Nat
  BY RetriesAssumption DEF TypeOK
<1>2. StepsHere(c) \in Nat /\ (pc[c] # "idle" => StepsHere(c) >= 1)
  BY StepsAreCounted
<1> DEFINE rest == (ChainLength - model[c]) * Round
<1>3. rest \in Nat /\ (pc[c] # "idle" => StepsLeft(c) = rest + StepsHere(c))
  BY <1>1, Rounds DEF StepsLeft
<1>4. model'[c] = model[c] => StepsLeft(c)' = IF pc'[c] = "idle" THEN 0 ELSE rest + StepsHere(c)'
  BY DEF StepsLeft
<1>5. CASE Skip(c) \/ RecordFailure(c)
  BY <1>5, NextModelUses DEF Skip, RecordFailure
<1>6. ASSUME model'[c] = model[c], pc[c] # "idle",
             pc'[c] = "idle" \/ (StepsHere(c)' \in Nat /\ StepsHere(c)' < StepsHere(c))
      PROVE  StepsLeft(c)' < StepsLeft(c)
  <2> HIDE DEF rest
  <2> QED
    BY <1>2, <1>3, <1>4, <1>6
<1>7. CASE CheckMonth(c) \/ Bill(c) \/ RecordSuccess(c)
  BY <1>1, <1>6, <1>7 DEF CheckMonth, Bill, RecordSuccess, Goto, StepsHere, Round
<1>8. CASE Pass(c)
  <2>1. /\ pc[c] = "gate" /\ pc'[c] = "chat" /\ attempt'[c] = 0 /\ model'[c] = model[c]
    BY <1>1, <1>8 DEF Pass, Goto
  <2> QED
    BY <1>1, <1>6, <2>1 DEF StepsHere, Round
<1>9. CASE ChatOk(c) \/ ChatFail(c)
  BY <1>1, <1>6, <1>9 DEF ChatOk, ChatFail, Chat, Goto, StepsHere
<1>10. CASE ChatRetry(c)
  <2>1. /\ pc[c] = "chat" /\ pc'[c] = "chat" /\ model'[c] = model[c]
        /\ attempt'[c] = attempt[c] + 1 /\ attempt'[c] \in 0 .. MaxRetries
    BY <1>1, <1>10 DEF ChatRetry, Chat, NextAttempt, Retries
  <2> QED
    BY <1>1, <1>6, <2>1 DEF StepsHere
<1> QED
  BY <1>5, <1>7, <1>8, <1>9, <1>10 DEF Proceed

LEMMA OthersUseNone ==
    ASSUME TypeOK, [Next]_vars, NEW c \in Calls, ~Arrivals(c), ~Proceed(c)
    PROVE  StepsLeft(c)' <= StepsLeft(c)
<1>1. /\ pc \in [Calls -> Steps] /\ model \in [Calls -> 1 .. ChainLength]
      /\ attempt \in [Calls -> 0 .. MaxRetries]
  BY DEF TypeOK
<1>2. StepsLeft(c) \in Nat
  BY StepsAreCounted
<1>3. ASSUME pc'[c] = pc[c], model'[c] = model[c], attempt'[c] = attempt[c]
      PROVE  StepsLeft(c)' = StepsLeft(c)
  BY <1>3 DEF StepsLeft, StepsHere
<1>4. ASSUME NEW d \in Calls \ {c}, Arrivals(d) \/ Proceed(d)
      PROVE  pc'[c] = pc[c] /\ model'[c] = model[c] /\ attempt'[c] = attempt[c]
  BY <1>1, <1>4 DEF Arrivals, Arrive, Proceed, CheckMonth, Skip, Pass, ChatOk, ChatRetry,
                    ChatFail, Chat, RecordSuccess, RecordFailure, Bill, NextModel, Goto
<1>5. ASSUME NEW d \in Calls, Drop(d)
      PROVE  pc'[c] = "idle" \/ (pc'[c] = pc[c] /\ model'[c] = model[c] /\ attempt'[c] = attempt[c])
  BY <1>1, <1>5 DEF Drop, Goto
<1>6. ASSUME (\E p \in Providers : Expire(p)) \/ (\E t \in Periods : Elapse(t)) \/ UNCHANGED vars
      PROVE  pc'[c] = pc[c] /\ model'[c] = model[c] /\ attempt'[c] = attempt[c]
  BY <1>6 DEF Expire, Elapse, vars
<1>7. pc'[c] = "idle" => StepsLeft(c)' = 0
  BY DEF StepsLeft
<1>8. \/ pc'[c] = "idle"
      \/ pc'[c] = pc[c] /\ model'[c] = model[c] /\ attempt'[c] = attempt[c]
  BY <1>4, <1>5, <1>6 DEF Next
<1> QED
  BY <1>2, <1>3, <1>7, <1>8

\* The part of CallsSettle that is no matter of scheduling: retries, fallbacks and breakers
\* give a call a number of steps when it arrives and never another one.
THEOREM SpecStepsUsed == Spec => StepsUsed
<1>1. TypeOK => \A c \in Calls : StepsLeft(c) \in Nat
  BY StepsAreCounted
<1>2. TypeOK /\ TypeOK' /\ (\A c \in Calls : StepsLeft(c) \in Nat)' /\ [Next]_vars =>
         [\A c \in Calls :
             /\ StepsLeft(c) \in Nat
             /\ Proceed(c) => StepsLeft(c)' < StepsLeft(c)
             /\ ~Arrivals(c) => StepsLeft(c)' <= StepsLeft(c)]_vars
  <2> SUFFICES ASSUME TypeOK, TypeOK', [Next]_vars, NEW c \in Calls, StepsLeft(c)' \in Nat
               PROVE  /\ StepsLeft(c) \in Nat
                      /\ Proceed(c) => StepsLeft(c)' < StepsLeft(c)
                      /\ ~Arrivals(c) => StepsLeft(c)' <= StepsLeft(c)
    OBVIOUS
  <2>1. StepsLeft(c) \in Nat
    BY StepsAreCounted
  <2>2. Proceed(c) => StepsLeft(c)' < StepsLeft(c)
    BY ProceedUses
  <2>3. ~Proceed(c) /\ ~Arrivals(c) => StepsLeft(c)' <= StepsLeft(c)
    BY OthersUseNone
  <2> HIDE DEF StepsLeft
  <2> QED
    BY <2>1, <2>2, <2>3
<1> QED
  BY <1>1, <1>2, SpecTypeOK, PTL DEF Spec, StepsUsed

===================================================================================
