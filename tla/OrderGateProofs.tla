--------------------------- MODULE OrderGateProofs ---------------------------
(***************************************************************************)
(* The gate keeps its promise for every window, rate and behaviour.        *)
(***************************************************************************)
EXTENDS OrderGate, Lemmas

\* What is typed is what Lemmas calls a log by now.
LEMMA TypeIsLog ==
  TypeOK <=> now \in Nat /\ open \in BOOLEAN /\ LogBy(admitted, now)
BY DEF TypeOK, LogBy

\* The admission log is a log of times that have come, in clock order.
THEOREM TypeCorrect == Spec => []TypeOK
<1>1. Init => TypeOK
  BY EmptySeq DEF Init, TypeOK
<1>2. TypeOK /\ [Next]_vars => TypeOK'
  <2> SUFFICES ASSUME TypeOK, [Next]_vars PROVE TypeOK'
    OBVIOUS
  <2>0. now \in Nat /\ open \in BOOLEAN /\ LogBy(admitted, now)
    BY TypeIsLog
  <2>1. CASE Pass
    <3>1. LogBy(admitted, now + 1)
      BY <2>0, LogLater
    <3> QED
      BY <2>0, <2>1, <3>1 DEF Pass, TypeOK, LogBy
  <2>2. CASE Admit
    <3>1. LogBy(Append(admitted, now), now)
      BY <2>0, LogAppend
    <3> QED
      BY <2>0, <2>2, <3>1 DEF Admit, TypeOK, LogBy
  <2>3. CASE Close
    BY <2>3 DEF Close, TypeOK
  <2>4. CASE UNCHANGED vars
    BY <2>4 DEF vars, TypeOK
  <2> QED
    BY <2>1, <2>2, <2>3, <2>4 DEF Next
<1> QED
  BY <1>1, <1>2, PTL DEF Spec

\* Admitting an order when fewer than MaxPerWindow are recent overfills no
\* window: the only windows that gain an entry hold recent orders alone.
LEMMA AdmitKeepsRate ==
  ASSUME GateAssumption, TypeOK, RateBound, Admit
  PROVE  RateBound'
<1>0. now \in Nat /\ LogBy(admitted, now) /\ Window \in Nat /\ MaxPerWindow \in Nat
  BY TypeIsLog DEF GateAssumption
<1> DEFINE log2 == Append(admitted, now)
<1>1. admitted' = log2
  BY DEF Admit
<1>3. Cardinality(Young(log2, now, Window)) <= MaxPerWindow
  <2>1. Cardinality(Young(log2, now, Window))
          = Cardinality(Young(admitted, now, Window)) + 1
    BY <1>0, YoungAppend
  <2>2. Young(admitted, now, Window) = Recent
    BY DEF Young, Recent
  <2>3. Cardinality(Young(admitted, now, Window)) \in Nat
    BY <1>0, PositionsFinite DEF LogBy, Young
  <2>4. Cardinality(Recent) < MaxPerWindow
    BY DEF Admit
  <2> QED
    BY <1>0, <2>1, <2>2, <2>3, <2>4
<1>4. \A i \in DOMAIN admitted :
        Cardinality(InWindow(admitted, admitted[i], Window)) <= MaxPerWindow
  BY DEF RateBound, InWindow
<1>5. \A i \in DOMAIN log2 :
        Cardinality(InWindow(log2, log2[i], Window)) <= MaxPerWindow
  BY <1>0, <1>3, <1>4, RateAppend
<1> QED
  BY <1>1, <1>5 DEF RateBound, InWindow

\* In any interval of Window ticks at most MaxPerWindow orders are let through.
THEOREM RateIsBounded ==
  ASSUME GateAssumption
  PROVE  Spec => []RateBound
<1>1. Init => RateBound
  BY DEF Init, RateBound
<1>2. TypeOK /\ RateBound /\ [Next]_vars => RateBound'
  <2> SUFFICES ASSUME TypeOK, RateBound, [Next]_vars PROVE RateBound'
    OBVIOUS
  <2>1. CASE Pass
    BY <2>1 DEF Pass, RateBound
  <2>2. CASE Admit
    BY <2>2, AdmitKeepsRate
  <2>3. CASE Close
    BY <2>3 DEF Close, RateBound
  <2>4. CASE UNCHANGED vars
    BY <2>4 DEF vars, RateBound
  <2> QED
    BY <2>1, <2>2, <2>3, <2>4 DEF Next
<1> QED
  BY <1>1, <1>2, TypeCorrect, PTL DEF Spec

=============================================================================
