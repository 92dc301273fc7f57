------------------------------ MODULE OrderGate ------------------------------
(***************************************************************************)
(* What the risk controls promise about the orders they let through,       *)
(* independently of how app/engines/risk_engine.py keeps its book: a gate  *)
(* that is open until it is closed once and for all, and that lets at most *)
(* MaxPerWindow orders through in any interval of Window clock ticks, both *)
(* ends included.  RiskEngine and ExecutionEngine are shown to implement   *)
(* it.                                                                     *)
(***************************************************************************)
EXTENDS Integers, Sequences, FiniteSets

CONSTANTS
  Window,        \* length of the sliding window (1.0 s), in clock ticks
  MaxPerWindow,  \* config.max_orders_per_sec
  MaxTime,       \* bound: the clock stops here
  MaxCalls       \* bound: orders a behaviour may try to send

\* What the promise asks of the values of the constants.
GateAssumption ==
  /\ Window \in Nat
  /\ MaxPerWindow \in Nat

VARIABLES
  now,       \* the clock
  admitted,  \* when each order was let through, oldest first
  open       \* FALSE once the kill switch is active

vars == <<now, admitted, open>>

\* The orders let through no more than Window ticks ago.
Recent == {i \in DOMAIN admitted : now - admitted[i] <= Window}

Init ==
  /\ now = 0
  /\ admitted = << >>
  /\ open = TRUE

Pass ==
  /\ now < MaxTime
  /\ now' = now + 1
  /\ UNCHANGED <<admitted, open>>

\* An order is let through; what it does at once may close the gate behind it.
Admit ==
  /\ open
  /\ Len(admitted) < MaxCalls
  /\ Cardinality(Recent) < MaxPerWindow
  /\ admitted' = Append(admitted, now)
  /\ open' \in BOOLEAN
  /\ UNCHANGED now

Close ==
  /\ open' = FALSE
  /\ UNCHANGED <<now, admitted>>

Next == Pass \/ Admit \/ Close

Spec == Init /\ [][Next]_vars

-----------------------------------------------------------------------------
\* Types, and nothing is stamped with a time that has not come: the log is
\* in clock order and bounded by the clock (the deque of
\* risk_engine.py:62 is only ever appended to with utc_now()).
TypeOK ==
  /\ now \in Nat
  /\ admitted \in Seq(Nat)
  /\ open \in BOOLEAN
  /\ \A i \in DOMAIN admitted : admitted[i] <= now
  /\ \A i, j \in DOMAIN admitted : i <= j => admitted[i] <= admitted[j]

\* No interval of Window ticks, wherever it starts, holds more than
\* MaxPerWindow orders (config.max_orders_per_sec, README.md: "Risk limits
\* are enforced at runtime, including ... order/cancel rate").
RateBound ==
  \A i \in DOMAIN admitted :
    Cardinality({j \in DOMAIN admitted :
                   admitted[j] \in admitted[i] .. (admitted[i] + Window)})
      <= MaxPerWindow

=============================================================================
