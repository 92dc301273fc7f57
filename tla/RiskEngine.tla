------------------------------ MODULE RiskEngine ------------------------------
(***************************************************************************)
(* app/engines/risk_engine.py: the kill switch, the sliding-window rate    *)
(* limits and the admission decision.                                      *)
(*                                                                         *)
(* Each method of the class is an operator from the engine's state (a      *)
(* record with the names of its attributes) to its state, so that          *)
(* ExecutionEngine can chain the calls one handler makes.  The actions     *)
(* below let any caller make any call at any time, except that             *)
(* evaluate_order and record_order_submission form one step, as in both    *)
(* their callers (execution_engine.py:154-158, backtest_engine.py:53-56),  *)
(* which never await between the two; evaluate_cancel and record_cancel    *)
(* are paired in the same way, the repository having no caller of them.    *)
(*                                                                         *)
(* Left out: _latencies_ms (written, never read), logging and gauges.  Of  *)
(* a decision only `allowed` is kept: its reason is only logged.  Fractions*)
(* of base_capital_usd are constants; money and sizes are naturals.        *)
(***************************************************************************)
EXTENDS Integers, Sequences, FiniteSets

CONSTANTS
  OrderWindow,         \* max_age of orders and cancels in _evict_old (1.0 s)
  ErrorWindow,         \* max_age of errors in _evict_old (60.0 s)
  MaxOrdersPerSec, MaxCancelPerSec, MaxErrorRatePerMin, MaxOpenOrders,
  MaxOrderNotional,    \* base_capital_usd * max_order_notional_pct
  MaxMarketExposure,   \* base_capital_usd * max_market_exposure_pct
  DailyLossLimit,      \* base_capital_usd * max_daily_loss_pct
  HourlyLossLimit,     \* base_capital_usd * max_hourly_loss_pct
  WsDisconnectKillAfter, LatencyKillSwitch,
  MinFillRatio,        \* in percent
  Sizes,               \* sizes of orders and fills
  Latencies,           \* round-trip latencies
  Readings,            \* what evaluate_order can read from its collaborators
  MaxTime,             \* bound: the clock stops here
  MaxCalls             \* bound: orders, cancels and errors of a behaviour,
                       \* and what is filled before another fill

Reading == [notional: Nat, exposure: Nat, openOrders: Nat,
            dailyPnl: Int, hourlyPnl: Int]

ASSUME RiskAssumption ==
  /\ OrderWindow \in Nat /\ ErrorWindow \in Nat
  /\ MaxOrdersPerSec \in Nat /\ MaxCancelPerSec \in Nat
  /\ MaxErrorRatePerMin \in Nat /\ MaxOpenOrders \in Nat
  /\ MaxOrderNotional \in Nat /\ MaxMarketExposure \in Nat
  /\ DailyLossLimit \in Nat /\ HourlyLossLimit \in Nat
  /\ WsDisconnectKillAfter \in Nat /\ LatencyKillSwitch \in Nat
  /\ MinFillRatio \in Nat
  /\ Sizes \subseteq Nat /\ Latencies \subseteq Nat
  /\ Readings \subseteq Reading
  /\ MaxTime \in Nat /\ MaxCalls \in Nat

VARIABLES
  now,       \* utc_now(), which this module takes to be monotonic
  risk,      \* the RiskEngine instance
  admitted,  \* history: when each order was let through
  cancels,   \* history: when each cancel was let through
  errors     \* history: when each error was recorded

vars == <<now, risk, admitted, cancels, errors>>

Reasons == {"error_rate", "fill_ratio", "latency", "max_daily_loss_pct",
            "max_hourly_loss_pct", "ws_disconnect"}

RiskState ==
  [kill_switch_active: BOOLEAN, kill_reason: Reasons \cup {"None"},
   order_timestamps: Seq(Nat), cancel_timestamps: Seq(Nat),
   error_timestamps: Seq(Nat), fills: Nat, submitted: Nat, ws_last_seen: Nat]

NewRiskEngine ==
  [kill_switch_active |-> FALSE, kill_reason |-> "None",
   order_timestamps |-> << >>, cancel_timestamps |-> << >>,
   error_timestamps |-> << >>, fills |-> 0, submitted |-> 0,
   ws_last_seen |-> 0]

-----------------------------------------------------------------------------
\* Methods.

\* Mutant of Evict: an entry as old as the window is already dropped.
EvictInclusive(queue, t, max_age) ==
  LET first == CHOOSE k \in 1 .. (Len(queue) + 1) :
                 /\ \A i \in 1 .. (k - 1) : t - queue[i] >= max_age
                 /\ k <= Len(queue) => t - queue[k] < max_age
  IN  SubSeq(queue, first, Len(queue))

\* popleft while the head is older than max_age.
Evict(queue, t, max_age) ==
  LET first == CHOOSE k \in 1 .. (Len(queue) + 1) :
                 /\ \A i \in 1 .. (k - 1) : t - queue[i] > max_age
                 /\ k <= Len(queue) => t - queue[k] <= max_age
  IN  SubSeq(queue, first, Len(queue))

\* Mutant of EvictOld: cancels are evicted after the window of the errors'
\* neighbour in the tuple of the loop, that is at once.
EvictOldSwapped(r, t) ==
  [r EXCEPT !.order_timestamps = Evict(@, t, OrderWindow),
            !.cancel_timestamps = Evict(@, t, 0),
            !.error_timestamps = Evict(@, t, ErrorWindow)]

EvictOld(r, t) ==
  [r EXCEPT !.order_timestamps = Evict(@, t, OrderWindow),
            !.cancel_timestamps = Evict(@, t, OrderWindow),
            !.error_timestamps = Evict(@, t, ErrorWindow)]

\* Mutant of ActivateKillSwitch: the reason is only noted when already active.
ActivateForgettingReason(r, reason) ==
  [r EXCEPT !.kill_switch_active = TRUE,
            !.kill_reason = IF r.kill_switch_active THEN reason ELSE @]

ActivateKillSwitch(r, reason) ==
  [r EXCEPT !.kill_switch_active = TRUE, !.kill_reason = reason]

RegisterWsHeartbeat(r, t) == [r EXCEPT !.ws_last_seen = t]

RecordOrderSubmission(r, size, t) ==
  EvictOld([r EXCEPT !.order_timestamps = Append(@, t),
                     !.submitted = @ + size], t)

RecordCancel(r, t) ==
  EvictOld([r EXCEPT !.cancel_timestamps = Append(@, t)], t)

\* Mutant of RecordError: the limit itself does not count as reached until
\* one error later.
RecordErrorLate(r, t) ==
  LET recorded == EvictOld([r EXCEPT !.error_timestamps = Append(@, t)], t)
  IN  IF Len(recorded.error_timestamps) > MaxErrorRatePerMin + 1
        THEN ActivateKillSwitch(recorded, "error_rate")
        ELSE recorded

RecordError(r, t) ==
  LET recorded == EvictOld([r EXCEPT !.error_timestamps = Append(@, t)], t)
  IN  IF Len(recorded.error_timestamps) > MaxErrorRatePerMin
        THEN ActivateKillSwitch(recorded, "error_rate")
        ELSE recorded

\* fill_ratio < min_fill_ratio, fill_ratio being 1.0 before any submission.
FillRatioLow(r) == /\ r.submitted > 0
                   /\ r.fills * 100 < r.submitted * MinFillRatio

RecordFill(r, size) ==
  LET recorded == [r EXCEPT !.fills = @ + size]
  IN  IF FillRatioLow(recorded) /\ recorded.submitted >= 1
        THEN ActivateKillSwitch(recorded, "fill_ratio")
        ELSE recorded

RecordLatency(r, latency) ==
  IF latency > LatencyKillSwitch THEN ActivateKillSwitch(r, "latency") ELSE r

\* Mutant of CheckLossLimits: a loss of exactly the limit is not a breach.
CheckLossLimitsStrict(r, reading) ==
  LET daily == IF reading.dailyPnl < -DailyLossLimit
                 THEN ActivateKillSwitch(r, "max_daily_loss_pct") ELSE r
  IN  IF reading.hourlyPnl < -HourlyLossLimit
        THEN ActivateKillSwitch(daily, "max_hourly_loss_pct") ELSE daily

CheckLossLimits(r, reading) ==
  LET daily == IF reading.dailyPnl <= -DailyLossLimit
                 THEN ActivateKillSwitch(r, "max_daily_loss_pct") ELSE r
  IN  IF reading.hourlyPnl <= -HourlyLossLimit
        THEN ActivateKillSwitch(daily, "max_hourly_loss_pct") ELSE daily

CheckWsDisconnect(r, t) ==
  IF t - r.ws_last_seen > WsDisconnectKillAfter
    THEN ActivateKillSwitch(r, "ws_disconnect") ELSE r

\* The engine after evaluate_order; Allowed is then its decision.
EvaluateOrder(r, reading, t) ==
  CheckWsDisconnect(CheckLossLimits(EvictOld(r, t), reading), t)

\* Mutant of Allowed: the order that reaches max_open_orders is let through.
AllowedOneTooMany(r, reading) ==
  /\ ~r.kill_switch_active
  /\ reading.notional <= MaxOrderNotional
  /\ reading.exposure + reading.notional <= MaxMarketExposure
  /\ reading.openOrders <= MaxOpenOrders
  /\ Len(r.order_timestamps) < MaxOrdersPerSec

\* Mutant of Allowed: the exposure is compared without the order's own part.
AllowedBeforeOrder(r, reading) ==
  /\ ~r.kill_switch_active
  /\ reading.notional <= MaxOrderNotional
  /\ reading.exposure <= MaxMarketExposure
  /\ reading.openOrders < MaxOpenOrders
  /\ Len(r.order_timestamps) < MaxOrdersPerSec

\* Mutant of Allowed: the kill switch is not looked at.
AllowedWhenKilled(r, reading) ==
  /\ reading.notional <= MaxOrderNotional
  /\ reading.exposure + reading.notional <= MaxMarketExposure
  /\ reading.openOrders < MaxOpenOrders
  /\ Len(r.order_timestamps) < MaxOrdersPerSec

Allowed(r, reading) ==
  /\ ~r.kill_switch_active
  /\ reading.notional <= MaxOrderNotional
  /\ reading.exposure + reading.notional <= MaxMarketExposure
  /\ reading.openOrders < MaxOpenOrders
  /\ Len(r.order_timestamps) < MaxOrdersPerSec

CancelAllowed(r) == Len(r.cancel_timestamps) < MaxCancelPerSec

-----------------------------------------------------------------------------
\* The engine on its own.

Init ==
  /\ now = 0
  /\ risk = NewRiskEngine
  /\ admitted = << >>
  /\ cancels = << >>
  /\ errors = << >>

CallsLeft == Len(admitted) + Len(cancels) + Len(errors) < MaxCalls

Tick ==
  /\ now < MaxTime
  /\ now' = now + 1
  /\ UNCHANGED <<risk, admitted, cancels, errors>>

Heartbeat ==
  /\ risk' = RegisterWsHeartbeat(risk, now)
  /\ UNCHANGED <<now, admitted, cancels, errors>>

OrderAdmitted(reading, size) ==
  LET evaluated == EvaluateOrder(risk, reading, now)
  IN  /\ CallsLeft
      /\ Allowed(evaluated, reading)
      /\ risk' = RecordOrderSubmission(evaluated, size, now)
      /\ admitted' = Append(admitted, now)
      /\ UNCHANGED <<now, cancels, errors>>

OrderBlocked(reading) ==
  LET evaluated == EvaluateOrder(risk, reading, now)
  IN  /\ ~Allowed(evaluated, reading)
      /\ risk' = evaluated
      /\ UNCHANGED <<now, admitted, cancels, errors>>

\* The repository calls neither evaluate_cancel nor record_cancel; that the one
\* is followed by the other, as for orders, is this model's assumption.
CancelAdmitted ==
  LET evicted == EvictOld(risk, now)
  IN  /\ CallsLeft
      /\ CancelAllowed(evicted)
      /\ risk' = RecordCancel(evicted, now)
      /\ cancels' = Append(cancels, now)
      /\ UNCHANGED <<now, admitted, errors>>

CancelBlocked ==
  LET evicted == EvictOld(risk, now)
  IN  /\ ~CancelAllowed(evicted)
      /\ risk' = evicted
      /\ UNCHANGED <<now, admitted, cancels, errors>>

Error ==
  /\ CallsLeft
  /\ risk' = RecordError(risk, now)
  /\ errors' = Append(errors, now)
  /\ UNCHANGED <<now, admitted, cancels>>

\* The engine does not compare what is filled with what was submitted.
Fill(size) ==
  /\ risk.fills < MaxCalls
  /\ risk' = RecordFill(risk, size)
  /\ UNCHANGED <<now, admitted, cancels, errors>>

Latency(latency) ==
  /\ risk' = RecordLatency(risk, latency)
  /\ UNCHANGED <<now, admitted, cancels, errors>>

Next ==
  \/ Tick
  \/ Heartbeat
  \/ \E reading \in Readings, size \in Sizes : OrderAdmitted(reading, size)
  \/ \E reading \in Readings : OrderBlocked(reading)
  \/ CancelAdmitted
  \/ CancelBlocked
  \/ Error
  \/ \E size \in Sizes : Fill(size)
  \/ \E latency \in Latencies : Latency(latency)

Spec == Init /\ [][Next]_vars

-----------------------------------------------------------------------------
\* Properties.

\* Types, and the kill switch is active exactly when it has a reason
\* (risk_engine.py:45-53, 145-151).
TypeOK ==
  /\ now \in Nat
  /\ risk \in RiskState
  /\ risk.kill_switch_active <=> risk.kill_reason # "None"
  /\ admitted \in Seq(Nat)
  /\ cancels \in Seq(Nat)
  /\ errors \in Seq(Nat)

\* The book the engine keeps (its deques, evicted from the left) is enough to
\* admit orders at no more than max_orders_per_sec in any closed window of
\* one second, and none once the kill switch is active
\* (risk_engine.py:101-122, 153-161).
Gate == INSTANCE OrderGate
          WITH Window <- OrderWindow, MaxPerWindow <- MaxOrdersPerSec,
               open <- ~risk.kill_switch_active

ImplementsOrderGate == Gate!Spec

OrderRateBounded == Gate!RateBound

\* The same promise for cancels, which no kill switch stops
\* (risk_engine.py:66-70, 124-130).
CancelGate == INSTANCE OrderGate
                WITH Window <- OrderWindow, MaxPerWindow <- MaxCancelPerSec,
                     admitted <- cancels, open <- TRUE

ImplementsCancelGate == CancelGate!Spec

\* More than max_error_rate_per_min errors within one minute, wherever the
\* minute starts and however the evictions fell, leave the kill switch active
\* (risk_engine.py:72-79).
ErrorBurstKills ==
  \A i \in DOMAIN errors :
    Cardinality({j \in DOMAIN errors :
                   errors[j] \in errors[i] .. (errors[i] + ErrorWindow)})
      > MaxErrorRatePerMin => risk.kill_switch_active

=============================================================================
