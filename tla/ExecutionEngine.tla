--------------------------- MODULE ExecutionEngine ---------------------------
(***************************************************************************)
(* app/engines/execution_engine.py in its three modes and                  *)
(* app/engines/backtest_engine.py: the task that consumes market events,   *)
(* with RiskEngine, OrderManager, PaperBroker and the book it drives, and  *)
(* in guarded_live the exchange behind the thread that talks to it.        *)
(*                                                                         *)
(* Interleaving.  Everything between two suspensions of a coroutine is one *)
(* step.  Handling an event suspends neither in paper, shadow_live nor     *)
(* backtest: the coroutines it awaits (reference_price, submit_order,      *)
(* record_shadow_order) run to their end, so the whole handler is one      *)
(* action.  In guarded_live the consumer suspends in asyncio.to_thread and *)
(* in asyncio.sleep, and meanwhile time passes and the exchange acts.  A   *)
(* task that raises is done; run_forever learns of it some turns of the    *)
(* event loop later and then cancels the others, which run on until then.  *)
(*                                                                         *)
(* Simplifications.  A market event is any event the feed may deliver; the *)
(* queue it waits in is left out.  Whether an event makes a signal, and on *)
(* which side, is left open (it depends on the reference price), and so is *)
(* whether it has expired before it is handled: its ttl_ms may be shorter  *)
(* than a stall of the process.  utc_now() and perf_counter() are one clock*)
(* and the pause of a retry is capped at the end of that clock.            *)
(***************************************************************************)
EXTENDS PositionManager, Sequences

CONSTANTS
  RunModes,        \* the modes to start the application in
  Markets,
  Quotes,          \* [bid, ask] of snapshots; bid + ask is even
  Lot,             \* config.signal.default_size
  SlippageBps,     \* config.paper_broker.slippage_bps
  RetryAttempts,   \* config.execution.retry_attempts
  RetryBackoff,    \* config.execution.retry_backoff_sec, in ticks
  OrderWindow, ErrorWindow,
  MaxOrdersPerSec, MaxErrorRatePerMin, MaxOpenOrders,
  MaxOrderNotional, MaxMarketExposure, DailyLossLimit, HourlyLossLimit,
  WsDisconnectKillAfter, LatencyKillSwitch, MinFillRatio,
  MaxTime,         \* bound: the clock stops here
  MaxCalls         \* bound: orders a behaviour may try to send

Modes == {"backtest", "paper", "shadow_live", "guarded_live"}

ASSUME EngineAssumption ==
  /\ RunModes \subseteq Modes
  /\ IsFiniteSet(Markets)
  /\ \A q \in Quotes : /\ q \in [bid: Nat, ask: Nat]
                       /\ q.bid <= q.ask /\ (q.bid + q.ask) % 2 = 0
                       /\ (SlippageBps * ((q.bid + q.ask) \div 2)) % 10000 = 0
  /\ Lot \in Nat \ {0} /\ SlippageBps \in Nat
  /\ RetryAttempts \in Nat /\ RetryBackoff \in Nat
  /\ OrderWindow \in Nat /\ ErrorWindow \in Nat
  /\ MaxOrdersPerSec \in Nat /\ MaxErrorRatePerMin \in Nat
  /\ MaxOpenOrders \in Nat /\ MaxOrderNotional \in Nat
  /\ MaxMarketExposure \in Nat /\ DailyLossLimit \in Nat
  /\ HourlyLossLimit \in Nat /\ WsDisconnectKillAfter \in Nat
  /\ LatencyKillSwitch \in Nat /\ MinFillRatio \in Nat
  /\ MaxTime \in Nat /\ MaxCalls \in Nat

VARIABLES
  now,                \* the clock
  mode,               \* config.mode
  running,            \* FALSE once run_forever has cancelled its tasks
  clob_client,        \* _clob_client is not None (py-clob-client is installed)
  risk,               \* the RiskEngine
  orders,             \* the OrderManager's table
  positions,          \* the PositionManager's positions
  latest_unrealized,  \* PnLEngine._latest_unrealized
  latest_snapshot,    \* market -> its last quote, for the markets seen
  task,               \* where the consumer is suspended, or that it has raised
  sent,               \* requests handed to the exchange: <<order, attempt>>
  accepted,           \* those of them the exchange took
  admitted            \* history: when each order was let through

vars == <<now, mode, running, clob_client, risk, orders, positions,
          latest_unrealized, latest_snapshot, task, sent, accepted, admitted>>

Orders == INSTANCE OrderManager

\* Of the risk engine's own state machine only the methods are used, so its
\* remaining variables and constants stand for nothing here.
Risk == INSTANCE RiskEngine
          WITH cancels <- << >>, errors <- << >>, MaxCancelPerSec <- 0,
               Sizes <- {Lot}, Latencies <- {}, Readings <- {}

-----------------------------------------------------------------------------
\* Where the consumer is: since when a call is under way, or a sleep's end.
At(pc, order, attempt, since) ==
  [pc |-> pc, order |-> order, attempt |-> attempt, since |-> since]

Idle == At("queue.get", 0, 0, 0)

Mid(quote) == (quote.bid + quote.ask) \div 2

MidPrices(quotes) == [m \in DOMAIN quotes |-> Mid(quotes[m])]

Init ==
  /\ now = 0
  /\ running = TRUE
  /\ mode \in RunModes
  /\ clob_client \in IF mode = "guarded_live" THEN BOOLEAN ELSE {FALSE}
  /\ risk = Risk!NewRiskEngine
  /\ orders = << >>
  /\ positions = [m \in Markets |-> NoPosition]
  /\ latest_unrealized = Whole(0)
  /\ latest_snapshot = << >>
  /\ task = Idle
  /\ sent = {}
  /\ accepted = {}
  /\ admitted = << >>

\* The request of a signal: a buy is priced at the ask, a sell at the bid.
Request(market, quote, side) ==
  [market |-> market, side |-> side, size |-> Lot,
   price |-> IF side = "buy" THEN quote.ask ELSE quote.bid]

\* What evaluate_order reads.  Rounding a fraction up to the next integer
\* changes no comparison with an integer limit.
ReadingOf(request) ==
  [notional |-> request.size * request.price,
   exposure |-> Ceiling(MarketExposureNotional(positions[request.market])),
   openOrders |-> Orders!OpenOrderCount(orders),
   dailyPnl |-> Ceiling(latest_unrealized),
   hourlyPnl |-> Ceiling(latest_unrealized)]

\* BacktestEngine.run: it registers no heartbeats, and an order that is blocked
\* skips the revaluation.  The rest of its loop is that of the paper mode.
Replaying == mode = "backtest"

\* Each event counts as a heartbeat, a REST snapshot too.
Heard == IF Replaying THEN risk ELSE Risk!RegisterWsHeartbeat(risk, now)

\* The risk engine after the event was registered and the order evaluated.
Evaluated(request) == Risk!EvaluateOrder(Heard, ReadingOf(request), now)

Passes(request) == Risk!Allowed(Evaluated(request), ReadingOf(request))

Quoted(market, quote) ==
  [m \in DOMAIN latest_snapshot \cup {market} |->
     IF m = market THEN quote ELSE latest_snapshot[m]]

Marked(book, quotes) == MarkToMarket(book, MidPrices(quotes))

-----------------------------------------------------------------------------
\* The consumer of market events.

Listening == running /\ task = Idle

\* A trade (in a backtest a price), or a snapshot that makes no signal.
NoSignal ==
  /\ Listening
  /\ risk' = Heard
  /\ \/ UNCHANGED latest_snapshot
     \/ \E m \in Markets, q \in Quotes : latest_snapshot' = Quoted(m, q)
  /\ UNCHANGED <<now, mode, running, clob_client, orders, positions,
                 latest_unrealized, task, sent, accepted, admitted>>

Blocked(market, quote, side) ==
  LET request == Request(market, quote, side)
  IN  /\ Listening
      /\ ~Passes(request)
      /\ risk' = Evaluated(request)
      /\ latest_snapshot' = Quoted(market, quote)
      /\ latest_unrealized' = IF Replaying THEN latest_unrealized
                              ELSE Marked(positions, latest_snapshot')
      /\ UNCHANGED <<now, mode, running, clob_client, orders, positions, task,
                     sent, accepted, admitted>>

\* A signal older than its ttl_ms is dropped without an evaluation, and the
\* book revalued all the same.  BacktestEngine does not look at the age.
Expired(market, quote) ==
  /\ Listening /\ ~Replaying
  /\ risk' = Heard
  /\ latest_snapshot' = Quoted(market, quote)
  /\ latest_unrealized' = Marked(positions, latest_snapshot')
  /\ UNCHANGED <<now, mode, running, clob_client, orders, positions, task,
                 sent, accepted, admitted>>

\* The risk engine once it has recorded the order it let through.
Submitted(market, quote, side) ==
  Risk!RecordOrderSubmission(Evaluated(Request(market, quote, side)), Lot, now)

\* What every admitted order does before it is routed.
Admit(market, quote, side) ==
  /\ Listening
  /\ Len(admitted) < MaxCalls
  /\ Passes(Request(market, quote, side))
  /\ admitted' = Append(admitted, now)
  /\ latest_snapshot' = Quoted(market, quote)
  /\ UNCHANGED <<now, mode, running, clob_client>>

\* The unit of prices is small enough for the slippage to be whole.
FillPrice(quote, side) ==
  LET slip == (SlippageBps * Mid(quote)) \div 10000
  IN  IF side = "buy" THEN Mid(quote) + slip ELSE Mid(quote) - slip

\* PaperBroker.submit_order with a fill.
PaperFill(market, quote, side) ==
  LET pending == Orders!CreatePendingOrder(orders, Request(market, quote, side))
  IN  /\ (mode = "paper" \/ Replaying)
      /\ Admit(market, quote, side)
      /\ risk' = Submitted(market, quote, side)
      /\ orders' = Orders!ApplyOrderFill(pending, Len(pending), Lot)
      /\ positions' = [positions EXCEPT
                         ![market] = ApplyFill(@, side, Lot,
                                                    FillPrice(quote, side))]
      /\ latest_unrealized' = Marked(positions', latest_snapshot')
      /\ UNCHANGED <<task, sent, accepted>>

\* PaperBroker.submit_order when the draw exceeds fill_probability.
PaperMiss(market, quote, side) ==
  /\ (mode = "paper" \/ Replaying)
  /\ Admit(market, quote, side)
  /\ risk' = Submitted(market, quote, side)
  /\ orders' = Orders!CreatePendingOrder(orders, Request(market, quote, side))
  /\ latest_unrealized' = Marked(positions, latest_snapshot')
  /\ UNCHANGED <<positions, task, sent, accepted>>

Shadow(market, quote, side) ==
  /\ mode = "shadow_live"
  /\ Admit(market, quote, side)
  /\ risk' = Submitted(market, quote, side)
  /\ orders' = Orders!RecordShadowOrder(orders, Request(market, quote, side))
  /\ latest_unrealized' = Marked(positions, latest_snapshot')
  /\ UNCHANGED <<positions, task, sent, accepted>>

-----------------------------------------------------------------------------
\* guarded_live: _submit_live_order and the exchange.

\* The RuntimeError of a missing client leaves the consumer.
LiveWithoutClient(market, quote, side) ==
  /\ mode = "guarded_live" /\ ~clob_client
  /\ Admit(market, quote, side)
  /\ risk' = Submitted(market, quote, side)
  /\ task' = At("raised", 0, 0, now)
  /\ UNCHANGED <<orders, positions, latest_unrealized, sent, accepted>>

\* The retry is due RetryBackoff * attempt later; the clock stops at MaxTime.
WakeTime(attempt) == LET due == now + RetryBackoff * attempt
                     IN  IF due > MaxTime THEN MaxTime ELSE due

\* Mutant of Caught: the last exception is swallowed instead of re-raised.
CaughtQuietly(r, table, order, attempt) ==
  /\ risk' = Risk!RecordError(r, now)
  /\ \/ /\ attempt < RetryAttempts
        /\ orders' = table
        /\ task' = At("sleep", order, attempt, WakeTime(attempt))
     \/ /\ attempt = RetryAttempts
        /\ orders' = Orders!MarkRejected(table, order)
        /\ task' = Idle

\* Mutant of Caught: after the last attempt the loop just ends.
CaughtUnmarked(r, table, order, attempt) ==
  /\ risk' = Risk!RecordError(r, now)
  /\ orders' = table
  /\ task' = IF attempt < RetryAttempts
               THEN At("sleep", order, attempt, WakeTime(attempt)) ELSE Idle

\* The attempt ends in an exception that the loop catches; table and r are the
\* orders and the risk engine by then.
Caught(r, table, order, attempt) ==
  /\ risk' = Risk!RecordError(r, now)
  /\ \/ /\ attempt < RetryAttempts
        /\ orders' = table
        /\ task' = At("sleep", order, attempt, WakeTime(attempt))
     \/ /\ attempt = RetryAttempts
        /\ orders' = Orders!MarkRejected(table, order)
        /\ task' = At("raised", order, attempt, now)

\* One pass of the loop: the request goes to the thread; or building it fails,
\* so that nothing is sent, with an exception that is caught or one that is not.
Attempt(r, table, order, attempt) ==
  \/ /\ risk' = r /\ orders' = table
     /\ task' = At("to_thread", order, attempt, now)
     /\ sent' = sent \cup {<<order, attempt>>}
  \/ Caught(r, table, order, attempt) /\ UNCHANGED sent
  \/ /\ risk' = r /\ orders' = table
     /\ task' = At("raised", order, attempt, now)
     /\ UNCHANGED sent

LiveCall(market, quote, side) ==
  /\ mode = "guarded_live" /\ clob_client /\ RetryAttempts > 0
  /\ Admit(market, quote, side)
  /\ Attempt(Submitted(market, quote, side),
             Orders!CreatePendingOrder(orders, Request(market, quote, side)),
             Len(orders) + 1, 1)
  /\ UNCHANGED <<positions, latest_unrealized, accepted>>

\* Mutant of LiveUnsent: the loop tries once whatever retry_attempts says.
LiveUnsentOnce(market, quote, side) ==
  /\ mode = "guarded_live" /\ clob_client /\ RetryAttempts = 0
  /\ Admit(market, quote, side)
  /\ Attempt(Submitted(market, quote, side),
             Orders!CreatePendingOrder(orders, Request(market, quote, side)),
             Len(orders) + 1, 1)
  /\ UNCHANGED <<positions, latest_unrealized, accepted>>

\* With retry_attempts 0, which the config allows, the loop is not entered: the
\* order stays pending and is never sent.
LiveUnsent(market, quote, side) ==
  /\ mode = "guarded_live" /\ clob_client /\ RetryAttempts = 0
  /\ Admit(market, quote, side)
  /\ risk' = Submitted(market, quote, side)
  /\ orders' = Orders!CreatePendingOrder(orders, Request(market, quote, side))
  /\ latest_unrealized' = Marked(positions, latest_snapshot')
  /\ UNCHANGED <<positions, task, sent, accepted>>

\* The exchange takes a request: during the call, after the client gave up on
\* it, or after the application has stopped.
ExchangeAccepts(request) ==
  /\ request \in sent \ accepted
  /\ accepted' = accepted \cup {request}
  /\ UNCHANGED <<now, mode, running, clob_client, risk, orders, positions,
                 latest_unrealized, latest_snapshot, task, sent, admitted>>

InCall == running /\ task.pc = "to_thread"

\* Any answer marks the order open: its ids are not needed, its verdict not read.
CallReturns ==
  /\ InCall
  /\ risk' = Risk!RecordLatency(risk, now - task.since)
  /\ orders' = Orders!MarkOpen(orders, task.order)
  /\ latest_unrealized' = Marked(positions, latest_snapshot)
  /\ task' = Idle
  /\ UNCHANGED <<now, mode, running, clob_client, positions, latest_snapshot,
                 sent, accepted, admitted>>

CallFails ==
  /\ InCall
  /\ Caught(risk, orders, task.order, task.attempt)
  /\ UNCHANGED <<now, mode, running, clob_client, positions, latest_unrealized,
                 latest_snapshot, sent, accepted, admitted>>

\* An exception the loop does not catch: the client's own, or that of reading an
\* answer which is no dict, when the latency is recorded already.
CallBreaks ==
  /\ InCall
  /\ risk' \in {risk, Risk!RecordLatency(risk, now - task.since)}
  /\ task' = At("raised", task.order, task.attempt, now)
  /\ UNCHANGED <<now, mode, running, clob_client, orders, positions,
                 latest_unrealized, latest_snapshot, sent, accepted, admitted>>

Retry ==
  /\ running /\ task.pc = "sleep" /\ now >= task.since
  /\ Attempt(risk, orders, task.order, task.attempt + 1)
  /\ UNCHANGED <<now, mode, running, clob_client, positions, latest_unrealized,
                 latest_snapshot, accepted, admitted>>

-----------------------------------------------------------------------------
\* gather has raised the exception of a task, the consumer or another, and
\* run_forever cancels the rest; or a backtest has come to the end of its file.
TasksCancelled ==
  /\ running
  /\ running' = FALSE
  /\ UNCHANGED <<now, mode, clob_client, risk, orders, positions,
                 latest_unrealized, latest_snapshot, task, sent, accepted,
                 admitted>>

Tick ==
  /\ now < MaxTime
  /\ now' = now + 1
  /\ UNCHANGED <<mode, running, clob_client, risk, orders, positions,
                 latest_unrealized, latest_snapshot, task, sent, accepted,
                 admitted>>

Next ==
  \/ NoSignal
  \/ \E m \in Markets, q \in Quotes : Expired(m, q)
  \/ \E m \in Markets, q \in Quotes, side \in {"buy", "sell"} :
       \/ Blocked(m, q, side)
       \/ PaperFill(m, q, side)
       \/ PaperMiss(m, q, side)
       \/ Shadow(m, q, side)
       \/ LiveWithoutClient(m, q, side)
       \/ LiveCall(m, q, side)
       \/ LiveUnsent(m, q, side)
  \/ \E request \in sent : ExchangeAccepts(request)
  \/ CallReturns
  \/ CallFails
  \/ CallBreaks
  \/ Retry
  \/ TasksCancelled
  \/ Tick

Spec == Init /\ [][Next]_vars

\* The clock runs, asyncio runs a coroutine whose sleep is over, and the
\* exception of the consumer reaches run_forever.  The call in the thread ends
\* (the client's own timeouts: nothing in the engine ends it): []<>~InCall is
\* weak fairness of CallReturns, CallFails and CallBreaks together, which are
\* enabled throughout a call and each of which ends it.  Market events and the
\* exchange owe nothing.
FairSpec == /\ Spec
            /\ WF_vars(Tick)
            /\ WF_vars(Retry)
            /\ WF_vars(task.pc = "raised" /\ TasksCancelled)
            /\ []<>~InCall

-----------------------------------------------------------------------------
\* Properties.

\* Types, and where the consumer can be suspended in each mode
\* (execution_engine.py:107-192).
TypeOK ==
  /\ now \in Nat
  /\ running \in BOOLEAN /\ clob_client \in BOOLEAN
  /\ risk.kill_switch_active <=> risk.kill_reason # "None"
  /\ \A i \in DOMAIN orders : orders[i].state \in Orders!OrderStates
  /\ positions \in [Markets -> Position]
  /\ latest_unrealized \in Fraction
  /\ DOMAIN latest_snapshot \subseteq Markets
  /\ task.pc \in {"queue.get", "to_thread", "sleep", "raised"}
  /\ task # Idle => mode = "guarded_live"
  /\ task # Idle /\ clob_client =>
       /\ task.order \in DOMAIN orders
       /\ task.attempt \in 1 .. RetryAttempts
       /\ task.pc = "sleep" => task.attempt < RetryAttempts
  /\ task # Idle /\ ~clob_client => task.pc = "raised" /\ orders = << >>
  /\ accepted \subseteq sent
  /\ Len(orders) <= Len(admitted)

\* The engine sends orders as the gate allows: at most max_orders_per_sec of
\* them in any second, whatever the consumer waited for in between, and none
\* once the kill switch is active (execution_engine.py:154-158).
Gate == INSTANCE OrderGate
          WITH Window <- OrderWindow, MaxPerWindow <- MaxOrdersPerSec,
               open <- ~risk.kill_switch_active

ImplementsOrderGate == Gate!Spec

\* The check of max_open_orders, made before the order is created, holds of the
\* table after it too (risk_engine.py:118-119, order_manager.py:77-83).
OpenOrdersBounded == Orders!OpenOrderCount(orders) <= MaxOpenOrders

\* An order that is pending in guarded_live is the one its consumer is working
\* on or has raised over: none is left behind by a retry, a failure or the next
\* event, unless retry_attempts is 0 and none is ever sent; and whatever the
\* consumer is sending is pending (execution_engine.py:168-192).
PendingIsInFlight ==
  mode = "guarded_live" =>
    /\ task.pc \in {"to_thread", "sleep"} => orders[task.order].state = "pending"
    /\ RetryAttempts > 0 =>
         \A i \in DOMAIN orders :
           orders[i].state = "pending" => task # Idle /\ task.order = i

\* An order the exchange holds but the table does not count as open or pending
\* (the answer was lost and the last attempt failed) is never traded past: it is
\* the one the consumer has raised over (execution_engine.py:187-191).
LostAnswerStops ==
  \A request \in accepted :
    \/ request[1] \in Orders!OpenOrders(orders)
    \/ task.pc = "raised" /\ task.order = request[1]

\* However answers are lost, the requests the exchange may hold are bounded by
\* the open orders and their attempts: no live order ever leaves the table, as
\* nothing applies fills or cancels to it, so max_open_orders bounds the whole
\* life of the process (execution_engine.py:173-192, risk_engine.py:118-119).
RequestsBounded == Cardinality(sent) <= MaxOpenOrders * RetryAttempts

\* A loss that mark_to_market has seen is acted on: the value may recover only
\* once the kill switch is active, or by the one path that revalues the book
\* without an evaluation, a signal that has expired when it is handled.
\* mark_to_market overwrites the value on every signal, and the limits are
\* looked at only when an order is evaluated (execution_engine.py:123-142,
\* risk_engine.py:105, 132-138).
LossSeen == \/ AtMost(latest_unrealized, Whole(-DailyLossLimit))
            \/ AtMost(latest_unrealized, Whole(-HourlyLossLimit))

LossNotForgotten ==
  [][LossSeen => \/ LossSeen'
                 \/ risk'.kill_switch_active
                 \/ \E m \in Markets, q \in Quotes : Expired(m, q)]_vars

\* The table of orders and the positions tell the same story: what is held in
\* a market is what its filled orders bought less what they sold
\* (paper_broker.py:49-59).
FillsMatchPositions ==
  \A m \in Markets :
    positions[m].quantity =
      SumFunctionOnSet([i \in DOMAIN orders |->
                          Signed(orders[i].side, orders[i].filled)],
                       {i \in DOMAIN orders : orders[i].market = m})

\* max_market_exposure_pct bounds long positions although orders are checked
\* at the ask and filled around the midpoint, provided the slippage stays
\* within half the spread (risk_engine.py:114-117, paper_broker.py:70-71).
LongExposureBounded ==
  (\A q \in Quotes : FillPrice(q, "buy") <= q.ask) =>
    \A m \in Markets :
      positions[m].quantity > 0 =>
        AtMost(MarketExposureNotional(positions[m]),
               Whole(MaxMarketExposure))

\* A retry asks the risk engine no more (execution_engine.py:173-192), so requests
\* may leave after the kill switch; but only further attempts at the order in
\* flight, never another order, so at most RetryAttempts - 1 of them.
OnlyRetriesWhenKilled ==
  [][risk.kill_switch_active =>
       sent' \ sent \subseteq {<<task.order, n>> : n \in 2 .. RetryAttempts}]_vars

Pending(i) == i \in DOMAIN orders /\ orders[i].state = "pending"

\* Every order that is pending in guarded_live is settled, or the application
\* has stopped, if it is attempted at all: retry_attempts is not 0
\* (execution_engine.py:173-192).
PendingSettles ==
  \A i \in 1 .. MaxCalls : Pending(i) ~> ~(running /\ Pending(i))

-----------------------------------------------------------------------------
\* What the documents say and the code does not do.

\* README.md:64: "Risk limits are enforced at runtime, including ...
\* hourly/daily loss limits".  The realized part of the loss never reaches the
\* PnLEngine (paper_broker.py:56, pnl_engine.py:38).
NetPnl ==
  FoldFunction(Plus, latest_unrealized,
               [m \in Markets |-> positions[m].realized_pnl])

LossLimitStops ==
  [][AtMost(NetPnl, Whole(-DailyLossLimit)) => admitted' = admitted]_vars

\* README.md:64: "Risk limits are enforced at runtime, including ... websocket
\* disconnect"; tests/unit/test_risk_engine.py:39-53 expects the order after a
\* long silence to be blocked.  The event that ends the silence is registered
\* as a heartbeat before its order is evaluated (execution_engine.py:121, 154).
SilenceStops ==
  [][now - risk.ws_last_seen > WsDisconnectKillAfter
       => admitted' = admitted]_vars

=============================================================================
