# Verification of polymarket001

TLA+ models of the trading system in `src/`, checked with TLC on small
instances, and proofs about the models checked with TLAPS. Paths below are
relative to `src/`; line numbers are those of the sources.

## 1. The system

One asyncio process with four modes: `backtest`, `paper`, `shadow_live` and
`guarded_live`. Five tasks run under one `asyncio.gather`
(`app/engines/execution_engine.py:78-99`); the first that raises ends all.

```
 exchange websocket + REST        Binance websocket + REST, CoinGecko
            |                                   |
     MarketDataClient                  ExternalPriceClient
            | market queue                      | price queue
            v                                   v
   _consume_market_events <-- reference -- PriceAggregator <- _consume_prices
            |   SignalEngine (MarketMapper)
            v
   _handle_signal -> RiskEngine.evaluate_order / record_order_submission
            |            reads OrderManager, PositionManager, PnLEngine
            +- paper / backtest: PaperBroker -> OrderManager, PositionManager
            +- shadow_live:      OrderManager.record_shadow_order
            +- guarded_live:     py-clob-client in a thread, with retries
            v
   PnLEngine.mark_to_market              ReconciliationService (its own task)
```

### Inventory

| Component | State | Operations | Hard behaviour | Correct when |
|---|---|---|---|---|
| RiskEngine | kill switch and reason, three deques of timestamps, submitted and filled size, last heartbeat | evaluate_order, evaluate_cancel, record_*, register_ws_heartbeat | sliding windows evicted lazily; a switch set by six reasons from several callers | rate bounded in every window; a burst of errors kills; nothing passes once killed |
| OrderManager | orders by client id | create_pending_order, record_shadow_order, mark_open, apply_fill, mark_rejected | an order whose answer is lost | count bounded; nothing pending forgotten |
| PositionManager | quantity, average price, realized PnL per market | apply_fill, market_exposure_notional | add, reduce, reverse in any order | no money lost or invented |
| PnLEngine | unrealized PnL, realized sums | mark_to_market, record_realized (never called) | the reading is overwritten on each signal | a loss seen is acted on |
| PaperBroker | random generator, fill history | submit_order, build_order_request, reset | order checked at the quote, booked around the midpoint | table and positions agree |
| ExecutionEngine | `latest_snapshot`, where its consumer waits | event handling in three modes, live submission with retries | time, the exchange and failing tasks between two awaits; lost answers; retries | gate kept; nothing in flight abandoned or traded past |
| MarketDataClient | connection, backoff, queue | connect, stream, refresh snapshots, reconnect | two sources of one book, read late; lost messages; failures everywhere | the newest book is what remains |
| ExternalPriceClient, PriceAggregator | connection, backoff, queue, latest tick per source | stream, fallback, poll, ingest, reference_price | outages, fallback that fails too, late ticks, outliers | fresh and central reference; stream resumes |
| SignalEngine, MarketMapper | none | build_signal, get_market | a reference whose sources come and go; edge taken at the midpoint, order priced at the far side | no signal against the majority of the sources; the edge survives the spread |
| ReconciliationService | where its loop waits | run, reconcile_once | remote state read before, local state after an await, while the engine sends and the exchange closes; ids of the client or of the exchange; failing requests | what it reports was so; what lasts is reported |
| BacktestEngine | `snapshots` | run | wall clock under historical events | as ExecutionEngine |
| main, config, scripts | the config | load, guard, set the mode, wire | a mode changed after validation; `.env` against the environment; two different pydantics | no engine that can send without both flags |
| MetricsServer, logging | gauges | start, send_alert, configure_logging | exceptions that end the program | - |
| pydantic shim | none | coerce, default, validate | imported in place of the library | - |

## 2. Modules

| Module | Models | How |
|---|---|---|
| `OrderGate` | nothing in particular | the abstract promise of the risk controls: an open/closed gate and a log of admission times; at most `MaxPerWindow` in any closed window |
| `RiskEngine` | `app/engines/risk_engine.py` | one operator per method on a record with the attributes' names, so that the engine can chain the calls of one handler; actions let any caller call anything at any time |
| `OrderManager` | `app/services/order_manager.py` | operators on the table, a sequence of records; a client order id is an index |
| `Fractions` | - | exact fractions in place of floats |
| `PositionManager` | `app/services/position_manager.py`, `PnLEngine.mark_to_market` | operators on one position and on a book of them |
| `Portfolio` | the same, on its own | extends `PositionManager`: a machine of fills and revaluations with a cash ledger as history |
| `ExecutionEngine` | `app/engines/execution_engine.py`, `PaperBroker`, the loop of `BacktestEngine`, the exchange behind the thread | extends `PositionManager`, composes `RiskEngine` and `OrderManager` by `INSTANCE`; a step is what runs between two suspensions |
| `MarketFeed` | `app/clients/market_data_client.py`, the market queue and `latest_snapshot` | the client's position in its loop, the socket's contents, what the client makes of each message, the awaited REST answer, the exchange's book |
| `PriceFeed` | `app/clients/external_price_client.py`, the price queue, `app/engines/price_aggregator.py` | both loops, the queue, ticks with their time of receipt |
| `SignalEngine` | `app/engines/signal_engine.py`, `app/services/market_mapper.py` | operators on `PriceFeed`'s reference; the behaviours are `PriceFeed`'s, the properties range over every snapshot |
| `Reconciliation` | `app/services/reconciliation_service.py`, `MetricsServer.send_alert`, the exchange's listing | extends `ExecutionEngine`: the loop's position and its answer, beside every step of the engine and an exchange that closes orders |
| `Startup` | `app/config.py`, `app/main.py`, `scripts/`, what `pydantic/__init__.py` makes of a file | the launch (command, file, flags) and the steps from it to an engine, each with its exception |
| `Lemmas` | - | what several proofs share: logs of timestamps and the suffix of them a deque keeps; fractions, folds and sums, and what they make of a fill and of a valuation |
| `OrderGateProofs`, `RiskEngineProofs`, `PortfolioProofs`, `ExecutionEngineProofs`, `MarketFeedProofs`, `SignalEngineProofs`, `StartupProofs` | - | theorems, each about the module it is named after; `ExecutionEngineProofs` is about `Reconciliation` too, `SignalEngineProofs` about `PriceFeed` |
| `MC*` | - | values of constants for TLC; module and `.cfg` of the same name, further `.cfg` files for the violations |

Operators whose comment begins "Mutant of" are plausible bugs of the definition
below them; each property was seen to fail when the mutant takes that
definition's place (`PROJECT.json`, "mutants").

### State and code

`risk` is the `RiskEngine` instance with its attribute names (without leading
underscores). `orders` is `_orders_by_client_id` in insertion order.
`positions` has an entry for each market, flat where the dictionary has none.
`task` is where `_consume_market_events` is suspended: `queue.get`, `to_thread`
(line 177), `sleep` (line 192), or that it has raised and takes no further
step. `running` is false once `run_forever` has cancelled its tasks
(`TasksCancelled`); between the raise and that the event loop turns, and the
other tasks run on. `sent` holds the requests handed to the client, `accepted`
those the exchange took; acceptance may come during the call, after the call
has raised, or after the process has stopped. `admitted`, `cancels`, `errors`,
`cash`, `gaps`, `due`, `heard`, `failures` and `seen` are history variables: no
guard of the code's actions depends on them beyond the bounds named below.

One handler is one action: `PaperFill` for instance registers the heartbeat,
stores the snapshot, evaluates the order, records the submission, creates the
order, fills it in the table and in the position and revalues the book, as
lines 120-132 do without suspending. In `guarded_live` the handler is cut at
its two suspensions. `Expired` is the handler of a signal older than its
`ttl_ms`: no evaluation, but line 132 all the same. `LiveUnsent` is the loop of
`retry_attempts` 0, which sends nothing. `Attempt` is one pass of the loop, which
may fail before anything is sent; `Caught` is its exception handler, `CallBreaks`
the exceptions it does not catch.

`reconciler` is where `ReconciliationService.run` waits: `get` (the request is
under way and the exchange has not read for it), `answer` (it has; the reading
is in `remote`), `alert`, `sleep`. `closed` and `stray` belong to the exchange:
requests it is done with, and an order of an earlier process, number 0, since
nothing is persisted. `Name` is the id an order is listed under: the client's
or, if the exchange does not return it (`client_ids`), one of the exchange's
own, a number below 0, which no table knows. In `Startup`, `config.models` are
the sections that have attributes; a section that stayed a dict has none.

### Abstractions

- A timestamp is a tick; `utc_now()` and `perf_counter()` are one monotonic
  clock. A wall clock that steps back is outside the models.
- Money is an integer of a small unit, averages are exact fractions. Floating
  point rounding is left out.
- Which snapshot makes a signal, and on which side, is left open in
  `ExecutionEngine`, and so is whether it has expired; a free event stands for
  whatever the feed delivers.
  `SignalEngine` says which, for any table of fair values that does not fall
  as the price rises (the logistic function is one).
- A request of the reconciliation that fails is one the exchange has not read
  for. After an exception that `run` does not catch the reconciler takes no
  further step, and `TasksCancelled` follows.
- An exchange that returns the client's order ids does so for every order, and
  one that does not for none.
- In `MarketFeed` a change of the book is pushed as a book or as a `price_change`.
  Prices are left out, so a book without best prices, which the client takes
  for 0.0 to 1.0, is a book like any other.
- Nothing in the repository calls `evaluate_cancel` or `record_cancel`. That a
  cancel is recorded when it was let through is the assumption of
  `RiskEngine.CancelAdmitted`, made after what `_handle_signal` does with orders.
- `Startup` takes "python -m app.main" to be typed in the repository's root, as
  the README does, and the scripts to find the installed library.
- All orders have one size, as in the code (`signal.default_size`). Hence a
  position passes through zero when it changes sign, and the branch of
  `apply_fill` that reverses a position in one fill is not reached.
- A decision's reason, logging, gauges and the kill switch's alerts are left
  out.
- The exchange's subscription may take effect at any time after it was sent;
  it is not assumed to answer with the current book.

## 3. Runs

| Run | Question | Answer |
|---|---|---|
| `risk_engine` | under every order of calls and clock ticks, is the rate of orders and of cancels bounded, does an error burst kill, is a killed engine closed for good? | yes (and proved) |
| `portfolio` | is money conserved through fills on both sides in two markets, and does valuation add up? | yes (and proved) |
| `engine_simulated` | in paper, shadow and backtest, and live with `retry_attempts` 0: open orders, long exposure, agreement of table and positions, the gate; is a loss forgotten but by an expired signal, is anything sent? | hold; no, no (all proved) |
| `engine_live` | with retries, lost answers, late acceptance, failing calls and tasks that run on until they are cancelled: nothing pending is forgotten, no lost order traded past, requests bounded, only retries under the kill switch, orders settle | hold (and proved, but for the last) |
| `market_feed` | with lost messages, messages taken for trades, failing connections and requests: is the newest book pushed or fetched always last in the pipeline, and does the consumer catch up with it? | yes (the first proved) |
| `price_feed` | is the reference fresh and central, does a stored price ever step back in time, does a signal ever go against a majority of the sources, does the edge survive the spread, does the stream resume? | yes, never, never, yes (all proved), yes |
| `reconciliation` | beside the live engine and the exchange: was what is reported so at some moment, is an order of this process reported as unknown, is a lasting difference reported? | yes; only the one the consumer has raised over, or under an id of the exchange (both proved); yes |
| `startup` | from any command, file and environment: does an engine that can send need both flags? | yes (and proved) |
| `paper_loss_limit` | does trading stop at the daily loss limit? | not when the loss is realized |
| `paper_silence` | is the order after a long silence blocked? | no |
| `price_outage` | does the application outlive an outage of Binance's REST interface? | no |
| `start_command` | does the documented command start the application? | not in the repository's root |

### What the properties say

- `RateBound`, `OrderRateBounded`: a *closed* window of one second. The code
  evicts entries strictly older than the window, so an entry exactly one
  second old still counts; evicting it too would break the property.
- `ImplementsOrderGate`, `ImplementsCancelGate`: refinement. The deque evicted
  from the left admits exactly as a full log would, and no order passes after
  the kill switch. In `ExecutionEngine` the same abstract gate is implemented
  by the composed system, live suspensions included.
- `ErrorBurstKills`: more than the allowed errors in any minute, however
  evictions fell, leave the switch active.
- `PnlIdentity`, `ValueAddsUp`: realized profit is cash flow plus the cost of
  what is held; with unrealized profit it is cash flow plus market value.
- `FillsMatchPositions`: order table and positions tell one story.
- `OpenOrdersBounded`, `RequestsBounded`: the limit on open orders holds of the
  table after the order it admitted, and bounds what the exchange may hold for
  the life of the process, since nothing ever takes a live order off the table.
- `LongExposureBounded`: orders are checked at the ask and booked at the
  midpoint plus slippage; for long positions the limit holds provided the
  slippage stays within half the spread.
- `LossNotForgotten`: `mark_to_market` overwrites the value the limits read, and
  where it does so after an evaluation, that has seen a loss and activated the
  kill switch. One path revalues without an evaluation, a signal that has
  expired (lines 141-142, then 132); a loss may be lost there, and only there.
- `PendingIsInFlight`, `PendingSettles`: the only pending live order is the one
  the consumer is working on or has raised over, and it is settled or the
  application stops. With `retry_attempts` 0 there is none to settle: what is
  admitted stays pending, and the property excepts it by name.
- `LostAnswerStops`: an order the exchange took but the table calls rejected is
  the one the consumer has raised over, so nothing is traded after it.
- `NewestComesLast`: sequence numbers are ignored and REST snapshots overtake
  buffered messages, so the consumer's snapshot may step back; yet the last book
  in the pipeline is never older than the book at the subscription, nor than
  the last change pushed as a book since (`due`), if the market's snapshot of
  this connection was read under the subscription. It cannot be the current
  book: a `price_change` becomes a trade event, and a book buffered before it may
  replace a REST snapshot that shows it. `CatchesUp` is the liveness
  counterpart. Both except the markets in `gaps`, whose snapshot failed: the
  code fetches none again before the next reconnection.
- `OnlyRetriesWhenKilled`: a retry does not ask the risk engine, so requests
  may leave under an active kill switch; but only further attempts at the one
  order in flight, `RetryAttempts - 1` at most.
- `SilenceGivesNoPrice`, `OutlierContained`, `StreamResumes`: see `PriceFeed`.
- `PricesMoveForward`: `ingest` stores whatever comes and compares no
  timestamps. That a late tick never replaces a newer one of its source rests on
  ticks being stamped as they are put in the queue, and on the queue's order.
- `SignalHasMajority`: more than half of the fresh sources would have given the
  signal alone, two of three or the only one. Of two, whose mean is the
  reference, one must, and the other may be for the opposite: with the usual
  Binance and CoinGecko a signal may be one source's against the other. It needs
  both the median and a fair value that rises with the price.
- `EdgeSurvivesSpread`: priced at the far side of the book the order keeps the
  minimum edge, as long as half the spread is within slippage and buffer. The
  code does not check that condition; a book of 0.0 to 1.0, which a message
  without best prices becomes, fails it and still trades.
- `ReportsWereTrue`: the two sides are read at different moments, yet whatever
  is reported was different at some moment in between. `seen` collects the
  differences since the exchange's reading. The moment may be short: an order
  in flight between the two readings is reported as missing at the exchange,
  and rightly so for as long as it was pending. The order the consumer has
  raised over is excepted (the exchange may have closed it before it was
  rejected), and so is an exchange that lists orders under ids of its own.
- `OnlyStraysAreUnknown`: where the exchange returns the client's ids,
  "remote_open_missing_local" names no order of this process but the one the
  consumer has raised over, in the turns of the event loop before the tasks are
  cancelled. It holds because an order is in the table before it is sent and
  the exchange is read first, and because the consumer does not go on after
  that order; swallowing the exception breaks it.
- `LastingDifferenceReported`: liveness, see Fairness. As fills are never
  applied to the table, a filled live order is such a difference. What is
  unknown here is reported under the id the exchange gives it.
- `LiveNeedsBothFlags`: guard, launcher and client construction together; it
  speaks of the engine's ability to send, not of the mode in the file.

### Violations

Each is a statement of the repository that its code does not meet; the quotes
are in `PROJECT.json`, "findings". In short: realized losses never reach
`PnLEngine` (`record_realized` has no caller); the event that ends a silence is
registered as a heartbeat before its order is evaluated; the fallback of the
Binance loop is requested inside the exception handler, and its failure ends
the application; "python -m app.main" in the repository's root imports the
pydantic stand-in, leaves the file's sections dicts and fails at the first
attribute. Read off the code and not given a run: `record_fill` has no caller,
so `min_fill_ratio` is never enforced; a paper order that draws no fill stays
pending; the gauge `order_count` counts a live order twice; a sale is checked
at the bid and booked around the midpoint, so a short position may exceed
`max_market_exposure_pct` (the long side is `LongExposureBounded`); a webhook
that times out ends the application, as the TimeoutError is not among the
exceptions of `reconciliation_service.py:41`; an expired signal revalues the
book without an evaluation, and a loss may go unnoticed; with `retry_attempts`
0 a live order is never sent and stays pending; if the exchange does not return
`client_order_id`, every open order of the process is reported as missing there
and as unknown here; a `price_change` is taken for a trade.

### Bounds

Every module names its bounds among its constants (`MaxTime`, `MaxCalls`,
`MaxFills`, `MaxSequence`, `MaxFailures`, `MaxQueue`) and they appear in guards
only.

- `risk_engine`: two orders, one cancel in a window of 1 tick, one error in one
  of 2 ticks; four ticks, so that either window passes twice, and at most four
  orders, cancels, errors and fills each (`MaxCalls`): limits are reached,
  evicted and reached again.
- `portfolio`: two markets, enough fills to open, add, close and reopen on the
  other side.
- `engine_simulated`: three quotes a lot of money apart, so that a position
  bought at one is a loss beyond the limits at another and three lots meet the
  exposure limit; two open orders allowed, so misses reach the limit. It has no
  attempts, which only its fourth mode takes notice of.
- `engine_live`: two attempts, three open orders and an error limit of one in a
  window of 2 ticks, so that the kill switch falls during a retry and the order
  limit is met; up to four orders in three ticks, two of them in one.
- `market_feed`: two markets (one is fetched while the other's messages wait),
  two failures (a failed reconnection, or a lost socket and a lost request),
  two book versions, the second pushed as a book or as a `price_change`. A book
  that replaces a newer snapshot takes three versions of one market; that is
  left to the theorem, which has no bound.
- `price_feed`: three sources with two prices, a queue of two, ages on both
  sides of either limit. Three books: one whose edge is just enough, one where
  it is just too small, both as wide as the estimates allow, and the book of
  0.0 to 1.0; one market enabled and one not.
- `reconciliation`: two orders of one attempt each beside an order of an
  earlier process, listed under the client's ids or under others; two ticks,
  which is a pause and its end. One attempt is enough here, since a retry goes
  out under the id the table already holds; retries are `engine_live`'s. Only
  sales pass the limit on the notional, and the kill switch's limits on silence
  and latency are out of reach: none of them matters to what is compared.
- `startup`: no bound; every command, a mode that is none among the file's, a
  constructor of the client that succeeds or raises.

`CHECK_DEADLOCK FALSE` stands in the runs of systems that may really stop: the
application has ended, or the bounds are used up.

### Fairness

- `engine_live`: weak fairness of the clock, of `Retry` (asyncio runs a
  coroutine whose sleep is over) and, once the consumer has raised, of
  `TasksCancelled` (`gather` wakes `run_forever`); and `[]<>~InCall`: a call in
  the thread ends. The engine does nothing to end it (`to_thread` has no
  timeout), so this is an assumption on the client's own timeouts, and
  `PendingSettles` fails without it. Market events and the exchange owe
  nothing.
- `market_feed`: weak fairness of the client, of the consumer, and of a
  network and exchange that have stopped failing (failures are bounded).
- `price_feed`: weak fairness of the clock, sleeps, queue and request; strong
  fairness of connecting: attempted again and again, it succeeds.
- `reconciliation`: weak fairness of the clock, of the end of a sleep and of an
  alert (its ClientTimeout), and of reading an answer that was sent; strong
  fairness of the exchange's reading: requests may fail any number of times,
  not for ever. The engine and the exchange owe nothing.

## 4. Proofs

Proved for every value of the constants, from the constants' assumptions and
nothing else: `RiskAssumption`, `PortfolioAssumption`, `EngineAssumption`,
`ReconciliationAssumption`, `FeedAssumption`, `PriceAssumption`,
`SignalAssumption`; `GateAssumption` is a hypothesis of `RateIsBounded`;
`StartupProofs` assumes nothing. They say that limits, sizes, prices and times
are natural numbers, that there are finitely many markets (the configuration
lists them, each once and at least one), that a lot is not 0, that bids do not
exceed asks, that the unit of money is small enough for midpoints and slippage
to be whole, and that the fair value does not fall as the price rises. Limits
may be 0, and so may `retry_attempts`; the base and the maximum of the
reconnection may come in either order, since the configuration checks neither.
That the cap of Binance's backoff is not 0 is its constant (30.0). The bounds
of the runs (`MaxTime`, `MaxCalls`, ...) are constants like the others, so that
no theorem depends on their values.

**`OrderGateProofs`**: `TypeCorrect` (the log is in clock order and behind the
clock) and `RateIsBounded`. The step that matters appends `now`, which is in the
window of an earlier entry exactly if that entry is in `Recent`, so the guard
bounds the window that grows.

**`RiskEngineProofs`**: `BookIsComplete` is the inductive invariant `IInv`. The
rate cannot be shown from the state alone, as evicted entries are gone: the
invariant relates each deque to the full log (history), saying that the deque
is a suffix of it that holds every entry young enough (`Keeps`), that logs are
in clock order, and that the switch is active where the log has a burst. From
it follow `TypeCorrect`, `GateImplemented` and `CancelGateImplemented` (the
refinements, with `OrderGate`'s window as the bridge), `OrderRateIsBounded` and
`ErrorBurstIsFatal`.

**`PortfolioProofs`**: `BooksAreKept` says of every market (`Kept`) that it holds
whole lots, costs nothing when flat, and that its realized profit is its cash
and the cost of what it holds; `TypeCorrect`, `MoneyIsConserved` and
`ValuationAddsUp` follow. Fractions are reduced by a greatest common divisor
chosen from a set, so equality of fractions is shown in two parts: both are in
lowest terms, and they are worth the same over a common denominator (`Worth`).
The whole-lot part is needed for the identity: only where a position passes
through zero is its average price reset. The sums over markets are folds over
a set; they are not unfolded but characterised by the equations they satisfy on
every subset of the markets (`IsPlusFold`, `IsSum`), from which they add up.

**`ExecutionEngineProofs`**: `EngineIsSound` is the inductive invariant, in all
four modes at once. Its parts, and what each is there for:

- `ClockInv`: the book of the risk engine is sound for the log of admitted
  orders. It uses the facts of `RiskEngineProofs` about each method, through
  an instance, so that the same lemmas serve the machine of single calls there
  and the chains of calls a handler makes here. It carries `GateImplemented`
  (the engine implements `OrderGate`, through suspensions, retries and
  failures) and, with what an evaluation does to a loss, `LossIsNotForgotten`.
- `TableInv`: the records of the table, as many as orders were admitted at
  most, and the limit on the open ones (`OpenOrdersAreBounded`). The limit is
  checked before the order is added, so the count of the larger table is needed.
- `ConsumerInv`: whenever the consumer is suspended in a submission the mode is
  `guarded_live`, the order is in the table and pending, and if there are
  attempts at all nothing else is (`PendingOrdersAreInFlight`); a sleep is never
  after the last attempt. Once it has raised, the order it raised over is in
  the table too, whatever its state.
- `RequestsInv`: until the consumer raises, whatever was sent is an attempt at
  an *open* order. The bound of `RequestsAreBounded` is about the exchange and
  holds after that too, but can be maintained only from this: it bounds
  what was sent by the table. `LostAnswersStop` is the other side of it: an order
  is marked rejected only as the consumer raises over it, and a consumer that
  has raised admits no other, so that order is the only one.
- `BookInv`: every market's book is kept, for *some* cash flow (the engine has
  no ledger), `latest_unrealized` and snapshots are typed, live and shadow modes
  hold nothing, long positions have a cost (`LongCost`) within the limit
  (`Within`) where the slippage is within the spread: `LongExposureIsBounded`.
  That the cost of a long position is not negative and that a sale never
  raises it are what the step needs.
- `FillsMatchPositions` (`FillsArePositions`) is inductive beside the others; its
  sum over the table is a fold too.

`OnlyRetriesAreSentWhenKilled` follows step by step: an order is admitted only
past an inactive switch, and a retry's order and attempt are those of the task.

Of `Reconciliation`, in the same module: `SystemIsEngine` shows that a
behaviour of engine, reconciler and exchange is one of the engine with
stutters, so that every theorem above holds beside the reconciler.
`ReconcilerIsSound` adds `AnswerInv`: while an answer is held, the differences
there are now, and, under the client's ids, those between the answer and the
table, have been seen since the exchange read its orders, but for the order the
consumer has raised over; and the answer names only open orders, that order,
strays, and under the exchange's ids nothing the table knows. It rests on the
engine's invariant: no order leaves the open ones but the one the consumer
raises over, and an order that joins them has not been sent before.
`SystemTypeCorrect`, `OnlyStraysAreReported` and `ReportsAreTrue` follow.

**`MarketFeedProofs`**: `NewestIsLast`. `Ends(s, m, v, w)` says that who holds
`v` of `m` and reads `s` holds `w` (trades show nothing, `Shows`), `Reaches(m,
v)` that who holds `v` and reads the socket holds what is due or newer.
`NewestComesLast` is about queue and socket together and not inductive; the
invariant (`FeedIsSound`) cuts the pipeline in between: from what the consumer
holds the queue leads to some `between`, and from `between` the socket reaches
what is due (`Leads`, `PipelineInv`). For an arriving snapshot to be such a
`between` the invariant says of the awaited answer that the socket leads from
it to what is due, if it was read under the subscription (`FetchInv`), which in
turn needs that what is due is the last the socket shows, and no newer than the
book (`SocketInv`). `TypeCorrect` includes that a socket exists only inside
`_stream` and that the backoff stays between the base and the maximum,
whichever is larger.

**`SignalEngineProofs`**: `TicksAreSound` is the inductive invariant of
`PriceFeed`. `SilenceGivesNoPrice` and `PricesMoveForward` speak of the stored
ticks and of what replaces them, so the invariant follows a tick from where it
is stamped: waiting or stored, it is stamped no later than its source was last
heard (`TicksHeard`), and stamps rise through the queue and from what is stored
to the queue (`TicksInOrder`). `SilenceIsNoticed`, `PricesGoForward` and
`TypeCorrect` follow; the last needs that a backoff doubled under its cap stays
within it.

`OutliersAreContained` is about a median, which the code takes of a sorted list
and the model of an ordering that is only chosen. That there is one
(`OrderExists`) is shown without induction: among the sets of sources that
could not be ordered there would be a smallest, and the cheapest source put
before an order of the others orders it. Then the reference is halfway between
two places of the order with half of the sources up to the one and half from
the other on (`ReferenceHalfway`), for an odd or even number and for the mean
of one or two alike, and as many sources lie on either side as the stretch has
places (`StretchCount`); nothing uses that there are three.
`SignalsHaveMajority` adds that the fair value does not fall (`FairMoves`):
where the reference gives a buy, so does every source not below it, and the
other way round for a sale. That gives half of the sources (`HalfAgrees`), and
more than half where their number is odd; there are never more than three, so
that two is the only even one (`MajorityAgrees`). `EdgesSurvive` is the
arithmetic of the midpoint.

**`StartupProofs`**: `LiveIsGuarded`, which is `LiveNeedsBothFlags`. That the
guard holds of the file is not enough, as `run_shadow.py` changes the mode
later: the invariant `GuardInv` says that the flags were set wherever the
config's mode is `guarded_live`, and that past the launcher a shadow run's mode
is `shadow_live`; the client is built from such a config only. `StartIsSound` is a
second invariant: what the library has loaded has its sections and one of the
four modes at every later step. From it `TypeCorrect`.

Model-checked only:

- liveness (`PendingSettles`, `CatchesUp`, `StreamResumes`,
  `LastingDifferenceReported`): outside TLAPS' reach;
- the violations, which are counterexamples.

The abstract gate has no run of its own: its bound is proved, and `risk_engine`
checks it of the implementation (`OrderRateBounded`).

## 5. Not modelled

Parsing of the wire and of backtest files, the backtest summary (statistics
printed once), gauges and log lines, the redaction of secrets, alerts of the
kill switch (tasks nobody awaits and no decision reads), the branches of the
pydantic stand-in for annotations that are types (strings throughout this
code). `mark_cancelled`, `record_realized` and the reading side of `order_id`
have no caller and are left out; `record_fill`, `record_cancel` and
`evaluate_cancel` have none either but belong to `RiskEngine` and are modelled
there. `PaperBroker.reset` clears the fill history and nothing else, in a
process that has just begun.

## 6. What is left

Composition of `MarketFeed` with the live consumer: the age of the snapshot an
order is sent on while the queue grows behind a call, and what a heartbeat from
a REST snapshot hides. Every safety property of the runs is a theorem.
