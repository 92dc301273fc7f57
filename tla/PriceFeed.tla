------------------------------ MODULE PriceFeed ------------------------------
(***************************************************************************)
(* The external BTC price: the two loops of                                *)
(* app/clients/external_price_client.py, the queue they feed, its consumer *)
(* (execution_engine.py:101-105) and the reference price of                *)
(* app/engines/price_aggregator.py.                                        *)
(*                                                                         *)
(* Both sources are enabled.  A tick is stamped when it is received, before*)
(* it waits in the queue.  ingest and reference_price hold their lock over *)
(* no suspension and are single steps.  A reference has at most the three  *)
(* sources below, so the trimming of price_aggregator.py:57-59 is never    *)
(* reached.                                                                *)
(***************************************************************************)
EXTENDS Fractions, Functions, Sequences

CONSTANTS
  Prices,          \* prices a source may report
  RestConfigured,  \* binance.rest_url is set
  BinanceStale,    \* binance.stale_after_ms, in ticks of the clock
  CoingeckoStale,  \* coingecko.stale_after_ms
  PollInterval,    \* coingecko.poll_interval_sec
  MaxBackoff,      \* the 30.0 of external_price_client.py:60
  MaxTime,         \* bound: the clock stops here
  MaxQueue         \* bound: ticks waiting

ASSUME PriceAssumption ==
  /\ Prices \subseteq Nat /\ RestConfigured \in BOOLEAN
  /\ BinanceStale \in Nat /\ CoingeckoStale \in Nat /\ PollInterval \in Nat
  /\ MaxBackoff \in Nat \ {0} /\ MaxTime \in Nat /\ MaxQueue \in Nat

VARIABLES
  now,
  running,      \* FALSE once an exception has left one of the tasks
  binance,      \* _run_binance: where it is, its backoff, when its sleep ends
  coingecko,    \* _run_coingecko: where it is, when its sleep ends
  price_queue,
  latest,       \* PriceAggregator._latest: source -> tick, for those heard of
  heard         \* history: when each source was last heard

vars == <<now, running, binance, coingecko, price_queue, latest, heard>>

Sources == {"binance", "binance_rest", "coingecko"}

StaleAfter(source) == IF source = "coingecko" THEN CoingeckoStale ELSE BinanceStale

Tick == [source : Sources, price : Prices, timestamp : Nat]

Init ==
  /\ now = 0
  /\ running = TRUE
  /\ binance = [pc |-> "connect", backoff |-> 1, wake |-> 0]
  /\ coingecko = [pc |-> "poll", wake |-> 0]
  /\ price_queue = << >>
  /\ latest = << >>
  /\ heard = << >>

With(f, key, value) ==
  [k \in DOMAIN f \cup {key} |-> IF k = key THEN value ELSE f[k]]

Until(delay) == IF now + delay > MaxTime THEN MaxTime ELSE now + delay

Put(source) ==
  /\ Len(price_queue) < MaxQueue
  /\ \E price \in Prices :
       price_queue' = Append(price_queue, [source |-> source, price |-> price,
                                           timestamp |-> now])
  /\ heard' = With(heard, source, now)

-----------------------------------------------------------------------------
\* _run_binance

BinanceConnects ==
  /\ running /\ binance.pc = "connect"
  /\ binance' = [binance EXCEPT !.pc = "stream", !.backoff = 1]
  /\ UNCHANGED <<now, running, coingecko, price_queue, latest, heard>>

BinanceTick ==
  /\ running /\ binance.pc = "stream"
  /\ Put("binance")
  /\ UNCHANGED <<now, running, binance, coingecko, latest>>

\* The peer closed the stream: the loop connects again at once.
BinanceCloses ==
  /\ running /\ binance.pc = "stream"
  /\ binance' = [binance EXCEPT !.pc = "connect"]
  /\ UNCHANGED <<now, running, coingecko, price_queue, latest, heard>>

\* A caught exception: the handler asks the REST interface.
BinanceFails ==
  /\ running /\ binance.pc \in {"connect", "stream"}
  /\ binance' = [binance EXCEPT !.pc = "rest"]
  /\ UNCHANGED <<now, running, coingecko, price_queue, latest, heard>>

Sleeping == [binance EXCEPT !.pc = "sleep", !.wake = Until(binance.backoff)]

RestAnswers ==
  /\ running /\ binance.pc = "rest"
  /\ IF RestConfigured THEN Put("binance_rest")
                       ELSE UNCHANGED <<price_queue, heard>>
  /\ binance' = Sleeping
  /\ UNCHANGED <<now, running, coingecko, latest>>

\* The request is made inside the handler, whose exceptions nothing catches.
RestFails ==
  /\ running /\ binance.pc = "rest" /\ RestConfigured
  /\ running' = FALSE
  /\ UNCHANGED <<now, binance, coingecko, price_queue, latest, heard>>

\* Mutant of BinanceWakes: it polls the REST interface again.
BinanceWakesToRest ==
  /\ running /\ binance.pc = "sleep" /\ now >= binance.wake
  /\ binance' = [binance EXCEPT !.pc = "rest",
                                !.backoff = Min({2 * @, MaxBackoff})]
  /\ UNCHANGED <<now, running, coingecko, price_queue, latest, heard>>

\* Mutant of BinanceWakes: the doubled backoff is not capped.
BinanceWakesUncapped ==
  /\ running /\ binance.pc = "sleep" /\ now >= binance.wake
  /\ binance' = [binance EXCEPT !.pc = "connect", !.backoff = 2 * @]
  /\ UNCHANGED <<now, running, coingecko, price_queue, latest, heard>>

BinanceWakes ==
  /\ running /\ binance.pc = "sleep" /\ now >= binance.wake
  /\ binance' = [binance EXCEPT !.pc = "connect",
                                !.backoff = Min({2 * @, MaxBackoff})]
  /\ UNCHANGED <<now, running, coingecko, price_queue, latest, heard>>

-----------------------------------------------------------------------------
\* _run_coingecko

\* An answer, or a failure that is only logged; it sleeps after both.
CoingeckoPolls ==
  /\ running /\ coingecko.pc = "poll"
  /\ \/ Put("coingecko")
     \/ UNCHANGED <<price_queue, heard>>
  /\ coingecko' = [pc |-> "sleep", wake |-> Until(PollInterval)]
  /\ UNCHANGED <<now, running, binance, latest>>

CoingeckoWakes ==
  /\ running /\ coingecko.pc = "sleep" /\ now >= coingecko.wake
  /\ coingecko' = [coingecko EXCEPT !.pc = "poll"]
  /\ UNCHANGED <<now, running, binance, price_queue, latest, heard>>

-----------------------------------------------------------------------------
\* The consumer, the aggregator and the rest of the application.

\* Mutant of Ingest: a tick is stamped when it is stored.
IngestRestamping ==
  /\ running /\ price_queue # << >>
  /\ latest' = With(latest, Head(price_queue).source,
                    [Head(price_queue) EXCEPT !.timestamp = now])
  /\ price_queue' = Tail(price_queue)
  /\ UNCHANGED <<now, running, binance, coingecko, heard>>

\* Mutant of Ingest: the queue is a stack.
IngestNewest ==
  /\ running /\ price_queue # << >>
  /\ LET tick == price_queue[Len(price_queue)]
     IN  latest' = With(latest, tick.source, tick)
  /\ price_queue' = SubSeq(price_queue, 1, Len(price_queue) - 1)
  /\ UNCHANGED <<now, running, binance, coingecko, heard>>

Ingest ==
  /\ running /\ price_queue # << >>
  /\ latest' = With(latest, Head(price_queue).source, Head(price_queue))
  /\ price_queue' = Tail(price_queue)
  /\ UNCHANGED <<now, running, binance, coingecko, heard>>

IsStale(tick) == now - tick.timestamp > StaleAfter(tick.source)

Contributors == {source \in DOMAIN latest : ~IsStale(latest[source])}

\* sorted(tick.price for ...): the sources of S in the order of their prices.
ByPrice(S, price) ==
  CHOOSE order \in [1 .. Cardinality(S) -> S] :
    \A i, j \in DOMAIN order :
      i < j => order[i] # order[j] /\ price[order[i]] <= price[order[j]]

SortedPrices ==
  LET price == [source \in Contributors |-> latest[source].price]
      order == ByPrice(Contributors, price)
  IN  [i \in 1 .. Cardinality(Contributors) |-> price[order[i]]]

\* Mutant of Reference: the middle is one place too high.
ReferenceTooHigh ==
  LET prices == SortedPrices
      n == Cardinality(Contributors)
  IN  IF n >= 3 THEN Whole(prices[(n \div 2) + 2])
      ELSE Over(SumFunction(prices), n)

\* reference_price when some tick is fresh: the median of three or more
\* prices, the mean of fewer.
Reference ==
  LET prices == SortedPrices
      n == Cardinality(Contributors)
  IN  IF n >= 3
        THEN IF n % 2 = 1
               THEN Whole(prices[(n + 1) \div 2])
               ELSE Over(prices[n \div 2] + prices[(n \div 2) + 1], 2)
        ELSE Over(SumFunction(prices), n)

\* An exception neither loop catches, such as a timeout, or another task's.
Escapes ==
  /\ running
  /\ running' = FALSE
  /\ UNCHANGED <<now, binance, coingecko, price_queue, latest, heard>>

Pass ==
  /\ now < MaxTime
  /\ now' = now + 1
  /\ UNCHANGED <<running, binance, coingecko, price_queue, latest, heard>>

Next ==
  \/ BinanceConnects
  \/ BinanceTick
  \/ BinanceCloses
  \/ BinanceFails
  \/ RestAnswers
  \/ RestFails
  \/ BinanceWakes
  \/ CoingeckoPolls
  \/ CoingeckoWakes
  \/ Ingest
  \/ Escapes
  \/ Pass

Spec == Init /\ [][Next]_vars

\* The clock runs, a request for the fallback ends, sleeps are ended, the
\* queue is worked off, and a connection tried again and again succeeds.
FairSpec == /\ Spec
            /\ WF_vars(Pass)
            /\ WF_vars(RestAnswers \/ RestFails)
            /\ WF_vars(BinanceWakes)
            /\ WF_vars(Ingest)
            /\ SF_vars(BinanceConnects)

-----------------------------------------------------------------------------
\* Properties.

\* Types, and no loop waits longer than its longest pause
\* (external_price_client.py:33-100).
TypeOK ==
  /\ now \in Nat /\ running \in BOOLEAN
  /\ binance \in [pc : {"connect", "stream", "rest", "sleep"},
                  backoff : 1 .. MaxBackoff, wake : Nat]
  /\ coingecko \in [pc : {"poll", "sleep"}, wake : Nat]
  /\ binance.wake <= now + MaxBackoff
  /\ coingecko.wake <= now + PollInterval
  /\ price_queue \in Seq(Tick)
  /\ DOMAIN latest \subseteq DOMAIN heard /\ DOMAIN heard \subseteq Sources
  /\ latest \in [DOMAIN latest -> Tick] /\ heard \in [DOMAIN heard -> Nat]
  /\ \A source \in DOMAIN latest : latest[source].source = source

\* No reference price without a source heard recently, however long its ticks
\* waited in the queue (models.py:93-97, price_aggregator.py:34-36).
SilenceGivesNoPrice ==
  Contributors # {} =>
    \E source \in DOMAIN heard : now - heard[source] <= StaleAfter(source)

\* The reference lies in the middle of its contributors: at least half of them
\* on either side of it, so that one outlier among three never moves it past
\* the other two, and two sources share it (price_aggregator.py:37-41).
OutlierContained ==
  LET below == {s \in Contributors : AtMost(Whole(latest[s].price), Reference)}
      above == {s \in Contributors : AtMost(Reference, Whole(latest[s].price))}
  IN  Contributors # {} =>
        /\ 2 * Cardinality(below) >= Cardinality(Contributors)
        /\ 2 * Cardinality(above) >= Cardinality(Contributors)

\* A stored tick is replaced only by one received no earlier, though nothing
\* compares their timestamps: whatever the outages and fallbacks, the order of
\* the queue is that of the stamps (price_aggregator.py:25-28).
PricesMoveForward ==
  [][\A source \in DOMAIN latest :
       /\ source \in DOMAIN latest'
       /\ latest[source].timestamp <= latest'[source].timestamp]_vars

\* After any failure the stream is taken up again, or the application ends
\* (external_price_client.py:33-62).
StreamResumes == []<>(~running \/ binance.pc = "stream")

-----------------------------------------------------------------------------
\* What the documents say and the code does not do.

\* external_price_client.py:34: "Run Binance websocket with REST fallback."
\* The fallback is asked inside the exception handler: when it fails as well,
\* its exception ends the application (external_price_client.py:56-60).
OutageSurvived == [][RestFails => running']_vars

=============================================================================
