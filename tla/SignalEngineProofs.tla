------------------------- MODULE SignalEngineProofs -------------------------
(***************************************************************************)
(* Proofs about PriceFeed and SignalEngine, for every set of prices, every *)
(* limit of staleness, every table of fair values and every set of books.  *)
(***************************************************************************)
EXTENDS SignalEngine, Lemmas

-----------------------------------------------------------------------------
\* The inductive invariant.

\* The parts of TypeOK: the loops, and the ticks on their way.
LoopsOK ==
  /\ binance \in [pc : {"connect", "stream", "rest", "sleep"},
                  backoff : 1 .. MaxBackoff, wake : Nat]
  /\ coingecko \in [pc : {"poll", "sleep"}, wake : Nat]
  /\ binance.wake <= now + MaxBackoff
  /\ coingecko.wake <= now + PollInterval

TicksOK ==
  /\ price_queue \in Seq(Tick)
  /\ DOMAIN latest \subseteq DOMAIN heard /\ DOMAIN heard \subseteq Sources
  /\ latest \in [DOMAIN latest -> Tick] /\ heard \in [DOMAIN heard -> Nat]
  /\ \A source \in DOMAIN latest : latest[source].source = source

\* The source of the tick has been heard since, or when, it was stamped.
HeardOf(tick) ==
  tick.source \in DOMAIN heard /\ tick.timestamp <= heard[tick.source]

\* Whatever waits in the queue or is stored was stamped no later than its source
\* was last heard, and nothing was heard in the future.
TicksHeard ==
  /\ \A i \in DOMAIN price_queue : HeardOf(price_queue[i])
  /\ \A source \in DOMAIN latest : HeardOf(latest[source])
  /\ \A source \in DOMAIN heard : heard[source] <= now

\* Stamps rise along the way: from what is stored through the queue.
TicksInOrder ==
  /\ \A i, j \in DOMAIN price_queue :
       i <= j => price_queue[i].timestamp <= price_queue[j].timestamp
  /\ \A source \in DOMAIN latest, i \in DOMAIN price_queue :
       latest[source].timestamp <= price_queue[i].timestamp

IInv == TypeOK /\ TicksHeard /\ TicksInOrder

\* TypeOK is its parts.
LEMMA TypeParts ==
  TypeOK <=> now \in Nat /\ running \in BOOLEAN /\ LoopsOK /\ TicksOK
BY DEF TypeOK, LoopsOK, TicksOK

\* So it is in the next state.
LEMMA TypePartsNext ==
  TypeOK' <=> now' \in Nat /\ running' \in BOOLEAN /\ LoopsOK' /\ TicksOK'
BY DEF TypeOK, LoopsOK, TicksOK

\* A sleep ends within its delay, and not before now.
LEMMA UntilTyped ==
  ASSUME now \in Nat, NEW delay \in Nat
  PROVE  Until(delay) \in Nat /\ Until(delay) <= now + delay
BY PriceAssumption DEF PriceAssumption, Until

\* Doubling within the cap.
LEMMA CappedBackoff ==
  ASSUME NEW b \in 1 .. MaxBackoff
  PROVE  Min({2 * b, MaxBackoff}) \in 1 .. MaxBackoff
<1> DEFINE T == {2 * b, MaxBackoff}
<1>1. MaxBackoff \in Nat \ {0} /\ 2 * b \in Nat
  BY PriceAssumption DEF PriceAssumption
<1>2. \E x \in T : \A y \in T : x <= y
  <2>1. CASE 2 * b <= MaxBackoff
    BY <1>1, <2>1
  <2>2. CASE ~(2 * b <= MaxBackoff)
    BY <1>1, <2>2
  <2> QED
    BY <2>1, <2>2
<1>3. Min(T) = CHOOSE x \in T : \A y \in T : x <= y
  BY DEF Min
<1>4. Min(T) \in T /\ \A y \in T : Min(T) <= y
  BY <1>2, <1>3
<1> HIDE DEF T
<1>5. Min(T) <= MaxBackoff /\ (Min(T) = 2 * b \/ Min(T) = MaxBackoff)
  BY <1>4 DEF T
<1>6. Min(T) \in 1 .. MaxBackoff
  BY <1>1, <1>5
<1> QED
  BY <1>6 DEF T

\* A tick that is put in the queue is of this moment, and its source heard.
LEMMA PutKeeps ==
  ASSUME now \in Nat, TicksOK, TicksHeard,
         NEW source \in Sources, Put(source), UNCHANGED <<now, latest>>
  PROVE  TicksOK' /\ TicksHeard'
<1>1. PICK price \in Prices :
        price_queue' = Append(price_queue, [source |-> source, price |-> price,
                                            timestamp |-> now])
  BY DEF Put
<1> DEFINE tick == [source |-> source, price |-> price, timestamp |-> now]
<1>2. tick \in Tick /\ tick.source = source /\ tick.timestamp = now
  BY DEF Tick
<1>3. price_queue' = Append(price_queue, tick)
  BY <1>1
<1> HIDE DEF tick
<1>4. heard' = With(heard, source, now)
  BY DEF Put
<1>5. /\ DOMAIN heard' = DOMAIN heard \cup {source}
      /\ heard'[source] = now
      /\ \A s \in DOMAIN heard : s # source => heard'[s] = heard[s]
      /\ heard' = [s \in DOMAIN heard' |-> heard'[s]]
  BY <1>4 DEF With
<1>6. \A s \in DOMAIN heard : heard[s] \in Nat /\ heard[s] <= now
  BY DEF TicksOK, TicksHeard
<1>7. \A s \in DOMAIN heard' : heard'[s] \in Nat /\ heard'[s] <= now
  BY <1>5, <1>6
<1>8. \A s \in DOMAIN heard : heard[s] <= heard'[s]
  BY <1>5, <1>6
<1>9. \A t \in Tick : HeardOf(t) => t.source \in DOMAIN heard'
                                    /\ t.timestamp <= heard'[t.source]
  <2> SUFFICES ASSUME NEW t \in Tick, HeardOf(t)
               PROVE  t.source \in DOMAIN heard' /\ t.timestamp <= heard'[t.source]
    OBVIOUS
  <2>1. t.timestamp \in Nat
    BY DEF Tick
  <2> QED
    BY <1>5, <1>6, <1>7, <1>8, <2>1 DEF HeardOf
<1>10. /\ price_queue' \in Seq(Tick)
       /\ DOMAIN price_queue' = 1 .. (Len(price_queue) + 1)
       /\ \A i \in 1 .. Len(price_queue) : price_queue'[i] = price_queue[i]
       /\ price_queue'[Len(price_queue) + 1] = tick
  <2>1. price_queue \in Seq(Tick)
    BY DEF TicksOK
  <2> QED
    BY <1>2, <1>3, <2>1, AppendProperties, LenProperties
<1>11. latest' = latest
  OBVIOUS
<1>12. TicksOK'
  <2>1. heard' \in [DOMAIN heard' -> Nat]
    BY <1>5, <1>7
  <2>2. DOMAIN latest \subseteq DOMAIN heard' /\ DOMAIN heard' \subseteq Sources
    BY <1>5 DEF TicksOK
  <2> QED
    BY <1>10, <1>11, <2>1, <2>2 DEF TicksOK
<1>13. TicksHeard'
  <2>1. \A i \in DOMAIN price_queue' : HeardOf(price_queue[i])' 
    <3> SUFFICES ASSUME NEW i \in DOMAIN price_queue'
                 PROVE  /\ price_queue'[i].source \in DOMAIN heard'
                        /\ price_queue'[i].timestamp <= heard'[price_queue'[i].source]
      BY DEF HeardOf
    <3>1. CASE i = Len(price_queue) + 1
      BY <1>2, <1>5, <1>6, <1>10, <3>1
    <3>2. CASE i # Len(price_queue) + 1
      <4>1. price_queue \in Seq(Tick)
        BY DEF TicksOK
      <4>2. i \in 1 .. Len(price_queue) /\ i \in DOMAIN price_queue
        BY <1>10, <3>2, <4>1, LenProperties
      <4>3. price_queue[i] \in Tick /\ HeardOf(price_queue[i])
        BY <4>1, <4>2, ElementOfSeq DEF TicksHeard
      <4> QED
        BY <1>9, <1>10, <4>2, <4>3
    <3> QED
      BY <3>1, <3>2
  <2>2. \A s \in DOMAIN latest' : HeardOf(latest[s])'
    <3> SUFFICES ASSUME NEW s \in DOMAIN latest
                 PROVE  /\ latest[s].source \in DOMAIN heard'
                        /\ latest[s].timestamp <= heard'[latest[s].source]
      BY <1>11 DEF HeardOf
    <3>1. latest[s] \in Tick /\ HeardOf(latest[s])
      BY DEF TicksOK, TicksHeard
    <3> QED
      BY <1>9, <3>1
  <2>3. \A s \in DOMAIN heard' : heard'[s] <= now'
    BY <1>7
  <2> QED
    BY <2>1, <2>2, <2>3 DEF TicksHeard
<1> QED
  BY <1>12, <1>13

\* Storing the first tick of the queue.
LEMMA IngestKeeps ==
  ASSUME now \in Nat, TicksOK, TicksHeard, Ingest
  PROVE  TicksOK' /\ TicksHeard'
<1> DEFINE tick == Head(price_queue)
<1>1. /\ price_queue \in Seq(Tick) /\ price_queue # << >>
      /\ latest' = With(latest, tick.source, tick)
      /\ price_queue' = Tail(price_queue) /\ heard' = heard /\ now' = now
  BY DEF Ingest, TicksOK
<1>2. /\ tick \in Tick /\ Tail(price_queue) \in Seq(Tick)
      /\ Len(price_queue) \in Nat \ {0} /\ tick = price_queue[1]
      /\ Len(Tail(price_queue)) = Len(price_queue) - 1
      /\ \A i \in 1 .. Len(Tail(price_queue)) :
           Tail(price_queue)[i] = price_queue[i + 1]
  BY <1>1, HeadTailProperties, EmptySeq
<1> HIDE DEF tick
<1>3. DOMAIN price_queue = 1 .. Len(price_queue)
  BY <1>1, LenProperties
<1>4. HeardOf(tick)
  BY <1>2, <1>3 DEF TicksHeard
<1>5. /\ DOMAIN latest' = DOMAIN latest \cup {tick.source}
      /\ latest'[tick.source] = tick
      /\ \A s \in DOMAIN latest : s # tick.source => latest'[s] = latest[s]
      /\ latest' = [s \in DOMAIN latest' |-> latest'[s]]
  BY <1>1 DEF With
<1>6. \A s \in DOMAIN latest : latest[s] \in Tick /\ latest[s].source = s
                               /\ HeardOf(latest[s])
  BY DEF TicksOK, TicksHeard
<1>7. \A s \in DOMAIN latest' : latest'[s] \in Tick /\ latest'[s].source = s
                                /\ HeardOf(latest'[s])
  BY <1>2, <1>4, <1>5, <1>6
<1>8. TicksOK'
  <2>1. latest' \in [DOMAIN latest' -> Tick]
    BY <1>5, <1>7
  <2>2. DOMAIN latest' \subseteq DOMAIN heard
    BY <1>4, <1>5 DEF TicksOK, HeardOf
  <2> QED
    BY <1>1, <1>2, <1>7, <2>1, <2>2 DEF TicksOK
<1>9. TicksHeard'
  <2>1. \A i \in DOMAIN price_queue' : HeardOf(price_queue'[i])
    <3>1. DOMAIN price_queue' = 1 .. Len(price_queue')
      BY <1>1, <1>2, LenProperties
    <3>2. \A i \in DOMAIN price_queue' : i + 1 \in DOMAIN price_queue
                                         /\ price_queue'[i] = price_queue[i + 1]
      BY <1>1, <1>2, <1>3, <3>1
    <3> QED
      BY <3>2 DEF TicksHeard
  <2> QED
    BY <1>1, <1>7, <2>1 DEF TicksHeard, HeardOf
<1> QED
  BY <1>8, <1>9

\* What the ticks are depends on queue, latest and heard only, and they may
\* grow older.
LEMMA TicksStay ==
  ASSUME TicksOK, TicksHeard, now \in Nat,
         UNCHANGED <<price_queue, latest, heard>>,
         now' = now \/ now' = now + 1
  PROVE  TicksOK' /\ TicksHeard'
<1>1. TicksOK'
  BY DEF TicksOK
<1>2. \A s \in DOMAIN heard : heard[s] \in Nat /\ heard[s] <= now
  BY DEF TicksOK, TicksHeard
<1>3. \A s \in DOMAIN heard' : heard'[s] <= now'
  BY <1>2
<1>4. TicksHeard'
  BY <1>3 DEF TicksHeard, HeardOf
<1> QED
  BY <1>1, <1>4

\* Every tick on its way was stamped by now.
LEMMA StampedByNow ==
  ASSUME now \in Nat, TicksOK, TicksHeard
  PROVE  /\ \A i \in DOMAIN price_queue : /\ price_queue[i].timestamp \in Nat
                                          /\ price_queue[i].timestamp <= now
         /\ \A s \in DOMAIN latest : /\ latest[s].timestamp \in Nat
                                     /\ latest[s].timestamp <= now
<1>1. \A t \in Tick : HeardOf(t) => t.timestamp \in Nat /\ t.timestamp <= now
  <2> SUFFICES ASSUME NEW t \in Tick, HeardOf(t)
               PROVE  t.timestamp \in Nat /\ t.timestamp <= now
    OBVIOUS
  <2>1. t.timestamp \in Nat /\ heard[t.source] \in Nat /\ heard[t.source] <= now
    BY DEF Tick, HeardOf, TicksOK, TicksHeard
  <2> QED
    BY <2>1 DEF HeardOf
<1>2. \A i \in DOMAIN price_queue : price_queue[i] \in Tick
  BY LenProperties, ElementOfSeq DEF TicksOK
<1>3. \A s \in DOMAIN latest : latest[s] \in Tick
  BY DEF TicksOK
<1> QED
  BY <1>1, <1>2, <1>3 DEF TicksHeard

\* A new tick has the youngest stamp and the last place.
LEMMA PutInOrder ==
  ASSUME now \in Nat, TicksOK, TicksHeard, TicksInOrder,
         NEW source, Put(source), UNCHANGED latest
  PROVE  TicksInOrder'
<1>1. PICK price \in Prices :
        price_queue' = Append(price_queue, [source |-> source, price |-> price,
                                            timestamp |-> now])
  BY DEF Put
<1> DEFINE tick == [source |-> source, price |-> price, timestamp |-> now]
           n == Len(price_queue)
<1>2. tick.timestamp = now
  OBVIOUS
<1>3. price_queue' = Append(price_queue, tick)
  BY <1>1
<1> HIDE DEF tick
<1>4. n \in Nat /\ DOMAIN price_queue = 1 .. n
  BY LenProperties DEF TicksOK
<1>5. /\ DOMAIN price_queue' = 1 .. (n + 1)
      /\ \A i \in 1 .. n : price_queue'[i] = price_queue[i]
      /\ price_queue'[n + 1] = tick
  BY <1>3, <1>4
<1> HIDE DEF n
<1>6. \A i \in 1 .. n : price_queue[i].timestamp \in Nat
                       /\ price_queue[i].timestamp <= now
  BY <1>4, StampedByNow
<1>7. \A i, j \in DOMAIN price_queue' :
        i <= j => price_queue'[i].timestamp <= price_queue'[j].timestamp
  <2> SUFFICES ASSUME NEW i \in 1 .. (n + 1), NEW j \in 1 .. (n + 1), i <= j
               PROVE  price_queue'[i].timestamp <= price_queue'[j].timestamp
    BY <1>5
  <2>1. CASE j = n + 1
    <3>1. i = n + 1 \/ i \in 1 .. n
      BY <1>4
    <3> QED
      BY <1>2, <1>5, <1>6, <2>1, <3>1
  <2>2. CASE j # n + 1
    <3>1. i \in 1 .. n /\ j \in 1 .. n
      BY <1>4, <2>2
    <3> QED
      BY <1>4, <1>5, <3>1 DEF TicksInOrder
  <2> QED
    BY <2>1, <2>2
<1>8. \A s \in DOMAIN latest, i \in DOMAIN price_queue' :
        latest[s].timestamp <= price_queue'[i].timestamp
  <2> SUFFICES ASSUME NEW s \in DOMAIN latest, NEW i \in 1 .. (n + 1)
               PROVE  latest[s].timestamp <= price_queue'[i].timestamp
    BY <1>5
  <2>1. CASE i = n + 1
    BY <1>2, <1>5, <2>1, StampedByNow
  <2>2. CASE i # n + 1
    <3>1. i \in 1 .. n
      BY <1>4, <2>2
    <3> QED
      BY <1>4, <1>5, <3>1 DEF TicksInOrder
  <2> QED
    BY <2>1, <2>2
<1> QED
  BY <1>7, <1>8 DEF TicksInOrder

\* What is stored is the tick with the oldest stamp in the queue.
LEMMA IngestInOrder ==
  ASSUME TicksOK, TicksInOrder, Ingest
  PROVE  /\ TicksInOrder'
         /\ \A s \in DOMAIN latest : /\ s \in DOMAIN latest'
                                     /\ \/ latest'[s] = latest[s]
                                        \/ latest[s].timestamp
                                             <= latest'[s].timestamp
<1> DEFINE tick == Head(price_queue)
           n == Len(price_queue)
<1>1. /\ price_queue \in Seq(Tick) /\ price_queue # << >>
      /\ latest' = With(latest, tick.source, tick)
      /\ price_queue' = Tail(price_queue)
  BY DEF Ingest, TicksOK
<1>2. /\ n \in Nat \ {0} /\ DOMAIN price_queue = 1 .. n
      /\ tick = price_queue[1]
      /\ DOMAIN price_queue' = 1 .. (n - 1)
      /\ \A i \in 1 .. (n - 1) : price_queue'[i] = price_queue[i + 1]
  BY <1>1, HeadTailProperties, EmptySeq, LenProperties
<1> HIDE DEF tick, n
<1>3. /\ DOMAIN latest' = DOMAIN latest \cup {tick.source}
      /\ \A s \in DOMAIN latest' :
           latest'[s] = IF s = tick.source THEN tick ELSE latest[s]
  BY <1>1 DEF With
<1>4. \A i \in 1 .. (n - 1) : i + 1 \in 1 .. n /\ 1 <= i + 1 /\ 1 \in 1 .. n
  BY <1>2
<1>5. \A i \in 1 .. (n - 1) : tick.timestamp <= price_queue'[i].timestamp
  BY <1>2, <1>4 DEF TicksInOrder
<1>6. \A s \in DOMAIN latest, i \in 1 .. (n - 1) :
        latest[s].timestamp <= price_queue'[i].timestamp
  BY <1>2, <1>4 DEF TicksInOrder
<1>7. \A i, j \in 1 .. (n - 1) :
        i <= j => price_queue'[i].timestamp <= price_queue'[j].timestamp
  <2> SUFFICES ASSUME NEW i \in 1 .. (n - 1), NEW j \in 1 .. (n - 1), i <= j
               PROVE  price_queue'[i].timestamp <= price_queue'[j].timestamp
    OBVIOUS
  <2>1. i + 1 <= j + 1 /\ i + 1 \in 1 .. n /\ j + 1 \in 1 .. n
    BY <1>2
  <2>2. price_queue[i + 1].timestamp <= price_queue[j + 1].timestamp
    BY <1>2, <2>1 DEF TicksInOrder
  <2> QED
    BY <1>2, <2>2
<1>8. \A s \in DOMAIN latest : latest[s].timestamp <= tick.timestamp
  <2>1. 1 \in DOMAIN price_queue
    BY <1>2
  <2> QED
    BY <1>2, <2>1 DEF TicksInOrder
<1>9. TicksInOrder'
  <2>1. \A s \in DOMAIN latest', i \in DOMAIN price_queue' :
          latest'[s].timestamp <= price_queue'[i].timestamp
    BY <1>2, <1>3, <1>5, <1>6
  <2> QED
    BY <1>2, <1>7, <2>1 DEF TicksInOrder
<1>10. \A s \in DOMAIN latest : /\ s \in DOMAIN latest'
                               /\ \/ latest'[s] = latest[s]
                                  \/ latest[s].timestamp <= latest'[s].timestamp
  BY <1>3, <1>8
<1> QED
  BY <1>9, <1>10

\* The steps of the loops that put nothing in the queue.
LEMMA BinanceLoops ==
  ASSUME now \in Nat, LoopsOK,
         \/ BinanceConnects \/ BinanceCloses \/ BinanceFails \/ BinanceWakes
         \/ CoingeckoWakes
  PROVE  LoopsOK'
<1>0. MaxBackoff \in Nat \ {0} /\ 1 \in 1 .. MaxBackoff
  BY PriceAssumption DEF PriceAssumption
<1>1. CASE BinanceConnects
  BY <1>0, <1>1 DEF BinanceConnects, LoopsOK
<1>2. CASE BinanceCloses
  BY <1>2 DEF BinanceCloses, LoopsOK
<1>3. CASE BinanceFails
  BY <1>3 DEF BinanceFails, LoopsOK
<1>4. CASE BinanceWakes
  <2> DEFINE b == Min({2 * binance.backoff, MaxBackoff})
  <2>1. b \in 1 .. MaxBackoff
    BY CappedBackoff DEF LoopsOK
  <2>2. binance' = [binance EXCEPT !.pc = "connect", !.backoff = b]
    BY <1>4 DEF BinanceWakes
  <2> HIDE DEF b
  <2> QED
    BY <1>4, <2>1, <2>2 DEF BinanceWakes, LoopsOK
<1>5. CASE CoingeckoWakes
  BY <1>5 DEF CoingeckoWakes, LoopsOK
<1> QED
  BY <1>1, <1>2, <1>3, <1>4, <1>5

\* The steps that end in a sleep.
LEMMA SleepingLoops ==
  ASSUME now \in Nat, LoopsOK, now' = now,
         \/ binance' = Sleeping /\ coingecko' = coingecko
         \/ /\ coingecko' = [pc |-> "sleep", wake |-> Until(PollInterval)]
            /\ binance' = binance
  PROVE  LoopsOK'
<1>1. CASE binance' = Sleeping /\ coingecko' = coingecko
  <2> DEFINE w == Until(binance.backoff)
  <2>1. binance.backoff \in Nat /\ binance.backoff <= MaxBackoff
    BY PriceAssumption DEF PriceAssumption, LoopsOK
  <2>2. w \in Nat /\ w <= now + MaxBackoff
    <3>1. w \in Nat /\ w <= now + binance.backoff
      BY <2>1, UntilTyped
    <3>2. MaxBackoff \in Nat
      BY PriceAssumption DEF PriceAssumption
    <3> HIDE DEF w
    <3> QED
      BY <2>1, <3>1, <3>2
  <2>3. binance' = [binance EXCEPT !.pc = "sleep", !.wake = w]
    BY <1>1 DEF Sleeping
  <2> HIDE DEF w
  <2> QED
    BY <1>1, <2>2, <2>3 DEF LoopsOK
<1>2. CASE /\ coingecko' = [pc |-> "sleep", wake |-> Until(PollInterval)]
           /\ binance' = binance
  <2> DEFINE w == Until(PollInterval)
  <2>1. w \in Nat /\ w <= now + PollInterval
    BY UntilTyped, PriceAssumption DEF PriceAssumption
  <2>2. coingecko' = [pc |-> "sleep", wake |-> w]
    BY <1>2
  <2> HIDE DEF w
  <2> QED
    BY <1>2, <2>1, <2>2 DEF LoopsOK
<1> QED
  BY <1>1, <1>2

\* The loops stay where they are while the clock runs.
LEMMA LoopsStay ==
  ASSUME now \in Nat, LoopsOK, UNCHANGED <<binance, coingecko>>,
         now' = now \/ now' = now + 1
  PROVE  LoopsOK'
<1>1. MaxBackoff \in Nat /\ PollInterval \in Nat
  BY PriceAssumption DEF PriceAssumption
<1> QED
  BY <1>1 DEF LoopsOK

\* The invariant is inductive.
LEMMA FeedSteps == IInv /\ [Next]_vars => IInv'
<1> SUFFICES ASSUME IInv, [Next]_vars PROVE IInv'
  OBVIOUS
<1>1. /\ now \in Nat /\ running \in BOOLEAN /\ LoopsOK /\ TicksOK
      /\ TicksHeard /\ TicksInOrder
  BY TypeParts DEF IInv
<1>2. now' \in Nat /\ (now' = now \/ now' = now + 1)
  BY <1>1 DEF Next, vars, BinanceConnects, BinanceTick, BinanceCloses,
     BinanceFails, RestAnswers, RestFails, BinanceWakes, CoingeckoPolls,
     CoingeckoWakes, Ingest, Escapes, Pass
<1>3. running' \in BOOLEAN
  <2>1. running' = running \/ running' = FALSE
    BY DEF Next, vars, BinanceConnects, BinanceTick, BinanceCloses,
       BinanceFails, RestAnswers, RestFails, BinanceWakes, CoingeckoPolls,
       CoingeckoWakes, Ingest, Escapes, Pass
  <2> QED
    BY <1>1, <2>1
<1>4. LoopsOK'
  <2>1. CASE \/ BinanceConnects \/ BinanceCloses \/ BinanceFails
             \/ BinanceWakes \/ CoingeckoWakes
    BY <1>1, <2>1, BinanceLoops
  <2>2. CASE RestAnswers \/ CoingeckoPolls
    BY <1>1, <2>2, SleepingLoops DEF RestAnswers, CoingeckoPolls
  <2>3. CASE BinanceTick \/ RestFails \/ Ingest \/ Escapes \/ Pass
             \/ UNCHANGED vars
    BY <1>1, <1>2, <2>3, LoopsStay
       DEF BinanceTick, RestFails, Ingest, Escapes, Pass, vars
  <2> QED
    BY <2>1, <2>2, <2>3 DEF Next
<1>5. TicksOK' /\ TicksHeard' /\ TicksInOrder'
  <2>1. CASE BinanceTick
    <3>1. Put("binance") /\ "binance" \in Sources /\ UNCHANGED <<now, latest>>
      BY <2>1 DEF BinanceTick, Sources
    <3> QED
      BY <1>1, <3>1, PutKeeps, PutInOrder
  <2>2. CASE RestAnswers /\ RestConfigured
    <3>1. /\ Put("binance_rest") /\ "binance_rest" \in Sources
          /\ UNCHANGED <<now, latest>>
      BY <2>2 DEF RestAnswers, Sources
    <3> QED
      BY <1>1, <3>1, PutKeeps, PutInOrder
  <2>3. CASE CoingeckoPolls /\ Put("coingecko")
    <3>1. "coingecko" \in Sources /\ UNCHANGED <<now, latest>>
      BY <2>3 DEF CoingeckoPolls, Sources
    <3> QED
      BY <1>1, <2>3, <3>1, PutKeeps, PutInOrder
  <2>4. CASE Ingest
    BY <1>1, <2>4, IngestKeeps, IngestInOrder
  <2>5. CASE UNCHANGED <<price_queue, latest, heard>>
    <3>1. TicksInOrder'
      BY <1>1, <2>5 DEF TicksInOrder
    <3> QED
      BY <1>1, <1>2, <2>5, <3>1, TicksStay
  <2>6. CASE RestAnswers /\ ~RestConfigured
    BY <2>5, <2>6 DEF RestAnswers
  <2>7. CASE CoingeckoPolls /\ ~Put("coingecko")
    BY <2>5, <2>7 DEF CoingeckoPolls
  <2>8. CASE \/ BinanceConnects \/ BinanceCloses \/ BinanceFails \/ RestFails
             \/ BinanceWakes \/ CoingeckoWakes \/ Escapes \/ Pass
             \/ UNCHANGED vars
    BY <2>5, <2>8 DEF BinanceConnects, BinanceCloses, BinanceFails, RestFails,
       BinanceWakes, CoingeckoWakes, Escapes, Pass, vars
  <2> QED
    BY <2>1, <2>2, <2>3, <2>4, <2>6, <2>7, <2>8 DEF Next
<1>6. TypeOK'
  BY <1>2, <1>3, <1>4, <1>5, TypePartsNext
<1> QED
  BY <1>5, <1>6 DEF IInv

\* It holds of the initial state.
LEMMA FeedStarts == Init => IInv
<1> SUFFICES ASSUME Init PROVE IInv
  OBVIOUS
<1>1. now \in Nat /\ running \in BOOLEAN
  BY DEF Init
<1>2. LoopsOK
  BY PriceAssumption DEF PriceAssumption, Init, LoopsOK
<1>3. price_queue \in Seq(Tick) /\ Len(price_queue) = 0
  BY EmptySeq DEF Init
<1>4. DOMAIN price_queue = {} /\ DOMAIN latest = {} /\ DOMAIN heard = {}
  BY EmptySeq, LenProperties DEF Init
<1>5. latest \in [{} -> Tick] /\ heard \in [{} -> Nat]
  BY DEF Init
<1>6. TicksOK
  BY <1>3, <1>4, <1>5 DEF TicksOK
<1>7. TicksHeard /\ TicksInOrder
  BY <1>4 DEF TicksHeard, TicksInOrder
<1> QED
  BY <1>1, <1>2, <1>6, <1>7, TypeParts DEF IInv

\* In every state the ticks in the queue and in the aggregator are typed, of
\* the source they are kept under, no younger than its last sign of life, and in
\* the order of their stamps (external_price_client.py:33-100,
\* price_aggregator.py:25-28).
THEOREM TicksAreSound == Spec => []IInv
<1>1. Init => IInv
  BY FeedStarts
<1>2. IInv /\ [Next]_vars => IInv'
  BY FeedSteps
<1> QED
  BY <1>1, <1>2, PTL DEF Spec

\* A source never steps back in time: what is stored is the oldest of what waits,
\* and none of it is older than what was stored before (price_aggregator.py:28).
THEOREM PricesGoForward == Spec => PricesMoveForward
<1> DEFINE Forward == \A source \in DOMAIN latest :
                        /\ source \in DOMAIN latest'
                        /\ latest[source].timestamp <= latest'[source].timestamp
<1>1. ASSUME IInv, [Next]_vars PROVE Forward
  <2>1. now \in Nat /\ TicksOK /\ TicksHeard /\ TicksInOrder
    BY <1>1, TypeParts DEF IInv
  <2>2. \A s \in DOMAIN latest : latest[s].timestamp <= latest[s].timestamp
    BY <2>1, StampedByNow
  <2>3. CASE Ingest
    BY <2>1, <2>2, <2>3, IngestInOrder
  <2>4. CASE ~Ingest
    <3>1. latest' = latest
      BY <1>1, <2>4 DEF Next, vars, BinanceConnects, BinanceTick, BinanceCloses,
         BinanceFails, RestAnswers, RestFails, BinanceWakes, CoingeckoPolls,
         CoingeckoWakes, Escapes, Pass
    <3> QED
      BY <2>2, <3>1
  <2> QED
    BY <2>3, <2>4
<1>2. IInv /\ [Next]_vars => [Forward]_vars
  BY <1>1
<1> QED
  BY <1>2, TicksAreSound, PTL DEF Spec, PricesMoveForward

\* Types, the cap on the backoff, and no loop sleeps longer than its pause
\* (external_price_client.py:60, config.py:61-74).
THEOREM TypeCorrect == Spec => []TypeOK
<1>1. IInv => TypeOK
  BY DEF IInv
<1> QED
  BY <1>1, TicksAreSound, PTL

\* No price without a source that was heard recently: what is fresh was stamped
\* recently, and its source heard no earlier (models.py:93-97,
\* price_aggregator.py:34-36).
THEOREM SilenceIsNoticed == Spec => []SilenceGivesNoPrice
<1>1. IInv => SilenceGivesNoPrice
  <2> SUFFICES ASSUME IInv, NEW source \in Contributors
               PROVE  /\ source \in DOMAIN heard
                      /\ now - heard[source] <= StaleAfter(source)
    BY DEF SilenceGivesNoPrice
  <2>1. now \in Nat /\ TicksOK /\ TicksHeard
    BY TypeParts DEF IInv
  <2>2. /\ source \in DOMAIN latest /\ latest[source] \in Tick
        /\ latest[source].source = source /\ HeardOf(latest[source])
    BY <2>1 DEF Contributors, TicksOK, TicksHeard
  <2>3. ~(now - latest[source].timestamp > StaleAfter(source))
    BY <2>2 DEF Contributors, IsStale
  <2>4. latest[source].timestamp \in Nat
    BY <2>2 DEF Tick
  <2>5. source \in DOMAIN heard /\ latest[source].timestamp <= heard[source]
    BY <2>2 DEF HeardOf
  <2>6. heard[source] \in Nat
    BY <2>1, <2>5 DEF TicksOK
  <2>7. StaleAfter(source) \in Nat
    BY PriceAssumption DEF PriceAssumption, StaleAfter
  <2> QED
    BY <2>1, <2>3, <2>4, <2>5, <2>6, <2>7
<1> QED
  BY <1>1, TicksAreSound, PTL

-----------------------------------------------------------------------------
\* Sorting, median and mean.

\* order lists S, what is cheaper first.
InOrder(order, S, price) ==
  /\ order \in [1 .. Cardinality(S) -> S]
  /\ \A i, j \in DOMAIN order :
       i < j => order[i] # order[j] /\ price[order[i]] <= price[order[j]]

\* An order of what is left when something cheapest is taken off, after it.
LEMMA OrderExtends ==
  ASSUME NEW S, IsFiniteSet(S), NEW price, \A s \in S : price[s] \in Nat,
         NEW x \in S, \A s \in S : price[x] <= price[s],
         NEW rest, InOrder(rest, S \ {x}, price)
  PROVE  \E order : InOrder(order, S, price)
<1> DEFINE n == Cardinality(S)
           order == [i \in 1 .. n |-> IF i = 1 THEN x ELSE rest[i - 1]]
<1>1. n \in Nat /\ Cardinality(S \ {x}) = n - 1
  BY Smaller
<1> HIDE DEF n
<1>2. rest \in [1 .. (n - 1) -> S \ {x}]
  BY <1>1 DEF InOrder
<1>3. \A i \in 1 .. n : i = 1 \/ (i - 1 \in 1 .. (n - 1) /\ rest[i - 1] \in S \ {x})
  BY <1>1, <1>2
<1>4. order \in [1 .. n -> S]
  BY <1>3
<1>5. ASSUME NEW i \in 1 .. n, NEW j \in 1 .. n, i < j
      PROVE  order[i] # order[j] /\ price[order[i]] <= price[order[j]]
  <2>1. /\ j # 1 /\ j - 1 \in 1 .. (n - 1) /\ rest[j - 1] \in S \ {x}
        /\ order[j] = rest[j - 1]
    BY <1>1, <1>3, <1>5
  <2>2. CASE i = 1
    BY <2>1, <2>2
  <2>3. CASE i # 1
    <3>1. i - 1 \in 1 .. (n - 1) /\ i - 1 < j - 1 /\ order[i] = rest[i - 1]
      BY <1>1, <1>5, <2>3
    <3>2. DOMAIN rest = 1 .. (n - 1)
      BY <1>2
    <3> QED
      BY <2>1, <3>1, <3>2 DEF InOrder
  <2> QED
    BY <2>2, <2>3
<1>6. InOrder(order, S, price)
  BY <1>4, <1>5 DEF InOrder, n
<1> QED
  BY <1>6

\* A finite set can be listed in the order of prices: of the subsets that could
\* not there would be a smallest.
LEMMA OrderExists ==
  ASSUME NEW S, IsFiniteSet(S), NEW price, \A s \in S : price[s] \in Nat
  PROVE  \E order : InOrder(order, S, price)
<1> DEFINE B == {T \in SUBSET S : ~ \E order : InOrder(order, T, price)}
<1> SUFFICES ASSUME B # {} PROVE FALSE
  OBVIOUS
<1>1. B \in SUBSET (SUBSET S)
  OBVIOUS
<1>2. PICK T \in B : \A r \in SUBSET T : r # T => r \notin B
  <2> HIDE DEF B
  <2> QED
    BY <1>1, SmallestSubset
<1>3. IsFiniteSet(T) /\ T \subseteq S
  BY <1>2, FS_Subset
<1>4. CASE T = {}
  <2>1. Cardinality({}) = 0 /\ 1 .. 0 = {}
    BY FS_EmptySet
  <2>2. InOrder([i \in {} |-> 0], {}, price)
    BY <2>1 DEF InOrder
  <2> QED
    BY <1>2, <1>4, <2>2
<1>5. CASE T # {}
  <2> DEFINE U == {price[s] : s \in T}
  <2>1. U \subseteq Nat /\ U # {}
    BY <1>3, <1>5
  <2>2. PICK least \in U : \A y \in U : least <= y
    BY <2>1, LeastNatural
  <2>3. PICK x \in T : least = price[x]
    BY <2>2
  <2>4. \A s \in T : price[x] <= price[s]
    BY <2>2, <2>3
  <2>5. PICK rest : InOrder(rest, T \ {x}, price)
    BY <1>2, <2>3
  <2>6. \A s \in T : price[s] \in Nat
    BY <1>3
  <2>7. \E order : InOrder(order, T, price)
    BY <1>3, <2>3, <2>4, <2>5, <2>6, OrderExtends
  <2> QED
    BY <1>2, <2>7
<1> QED
  BY <1>4, <1>5

\* ByPrice is such an order.
LEMMA ByPriceOrders ==
  ASSUME NEW S, IsFiniteSet(S), NEW price, \A s \in S : price[s] \in Nat
  PROVE  InOrder(ByPrice(S, price), S, price)
<1>1. \E order \in [1 .. Cardinality(S) -> S] :
        \A i, j \in DOMAIN order :
          i < j => order[i] # order[j] /\ price[order[i]] <= price[order[j]]
  BY OrderExists DEF InOrder
<1> QED
  BY <1>1 DEF ByPrice, InOrder

\* What holds a stretch of an order has as many elements as the stretch.
LEMMA StretchCount ==
  ASSUME NEW S, IsFiniteSet(S), NEW price, NEW order, InOrder(order, S, price),
         NEW a \in 1 .. Cardinality(S), NEW b \in 1 .. Cardinality(S), a <= b,
         NEW T \in SUBSET S, \A i \in a .. b : order[i] \in T
  PROVE  Cardinality(T) \in Nat /\ Cardinality(T) >= b - a + 1
<1> DEFINE f == [i \in a .. b |-> order[i]]
<1>1. Cardinality(S) \in Nat /\ IsFiniteSet(T) /\ Cardinality(T) \in Nat
  BY FS_Subset, FS_CardinalityType
<1>2. \A i \in a .. b : i \in DOMAIN order
  BY <1>1 DEF InOrder
<1>3. \A i, j \in a .. b : i # j => order[i] # order[j]
  <2> SUFFICES ASSUME NEW i \in a .. b, NEW j \in a .. b, i # j
               PROVE  order[i] # order[j]
    OBVIOUS
  <2>1. i \in Int /\ j \in Int /\ (i < j \/ j < i)
    BY <1>1
  <2> QED
    BY <1>2, <2>1 DEF InOrder
<1>4. f \in Injection(a .. b, T)
  BY <1>3 DEF Injection, IsInjective
<1>5. Cardinality(a .. b) <= Cardinality(T)
  BY <1>1, <1>4, FS_Injection
<1>6. Cardinality(a .. b) = b - a + 1
  <2>1. a \in Int /\ b \in Int /\ ~(a > b)
    BY <1>1
  <2> QED
    BY <2>1, FS_Interval
<1> QED
  BY <1>1, <1>5, <1>6

\* The sum of one and of two prices.
LEMMA SmallSums ==
  ASSUME NEW f
  PROVE  /\ f \in [1 .. 1 -> Nat] => SumFunction(f) = f[1]
         /\ f \in [1 .. 2 -> Nat] => SumFunction(f) = f[1] + f[2]
<1>1. SumFunctionOnSet(f, {}) = 0
  BY SumEmpty
<1>2. ASSUME f[1] \in Nat PROVE SumFunctionOnSet(f, {1}) = f[1]
  <2>1. /\ IsFiniteSet({}) /\ 1 \notin {} /\ f[1] \in Int
        /\ \A y \in {} : f[y] \in Int /\ f[y] = f[y]
        /\ {1} = {} \cup {1}
    BY <1>2, FS_EmptySet
  <2>2. SumFunctionOnSet(f, {1}) = SumFunctionOnSet(f, {}) + f[1]
    BY <2>1, SumAdd, SMT
  <2> QED
    BY <1>1, <1>2, <2>2
<1>3. ASSUME f[1] \in Nat, f[2] \in Nat
      PROVE  SumFunctionOnSet(f, {1, 2}) = f[1] + f[2]
  <2>1. /\ IsFiniteSet({1}) /\ 2 \notin {1} /\ f[2] \in Int
        /\ \A y \in {1} : f[y] \in Int /\ f[y] = f[y]
        /\ {1, 2} = {1} \cup {2}
    BY <1>3, FS_Singleton
  <2>2. SumFunctionOnSet(f, {1, 2}) = SumFunctionOnSet(f, {1}) + f[2]
    BY <2>1, SumAdd, SMT
  <2> QED
    BY <1>2, <1>3, <2>2
<1>4. 1 .. 1 = {1} /\ 1 .. 2 = {1, 2}
  OBVIOUS
<1>5. ASSUME f \in [1 .. 1 -> Nat] PROVE SumFunction(f) = f[1]
  <2>1. DOMAIN f = {1} /\ f[1] \in Nat
    BY <1>4, <1>5
  <2> QED
    BY <1>2, <2>1 DEF SumFunction
<1>6. ASSUME f \in [1 .. 2 -> Nat] PROVE SumFunction(f) = f[1] + f[2]
  <2>1. DOMAIN f = {1, 2} /\ f[1] \in Nat /\ f[2] \in Nat
    BY <1>4, <1>6
  <2> QED
    BY <1>3, <2>1 DEF SumFunction
<1> QED
  BY <1>5, <1>6

\* Prices as the reference sees them.
FreshPrice == [source \in Contributors |-> latest[source].price]

\* The contributors in the order of their prices.
Order == ByPrice(Contributors, FreshPrice)

\* There are finitely many contributors, each with a price, and Order lists them.
LEMMA OrderOfFresh ==
  ASSUME IInv
  PROVE  /\ IsFiniteSet(Contributors) /\ Cardinality(Contributors) \in Nat
         /\ \A s \in Contributors : FreshPrice[s] \in Prices
                                    /\ FreshPrice[s] \in Nat
                                    /\ FreshPrice[s] = latest[s].price
         /\ InOrder(Order, Contributors, FreshPrice)
         /\ SortedPrices = [i \in 1 .. Cardinality(Contributors) |->
                              FreshPrice[Order[i]]]
<1>1. TicksOK
  BY TypeParts DEF IInv
<1>2. Contributors \subseteq Sources
  BY <1>1 DEF Contributors, TicksOK
<1>3. IsFiniteSet(Sources)
  <2>1. IsFiniteSet({"binance"})
    BY FS_Singleton
  <2>2. IsFiniteSet({"binance"} \cup {"binance_rest"})
    BY <2>1, FS_AddElement
  <2>3. IsFiniteSet(({"binance"} \cup {"binance_rest"}) \cup {"coingecko"})
    BY <2>2, FS_AddElement
  <2>4. Sources = ({"binance"} \cup {"binance_rest"}) \cup {"coingecko"}
    BY DEF Sources
  <2> QED
    BY <2>3, <2>4
<1>4. IsFiniteSet(Contributors) /\ Cardinality(Contributors) \in Nat
  BY <1>2, <1>3, FS_Subset, FS_CardinalityType
<1>5. \A s \in Contributors : latest[s].price \in Prices
  BY <1>1 DEF Contributors, TicksOK, Tick
<1>6. \A s \in Contributors : FreshPrice[s] \in Prices
                             /\ FreshPrice[s] \in Nat
                             /\ FreshPrice[s] = latest[s].price
  BY <1>5, PriceAssumption DEF PriceAssumption, FreshPrice
<1>7. InOrder(Order, Contributors, FreshPrice)
  BY <1>4, <1>6, ByPriceOrders DEF Order
<1>8. SortedPrices = [i \in 1 .. Cardinality(Contributors) |->
                        FreshPrice[Order[i]]]
  BY DEF SortedPrices, Order, FreshPrice
<1> QED
  BY <1>4, <1>6, <1>7, <1>8

\* The reference is halfway between two contributors, of which one has half of
\* them at or below it, the other half of them at or above it: a median is, and
\* so is the mean of one or two (price_aggregator.py:37-41).
LEMMA ReferenceHalfway ==
  ASSUME IInv, Contributors # {}
  PROVE  \E i, j \in 1 .. Cardinality(Contributors) :
           /\ i <= j
           /\ 2 * i >= Cardinality(Contributors)
           /\ 2 * (Cardinality(Contributors) - j + 1) >= Cardinality(Contributors)
           /\ Reference \in Fraction
           /\ Worth(Reference, FreshPrice[Order[i]] + FreshPrice[Order[j]], 2)
<1> DEFINE n == Cardinality(Contributors)
           p == SortedPrices
<1>1. n \in Nat
  BY OrderOfFresh
<1>2. n # 0
  BY OrderOfFresh, FS_EmptySet
<1>3. /\ p = [i \in 1 .. n |-> FreshPrice[Order[i]]]
      /\ \A i \in 1 .. n : FreshPrice[Order[i]] \in Nat
  BY OrderOfFresh DEF InOrder
<1>4. Reference = IF n >= 3
                    THEN IF n % 2 = 1
                           THEN Whole(p[(n + 1) \div 2])
                           ELSE Over(p[n \div 2] + p[(n \div 2) + 1], 2)
                    ELSE Over(SumFunction(p), n)
  BY DEF Reference
<1> SUFFICES \E i, j \in 1 .. n :
               /\ i <= j /\ 2 * i >= n /\ 2 * (n - j + 1) >= n
               /\ Reference \in Fraction
               /\ Worth(Reference, FreshPrice[Order[i]] + FreshPrice[Order[j]], 2)
  OBVIOUS
<1> HIDE DEF n, p
<1>5. \A i \in 1 .. n : p[i] = FreshPrice[Order[i]] /\ p[i] \in Nat
  BY <1>3
<1> SUFFICES \E i, j \in 1 .. n :
               /\ i <= j /\ 2 * i >= n /\ 2 * (n - j + 1) >= n
               /\ Reference \in Fraction /\ Worth(Reference, p[i] + p[j], 2)
  BY <1>5
<1>6. CASE n >= 3 /\ n % 2 = 1
  <2> DEFINE k == (n + 1) \div 2
  <2>1. k \in 1 .. n /\ 2 * k = n + 1
    BY <1>1, <1>6
  <2>2. Reference = Whole(p[k])
    BY <1>4, <1>6
  <2> HIDE DEF k
  <2>3. p[k] \in Nat
    BY <1>5, <2>1
  <2>4. Reference \in Fraction /\ Worth(Reference, p[k] * 2, 2)
    BY <2>2, <2>3, WorthWhole
  <2>5. p[k] * 2 = p[k] + p[k]
    BY <2>3
  <2>6. k <= k /\ 2 * k >= n /\ 2 * (n - k + 1) >= n
    BY <1>1, <2>1
  <2> QED
    BY <2>1, <2>4, <2>5, <2>6
<1>7. CASE n >= 3 /\ n % 2 # 1
  <2> DEFINE k == n \div 2
  <2>1. k \in 1 .. n /\ k + 1 \in 1 .. n /\ 2 * k = n
    BY <1>1, <1>7
  <2>2. Reference = Over(p[k] + p[k + 1], 2)
    BY <1>4, <1>7
  <2> HIDE DEF k
  <2>3. p[k] + p[k + 1] \in Int
    BY <1>5, <2>1
  <2>4. Reference \in Fraction /\ Worth(Reference, p[k] + p[k + 1], 2)
    BY <2>2, <2>3, WorthOver
  <2>5. k <= k + 1 /\ 2 * k >= n /\ 2 * (n - (k + 1) + 1) >= n
    BY <1>1, <2>1
  <2> QED
    BY <2>1, <2>4, <2>5
<1>8. CASE n = 1
  <2>1. p \in [1 .. 1 -> Nat] /\ 1 \in 1 .. n
    BY <1>3, <1>8
  <2>2. Reference = Over(p[1], 1) /\ p[1] \in Nat
    BY <1>4, <1>8, <2>1, SmallSums
  <2>3. Reference \in Fraction /\ Worth(Reference, p[1], 1)
    BY <2>2, WorthOver
  <2>4. Worth(Reference, p[1] + p[1], 2)
    <3>1. /\ p[1] \in Int /\ p[1] + p[1] \in Int /\ 1 \in Nat \ {0}
          /\ 2 \in Nat \ {0} /\ p[1] * 2 = (p[1] + p[1]) * 1
      BY <2>2
    <3> QED
      BY <2>3, <3>1, WorthEqual
  <2> QED
    BY <1>8, <2>1, <2>3, <2>4
<1>9. CASE n = 2
  <2>1. p \in [1 .. 2 -> Nat] /\ 1 \in 1 .. n /\ 2 \in 1 .. n
    BY <1>3, <1>9
  <2>2. Reference = Over(p[1] + p[2], 2) /\ p[1] + p[2] \in Int
    <3>1. SumFunction(p) = p[1] + p[2] /\ p[1] \in Nat /\ p[2] \in Nat
      BY <2>1, SmallSums
    <3> QED
      BY <1>4, <1>9, <3>1
  <2>3. Reference \in Fraction /\ Worth(Reference, p[1] + p[2], 2)
    BY <2>2, WorthOver
  <2> QED
    BY <1>9, <2>1, <2>3
<1> QED
  BY <1>1, <1>2, <1>6, <1>7, <1>8, <1>9

\* What is worth m halves, compared with a whole number, and doubled.
LEMMA Halves ==
  ASSUME NEW a \in Fraction, NEW m \in Int, Worth(a, m, 2), NEW k \in Int
  PROVE  /\ AtMost(Whole(k), a) <=> 2 * k <= m
         /\ AtMost(a, Whole(k)) <=> m <= 2 * k
         /\ (2 * a.num) \div a.den = m
<1> DEFINE p == a.num
           q == a.den
<1>1. p \in Int /\ q \in Nat \ {0} /\ p * 2 = m * q
  BY FractionParts DEF Worth
<1>2. AtMost(Whole(k), a) <=> k * q <= p
  BY <1>1 DEF AtMost, Whole
<1>3. AtMost(a, Whole(k)) <=> m <= k * 2
  <2>1. 2 \in Nat \ {0}
    OBVIOUS
  <2> QED
    BY <2>1, WorthAtMost
<1>4. k * 2 = 2 * k
  OBVIOUS
<1> HIDE DEF p, q
<1>5. k * q <= p <=> 2 * k <= m
  <2>1. k * q <= p <=> (2 * k) * q <= m * q
    <3>1. (2 * k) * q = (k * q) * 2 /\ k * q \in Int
      BY <1>1
    <3> QED
      BY <1>1, <3>1
  <2>2. (2 * k) * q <= m * q <=> 2 * k <= m
    <3>1. 2 * k \in Int
      OBVIOUS
    <3> DEFINE c == 2 * k
    <3> HIDE DEF c
    <3>2. c \in Int => (c * q <= m * q <=> c <= m)
      BY <1>1
    <3> QED
      BY <3>1, <3>2 DEF c
  <2> QED
    BY <2>1, <2>2
<1>6. (2 * p) \div q = m
  <2>1. 2 * p = m * q
    BY <1>1
  <2>2. (m * q) \div q = m
    BY <1>1
  <2> QED
    BY <2>1, <2>2
<1> QED
  BY <1>2, <1>3, <1>4, <1>5, <1>6 DEF p, q

\* The central contributors of the reference bound it on both sides.
LEMMA ReferenceIsCentral == IInv => OutlierContained
<1> DEFINE below == {s \in Contributors :
                       AtMost(Whole(latest[s].price), Reference)}
           above == {s \in Contributors :
                       AtMost(Reference, Whole(latest[s].price))}
           n == Cardinality(Contributors)
<1> SUFFICES ASSUME IInv, Contributors # {}
             PROVE  2 * Cardinality(below) >= n /\ 2 * Cardinality(above) >= n
  BY DEF OutlierContained
<1>1. /\ IsFiniteSet(Contributors) /\ n \in Nat
      /\ \A s \in Contributors : FreshPrice[s] \in Nat
                                 /\ FreshPrice[s] = latest[s].price
      /\ InOrder(Order, Contributors, FreshPrice)
  BY OrderOfFresh
<1>2. PICK i \in 1 .. n, j \in 1 .. n :
        /\ i <= j /\ 2 * i >= n /\ 2 * (n - j + 1) >= n
        /\ Reference \in Fraction
        /\ Worth(Reference, FreshPrice[Order[i]] + FreshPrice[Order[j]], 2)
  BY ReferenceHalfway
<1>3. /\ DOMAIN Order = 1 .. n
      /\ \A l \in 1 .. n : /\ Order[l] \in Contributors
                           /\ FreshPrice[Order[l]] \in Nat
                           /\ FreshPrice[Order[l]] = latest[Order[l]].price
  BY <1>1 DEF InOrder
<1>4. \A k, l \in 1 .. n : k <= l => FreshPrice[Order[k]] <= FreshPrice[Order[l]]
  <2> SUFFICES ASSUME NEW k \in 1 .. n, NEW l \in 1 .. n, k <= l
               PROVE  FreshPrice[Order[k]] <= FreshPrice[Order[l]]
    OBVIOUS
  <2>1. CASE k = l
    BY <1>3, <2>1
  <2>2. CASE k < l
    BY <1>1, <1>3, <2>2 DEF InOrder
  <2> QED
    BY <1>1, <2>1, <2>2
<1> DEFINE m == FreshPrice[Order[i]] + FreshPrice[Order[j]]
<1>5. m \in Int /\ Worth(Reference, m, 2)
  BY <1>2, <1>3
<1>6. \A l \in 1 .. i : l \in 1 .. n /\ Order[l] \in below
  <2> SUFFICES ASSUME NEW l \in 1 .. i PROVE l \in 1 .. n /\ Order[l] \in below
    OBVIOUS
  <2>1. l \in 1 .. n /\ l <= i /\ l <= j
    BY <1>1, <1>2
  <2>2. 2 * FreshPrice[Order[l]] <= m
    BY <1>2, <1>3, <1>4, <2>1
  <2>3. AtMost(Whole(FreshPrice[Order[l]]), Reference)
    <3>1. FreshPrice[Order[l]] \in Int
      BY <1>3, <2>1
    <3> HIDE DEF m
    <3> QED
      BY <1>2, <1>5, <2>2, <3>1, Halves
  <2> QED
    BY <1>3, <2>1, <2>3
<1>7. \A l \in j .. n : l \in 1 .. n /\ Order[l] \in above
  <2> SUFFICES ASSUME NEW l \in j .. n PROVE l \in 1 .. n /\ Order[l] \in above
    OBVIOUS
  <2>1. l \in 1 .. n /\ i <= l /\ j <= l
    BY <1>1, <1>2
  <2>2. m <= 2 * FreshPrice[Order[l]]
    BY <1>2, <1>3, <1>4, <2>1
  <2>3. AtMost(Reference, Whole(FreshPrice[Order[l]]))
    <3>1. FreshPrice[Order[l]] \in Int
      BY <1>3, <2>1
    <3> HIDE DEF m
    <3> QED
      BY <1>2, <1>5, <2>2, <3>1, Halves
  <2> QED
    BY <1>3, <2>1, <2>3
<1>8. below \in SUBSET Contributors /\ above \in SUBSET Contributors
  OBVIOUS
<1> HIDE DEF below, above, m
<1>9. 1 \in 1 .. n /\ 1 <= i /\ n \in 1 .. n /\ j <= n
  BY <1>1, <1>2
<1>10. Cardinality(below) \in Nat /\ Cardinality(below) >= i - 1 + 1
  BY <1>1, <1>6, <1>8, <1>9, StretchCount
<1>11. Cardinality(above) \in Nat /\ Cardinality(above) >= n - j + 1
  BY <1>1, <1>7, <1>8, <1>9, StretchCount
<1> HIDE DEF n
<1> QED
  BY <1>1, <1>2, <1>10, <1>11

\* One wild source never moves the reference past the others: at least half of
\* the contributors lie on either side of it (price_aggregator.py:37-41).
THEOREM OutliersAreContained == Spec => []OutlierContained
BY ReferenceIsCentral, TicksAreSound, PTL

-----------------------------------------------------------------------------
\* Signals.

\* The fair value at the reference is in the table, and moves with it.
LEMMA FairMoves ==
  ASSUME IInv, Contributors # {}, NEW market \in MarketIds
  PROVE  /\ FairProbability(market, Reference) \in 0 .. 1000
         /\ \A s \in Contributors :
              LET fair == FairProbability(market, Whole(latest[s].price))
              IN  /\ fair \in 0 .. 1000
                  /\ AtMost(Whole(latest[s].price), Reference)
                       => fair <= FairProbability(market, Reference)
                  /\ AtMost(Reference, Whole(latest[s].price))
                       => FairProbability(market, Reference) <= fair
<1>1. PICK i \in 1 .. Cardinality(Contributors),
           j \in 1 .. Cardinality(Contributors) :
        /\ Reference \in Fraction
        /\ Worth(Reference, FreshPrice[Order[i]] + FreshPrice[Order[j]], 2)
  BY ReferenceHalfway
<1>2. /\ FreshPrice[Order[i]] \in Prices /\ FreshPrice[Order[i]] \in Nat
      /\ FreshPrice[Order[j]] \in Prices /\ FreshPrice[Order[j]] \in Nat
  BY OrderOfFresh DEF InOrder
<1> DEFINE m == FreshPrice[Order[i]] + FreshPrice[Order[j]]
<1>3. m \in Doubled /\ m \in Int
  BY <1>2 DEF Doubled
<1>4. Worth(Reference, m, 2)
  BY <1>1
<1> HIDE DEF m
<1>5. (2 * Reference.num) \div Reference.den = m
  <2>1. 0 \in Int
    OBVIOUS
  <2> QED
    BY <1>1, <1>3, <1>4, <2>1, Halves
<1>6. FairProbability(market, Reference) = FairYes[market][m]
  BY <1>5 DEF FairProbability
<1>7. /\ \A p \in Doubled : FairYes[market][p] \in 0 .. 1000
      /\ \A p, q \in Doubled : p <= q => FairYes[market][p] <= FairYes[market][q]
  BY SignalAssumption DEF SignalAssumption
<1>8. ASSUME NEW s \in Contributors
      PROVE  LET fair == FairProbability(market, Whole(latest[s].price))
             IN  /\ fair \in 0 .. 1000
                 /\ AtMost(Whole(latest[s].price), Reference)
                      => fair <= FairYes[market][m]
                 /\ AtMost(Reference, Whole(latest[s].price))
                      => FairYes[market][m] <= fair
  <2> DEFINE k == latest[s].price
  <2>1. k \in Prices /\ k \in Nat
    BY OrderOfFresh
  <2>2. (2 * Whole(k).num) \div Whole(k).den = 2 * k
    BY <2>1 DEF Whole
  <2> HIDE DEF k
  <2>3. 2 * k \in Doubled
    <3>1. 2 * k = k + k
      BY <2>1
    <3> QED
      BY <2>1, <3>1 DEF Doubled
  <2>4. FairProbability(market, Whole(k)) = FairYes[market][2 * k]
    BY <2>2 DEF FairProbability
  <2>5. /\ AtMost(Whole(k), Reference) => 2 * k <= m
        /\ AtMost(Reference, Whole(k)) => m <= 2 * k
    BY <1>1, <1>3, <1>4, <2>1, Halves
  <2> DEFINE c == 2 * k
  <2>6. c \in Doubled /\ FairProbability(market, Whole(k)) = FairYes[market][c]
    BY <2>3, <2>4
  <2>7. /\ AtMost(Whole(k), Reference) => c <= m
        /\ AtMost(Reference, Whole(k)) => m <= c
    BY <2>5
  <2> HIDE DEF c
  <2>8. /\ FairYes[market][c] \in 0 .. 1000
        /\ AtMost(Whole(k), Reference) => FairYes[market][c] <= FairYes[market][m]
        /\ AtMost(Reference, Whole(k)) => FairYes[market][m] <= FairYes[market][c]
    BY <1>3, <1>7, <2>6, <2>7
  <2> QED
    BY <2>6, <2>8 DEF k
<1> QED
  BY <1>3, <1>6, <1>7, <1>8

\* The midpoint is halfway between bid and ask.
LEMMA MidPriceTyped ==
  ASSUME NEW book \in Books
  PROVE  /\ book.bid \in Nat /\ book.ask \in Nat
         /\ MidPrice(book) \in Nat
         /\ 2 * MidPrice(book) = book.bid + book.ask
<1>1. /\ book.bid \in Nat /\ book.ask \in Nat /\ (book.bid + book.ask) % 2 = 0
  BY SignalAssumption DEF SignalAssumption
<1> QED
  BY <1>1 DEF MidPrice

\* When a signal is given, and which.
LEMMA SignalCases ==
  ASSUME NEW market, NEW book \in Books, NEW reference,
         FairProbability(market, reference) \in 0 .. 1000
  PROVE  LET edge == FairProbability(market, reference) - MidPrice(book)
             costs == TakerFeeEstimate + SlippageEstimate + ExecutionBuffer
         IN  /\ BuildSignal(market, book, reference) \in {"none", "buy", "sell"}
             /\ BuildSignal(market, book, reference) = "buy"
                  <=> HasMarket(market) /\ edge >= 0 /\ edge - costs > MinNetEdge
             /\ BuildSignal(market, book, reference) = "sell"
                  <=> HasMarket(market) /\ edge < 0 /\ -edge - costs > MinNetEdge
<1> DEFINE f == FairProbability(market, reference)
           mid == MidPrice(book)
<1>1. /\ TakerFeeEstimate \in Nat /\ SlippageEstimate \in Nat
      /\ ExecutionBuffer \in Nat /\ MinNetEdge \in Nat
  BY SignalAssumption DEF SignalAssumption
<1>2. mid \in Nat
  BY MidPriceTyped
<1>3. f \in Nat
  OBVIOUS
<1>4. BuildSignal(market, book, reference)
        = IF ~HasMarket(market) \/ NetEdge(AbsInt(f - mid)) <= MinNetEdge
            THEN "none"
          ELSE IF f - mid >= 0 THEN "buy" ELSE "sell"
  BY DEF BuildSignal
<1> HIDE DEF f, mid
<1> DEFINE e == f - mid
           costs == TakerFeeEstimate + SlippageEstimate + ExecutionBuffer
<1>5. e \in Int /\ costs \in Nat
  BY <1>1, <1>2, <1>3
<1>6. NetEdge(AbsInt(e)) = (IF e < 0 THEN -e ELSE e) - costs
  BY <1>1, <1>2, <1>3 DEF NetEdge, AbsInt
<1> HIDE DEF e, costs
<1>7. BuildSignal(market, book, reference)
        = IF ~HasMarket(market) \/ NetEdge(AbsInt(e)) <= MinNetEdge
            THEN "none"
          ELSE IF e >= 0 THEN "buy" ELSE "sell"
  BY <1>4 DEF e
<1>8. /\ e >= 0 => (NetEdge(AbsInt(e)) <= MinNetEdge <=> ~(e - costs > MinNetEdge))
      /\ e < 0 => (NetEdge(AbsInt(e)) <= MinNetEdge <=> ~(-e - costs > MinNetEdge))
      /\ e >= 0 <=> ~(e < 0)
  BY <1>1, <1>5, <1>6
<1> DEFINE signal == BuildSignal(market, book, reference)
<1>9. CASE ~HasMarket(market)
  <2>1. signal = "none"
    BY <1>7, <1>9
  <2> QED
    BY <1>9, <2>1 DEF e, costs, f, mid
<1>10. CASE HasMarket(market) /\ e >= 0
  <2>1. signal = IF e - costs > MinNetEdge THEN "buy" ELSE "none"
    BY <1>7, <1>8, <1>10
  <2>2. ~(e < 0)
    BY <1>8, <1>10
  <2> HIDE DEF signal
  <2>3. /\ signal \in {"none", "buy", "sell"}
        /\ signal = "buy" <=> e - costs > MinNetEdge
        /\ signal # "sell"
    BY <2>1
  <2> QED
    BY <1>10, <2>2, <2>3 DEF e, costs, f, mid, signal
<1>11. CASE HasMarket(market) /\ e < 0
  <2>1. signal = IF -e - costs > MinNetEdge THEN "sell" ELSE "none"
    BY <1>7, <1>8, <1>11
  <2>2. ~(e >= 0)
    BY <1>8, <1>11
  <2> HIDE DEF signal
  <2>3. /\ signal \in {"none", "buy", "sell"}
        /\ signal = "sell" <=> -e - costs > MinNetEdge
        /\ signal # "buy"
    BY <2>1
  <2> QED
    BY <1>11, <2>2, <2>3 DEF e, costs, f, mid, signal
<1> QED
  BY <1>8, <1>9, <1>10, <1>11

\* At least half of the sources agree with every signal: those the reference
\* lies below, or those it lies above.
LEMMA HalfAgrees ==
  ASSUME IInv, NEW market \in MarketIds, NEW book \in Books,
         SignalNow(market, book) # "none"
  PROVE  2 * Cardinality({s \in Contributors :
               BuildSignal(market, book, Whole(latest[s].price))
                 = SignalNow(market, book)})
           >= Cardinality(Contributors)
<1> DEFINE agree == {s \in Contributors :
                       BuildSignal(market, book, Whole(latest[s].price))
                         = SignalNow(market, book)}
           below == {s \in Contributors :
                       AtMost(Whole(latest[s].price), Reference)}
           above == {s \in Contributors :
                       AtMost(Reference, Whole(latest[s].price))}
           n == Cardinality(Contributors)
           costs == TakerFeeEstimate + SlippageEstimate + ExecutionBuffer
           fair == FairProbability(market, Reference)
           mid == MidPrice(book)
<1>1. Contributors # {}
      /\ SignalNow(market, book) = BuildSignal(market, book, Reference)
  BY DEF SignalNow
<1>2. /\ IsFiniteSet(Contributors) /\ n \in Nat
      /\ 2 * Cardinality(below) >= n /\ 2 * Cardinality(above) >= n
  BY <1>1, OrderOfFresh, ReferenceIsCentral DEF OutlierContained
<1>3. fair \in 0 .. 1000
  BY <1>1, FairMoves
<1>4. mid \in Nat /\ costs \in Nat /\ MinNetEdge \in Nat
  BY MidPriceTyped, SignalAssumption DEF SignalAssumption
<1>5. CASE SignalNow(market, book) = "buy"
  <2>1. HasMarket(market) /\ fair - mid >= 0 /\ fair - mid - costs > MinNetEdge
    BY <1>1, <1>3, <1>5, SignalCases
  <2>2. above \subseteq agree
    <3> SUFFICES ASSUME NEW s \in Contributors,
                        AtMost(Reference, Whole(latest[s].price))
                 PROVE  BuildSignal(market, book, Whole(latest[s].price)) = "buy"
      BY <1>5
    <3> DEFINE own == FairProbability(market, Whole(latest[s].price))
    <3>1. own \in 0 .. 1000 /\ fair <= own
      BY <1>1, FairMoves
    <3>2. own - mid >= 0 /\ own - mid - costs > MinNetEdge
      <4> HIDE DEF own, fair, mid, costs
      <4> QED
        BY <1>3, <1>4, <2>1, <3>1
    <3> QED
      BY <2>1, <3>1, <3>2, SignalCases
  <2> HIDE DEF above, agree
  <2>3. above \subseteq agree /\ agree \subseteq Contributors
    BY <2>2 DEF agree
  <2>4. IsFiniteSet(agree) /\ Cardinality(agree) \in Nat
    BY <1>2, <2>3, FS_Subset, FS_CardinalityType
  <2>5. Cardinality(above) <= Cardinality(agree) /\ Cardinality(above) \in Nat
    BY <2>3, <2>4, FS_Subset, FS_CardinalityType
  <2>6. 2 * Cardinality(agree) >= n
    <3> HIDE DEF n
    <3> QED
      BY <1>2, <2>4, <2>5
  <2> QED
    BY <2>6 DEF agree
<1>6. CASE SignalNow(market, book) = "sell"
  <2>1. /\ HasMarket(market) /\ fair - mid < 0
        /\ -(fair - mid) - costs > MinNetEdge
    BY <1>1, <1>3, <1>6, SignalCases
  <2>2. below \subseteq agree
    <3> SUFFICES ASSUME NEW s \in Contributors,
                        AtMost(Whole(latest[s].price), Reference)
                 PROVE  BuildSignal(market, book, Whole(latest[s].price)) = "sell"
      BY <1>6
    <3> DEFINE own == FairProbability(market, Whole(latest[s].price))
    <3>1. own \in 0 .. 1000 /\ own <= fair
      BY <1>1, FairMoves
    <3>2. own - mid < 0 /\ -(own - mid) - costs > MinNetEdge
      <4> HIDE DEF own, fair, mid, costs
      <4> QED
        BY <1>3, <1>4, <2>1, <3>1
    <3> QED
      BY <2>1, <3>1, <3>2, SignalCases
  <2> HIDE DEF below, agree
  <2>3. below \subseteq agree /\ agree \subseteq Contributors
    BY <2>2 DEF agree
  <2>4. IsFiniteSet(agree) /\ Cardinality(agree) \in Nat
    BY <1>2, <2>3, FS_Subset, FS_CardinalityType
  <2>5. Cardinality(below) <= Cardinality(agree) /\ Cardinality(below) \in Nat
    BY <2>3, <2>4, FS_Subset, FS_CardinalityType
  <2>6. 2 * Cardinality(agree) >= n
    <3> HIDE DEF n
    <3> QED
      BY <1>2, <2>4, <2>5
  <2> QED
    BY <2>6 DEF agree
<1> QED
  BY <1>1, <1>3, <1>5, <1>6, SignalCases

\* Half of one source or of three is a majority.
LEMMA MajorityAgrees == IInv => SignalHasMajority
<1> SUFFICES ASSUME IInv, NEW market \in MarketIds, NEW book \in Books,
                    SignalNow(market, book) # "none"
             PROVE  LET n == Cardinality(Contributors)
                        agree == Cardinality({s \in Contributors :
                            BuildSignal(market, book, Whole(latest[s].price))
                              = SignalNow(market, book)})
                    IN  IF n = 2 THEN agree >= 1 ELSE 2 * agree > n
  BY DEF SignalHasMajority
<1> DEFINE agreeing == {s \in Contributors :
                          BuildSignal(market, book, Whole(latest[s].price))
                            = SignalNow(market, book)}
           n == Cardinality(Contributors)
           agree == Cardinality(agreeing)
<1>1. 2 * agree >= n
  BY HalfAgrees
<1>2. Contributors # {} /\ IsFiniteSet(Contributors) /\ Contributors \subseteq Sources
  BY OrderOfFresh DEF SignalNow, IInv, TypeOK, Contributors
<1>3. n \in Nat /\ n # 0 /\ agree \in Nat
  <2>1. agreeing \subseteq Contributors
    OBVIOUS
  <2> HIDE DEF agreeing
  <2> QED
    BY <1>2, <2>1, FS_Subset, FS_CardinalityType, FS_EmptySet
<1>4. n <= 3
  <2>1. IsFiniteSet({}) /\ Cardinality({}) = 0
    BY FS_EmptySet
  <2>2. IsFiniteSet({} \cup {"binance"}) /\ Cardinality({} \cup {"binance"}) = 1
    BY <2>1, FS_AddElement
  <2>3. /\ IsFiniteSet(({} \cup {"binance"}) \cup {"binance_rest"})
        /\ Cardinality(({} \cup {"binance"}) \cup {"binance_rest"}) = 2
    BY <2>2, FS_AddElement
  <2>4. /\ IsFiniteSet((({} \cup {"binance"}) \cup {"binance_rest"}) \cup {"coingecko"})
        /\ Cardinality((({} \cup {"binance"}) \cup {"binance_rest"}) \cup {"coingecko"}) = 3
    BY <2>3, FS_AddElement
  <2>5. Sources = (({} \cup {"binance"}) \cup {"binance_rest"}) \cup {"coingecko"}
    BY DEF Sources
  <2>6. IsFiniteSet(Sources) /\ Cardinality(Sources) = 3
    BY <2>4, <2>5
  <2> QED
    BY <1>2, <2>6, FS_Subset
<1> HIDE DEF n, agree
<1>5. IF n = 2 THEN agree >= 1 ELSE 2 * agree > n
  BY <1>1, <1>3, <1>4
<1> QED
  BY <1>5 DEF n, agree

\* What is paid beyond the midpoint is half the spread on either side.
LEMMA EdgeSurvives == IInv => EdgeSurvivesSpread
<1> SUFFICES ASSUME IInv, NEW market \in MarketIds, NEW book \in Books,
                    SignalNow(market, book) # "none",
                    book.ask - MidPrice(book) <= SlippageEstimate + ExecutionBuffer
             PROVE  (IF SignalNow(market, book) = "buy"
                       THEN FairProbability(market, Reference) - book.ask
                       ELSE book.bid - FairProbability(market, Reference))
                      - TakerFeeEstimate > MinNetEdge
  BY DEF EdgeSurvivesSpread
<1> DEFINE fair == FairProbability(market, Reference)
           mid == MidPrice(book)
<1>1. Contributors # {}
      /\ SignalNow(market, book) = BuildSignal(market, book, Reference)
  BY DEF SignalNow
<1>2. fair \in 0 .. 1000
  BY <1>1, FairMoves
<1>3. /\ TakerFeeEstimate \in Nat /\ SlippageEstimate \in Nat
      /\ ExecutionBuffer \in Nat /\ MinNetEdge \in Nat
  BY SignalAssumption DEF SignalAssumption
<1>4. /\ mid \in Nat /\ 2 * mid = book.bid + book.ask
      /\ book.bid \in Nat /\ book.ask \in Nat
  BY MidPriceTyped
<1>5. CASE SignalNow(market, book) = "buy"
  <2>1. fair - mid - (TakerFeeEstimate + SlippageEstimate + ExecutionBuffer)
          > MinNetEdge
    BY <1>1, <1>2, <1>5, SignalCases
  <2>2. fair - book.ask - TakerFeeEstimate > MinNetEdge
    <3> HIDE DEF fair, mid
    <3>1. book.ask - mid <= SlippageEstimate + ExecutionBuffer
      BY DEF mid
    <3> QED
      BY <1>2, <1>3, <1>4, <2>1, <3>1
  <2> QED
    BY <1>5, <2>2
<1>6. CASE SignalNow(market, book) = "sell"
  <2>1. -(fair - mid) - (TakerFeeEstimate + SlippageEstimate + ExecutionBuffer)
          > MinNetEdge
    BY <1>1, <1>2, <1>6, SignalCases
  <2>2. book.bid - fair - TakerFeeEstimate > MinNetEdge
    <3> HIDE DEF fair, mid
    <3>1. book.ask - mid <= SlippageEstimate + ExecutionBuffer
      BY DEF mid
    <3> QED
      BY <1>2, <1>3, <1>4, <2>1, <3>1
  <2> QED
    BY <1>6, <2>2
<1> QED
  BY <1>1, <1>2, <1>5, <1>6, SignalCases

\* Where there is a majority no signal goes against it: of one or three fresh
\* sources more than half would have signalled the same, of two at least one
\* (price_aggregator.py:37-41, signal_engine.py:30-43).
THEOREM SignalsHaveMajority == Spec => []SignalHasMajority
BY MajorityAgrees, TicksAreSound, PTL

\* An order priced at the far side of the book keeps the minimum edge, its fee
\* paid, while half the spread is within what was set aside for slippage and
\* buffer (signal_engine.py:31-43, execution_engine.py:143).
THEOREM EdgesSurvive == Spec => []EdgeSurvivesSpread
BY EdgeSurvives, TicksAreSound, PTL

=============================================================================
