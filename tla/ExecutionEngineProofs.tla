------------------------ MODULE ExecutionEngineProofs ------------------------
(***************************************************************************)
(* Proofs about ExecutionEngine, for every set of markets and quotes,      *)
(* every limit and every number of orders, in all four modes; and at the   *)
(* end those about Reconciliation: beside the reconciler the engine keeps  *)
(* all that is proved of it alone, and what the reconciler reports was so. *)
(***************************************************************************)
EXTENDS Reconciliation, Lemmas

\* The facts about the risk engine's methods, at the engine's constants.
RP == INSTANCE RiskEngineProofs
        WITH cancels <- << >>, errors <- << >>, MaxCancelPerSec <- 0,
             Sizes <- {Lot}, Latencies <- {}, Readings <- {}

\* The constants the engine leaves out mean nothing to the facts it uses.
LEMMA RiskConstants == RP!RiskAssumption
BY EngineAssumption DEF EngineAssumption, RP!RiskAssumption

\* The methods the engine calls are those the facts are about.
LEMMA SameRisk ==
  /\ Risk!NewRiskEngine = RP!NewRiskEngine
  /\ \A r, reading, t :
       Risk!EvaluateOrder(r, reading, t) = RP!EvaluateOrder(r, reading, t)
  /\ \A r, reading : Risk!Allowed(r, reading) = RP!Allowed(r, reading)
  /\ \A r, size, t : Risk!RecordOrderSubmission(r, size, t)
                       = RP!RecordOrderSubmission(r, size, t)
  /\ \A r, t : Risk!RegisterWsHeartbeat(r, t) = RP!RegisterWsHeartbeat(r, t)
  /\ \A r, t : Risk!RecordError(r, t) = RP!RecordError(r, t)
  /\ \A r, latency : Risk!RecordLatency(r, latency) = RP!RecordLatency(r, latency)
<1>1. \A s, u : Risk!EvictOld(s, u) = RP!EvictOld(s, u)
  BY DEF Risk!EvictOld, RP!EvictOld, Risk!Evict, RP!Evict
<1>2. \A s, reason : Risk!ActivateKillSwitch(s, reason)
                       = RP!ActivateKillSwitch(s, reason)
  BY DEF Risk!ActivateKillSwitch, RP!ActivateKillSwitch
<1>3. \A r, reading, t :
        Risk!EvaluateOrder(r, reading, t) = RP!EvaluateOrder(r, reading, t)
  BY <1>1, <1>2
     DEF Risk!EvaluateOrder, RP!EvaluateOrder, Risk!CheckLossLimits,
         RP!CheckLossLimits, Risk!CheckWsDisconnect, RP!CheckWsDisconnect
<1>4. \A r, reading : Risk!Allowed(r, reading) = RP!Allowed(r, reading)
  BY DEF Risk!Allowed, RP!Allowed
<1>5. \A r, size, t : Risk!RecordOrderSubmission(r, size, t)
                        = RP!RecordOrderSubmission(r, size, t)
  BY <1>1 DEF Risk!RecordOrderSubmission, RP!RecordOrderSubmission
<1>6. \A r, t : Risk!RegisterWsHeartbeat(r, t) = RP!RegisterWsHeartbeat(r, t)
  BY DEF Risk!RegisterWsHeartbeat, RP!RegisterWsHeartbeat
<1>7. \A r, t : Risk!RecordError(r, t) = RP!RecordError(r, t)
  BY <1>1, <1>2 DEF Risk!RecordError, RP!RecordError
<1>8. \A r, latency : Risk!RecordLatency(r, latency) = RP!RecordLatency(r, latency)
  BY <1>2 DEF Risk!RecordLatency, RP!RecordLatency
<1>9. Risk!NewRiskEngine = RP!NewRiskEngine
  BY DEF Risk!NewRiskEngine, RP!NewRiskEngine
<1> QED
  BY <1>3, <1>4, <1>5, <1>6, <1>7, <1>8, <1>9

\* The instances' FiniteSets and this module's are the same.
LEMMA SameCardinality ==
  \A S : /\ Orders!Cardinality(S) = Cardinality(S)
         /\ Gate!Cardinality(S) = Cardinality(S)
         /\ RP!Cardinality(S) = Cardinality(S)
BY DEF Orders!Cardinality, Orders!IsFiniteSet, Gate!Cardinality,
       Gate!IsFiniteSet, RP!Cardinality, RP!IsFiniteSet, Cardinality, IsFiniteSet

-----------------------------------------------------------------------------
\* The risk engine in the hands of the consumer.

\* The book of the risk engine r is sound at t for the orders of the log.
Booked(r, t, log) ==
  \E errorLog \in Seq(Nat) : RP!Sound(r, t, log, << >>, errorLog)

\* A new risk engine has the book of no orders.
LEMMA NewBooked == Booked(Risk!NewRiskEngine, 0, << >>)
<1>1. << >> \in Seq(Nat)
  BY EmptySeq
<1>2. RP!Keeps(<< >>, << >>, 0, OrderWindow) /\ RP!Keeps(<< >>, << >>, 0, ErrorWindow)
  BY <1>1 DEF RP!Keeps
<1>3. RP!Sound(RP!NewRiskEngine, 0, << >>, << >>, << >>)
  BY <1>1, <1>2 DEF RP!Sound, RP!RiskState, RP!NewRiskEngine
<1> QED
  BY <1>1, <1>3, SameRisk DEF Booked

\* What a sound book says of the kill switch.
LEMMA BookedParts ==
  ASSUME NEW r, NEW t, NEW log, Booked(r, t, log)
  PROVE  /\ r.kill_switch_active \in BOOLEAN
         /\ r.kill_switch_active <=> r.kill_reason # "None"
BY DEF Booked, RP!Sound, RP!RiskState

\* A book stays sound as time passes.
LEMMA BookedLater ==
  ASSUME NEW r, NEW t \in Nat, NEW log \in Seq(Nat), Booked(r, t, log)
  PROVE  Booked(r, t + 1, log)
<1>1. PICK errorLog \in Seq(Nat) : RP!Sound(r, t, log, << >>, errorLog)
  BY DEF Booked
<1>2. << >> \in Seq(Nat)
  BY EmptySeq
<1>3. RP!Sound(r, t + 1, log, << >>, errorLog)
  BY <1>1, <1>2, RiskConstants, RP!SoundLater
<1> QED
  BY <1>3 DEF Booked

\* Every call of the consumer keeps the book; none releases the kill switch.
LEMMA CallsBooked ==
  ASSUME NEW r, NEW t \in Nat, NEW log \in Seq(Nat), Booked(r, t, log),
         NEW reading, NEW latency
  PROVE  /\ Booked(Risk!RegisterWsHeartbeat(r, t), t, log)
         /\ Risk!RegisterWsHeartbeat(r, t).kill_switch_active
              = r.kill_switch_active
         /\ Booked(Risk!EvaluateOrder(r, reading, t), t, log)
         /\ r.kill_switch_active
              => Risk!EvaluateOrder(r, reading, t).kill_switch_active
         /\ Booked(Risk!RecordLatency(r, latency), t, log)
         /\ r.kill_switch_active
              => Risk!RecordLatency(r, latency).kill_switch_active
         /\ Booked(Risk!RecordError(r, t), t, log)
         /\ r.kill_switch_active => Risk!RecordError(r, t).kill_switch_active
<1>1. PICK errorLog \in Seq(Nat) : RP!Sound(r, t, log, << >>, errorLog)
  BY DEF Booked
<1>2. << >> \in Seq(Nat) /\ 0 \in Nat
  BY EmptySeq
<1>3. /\ RP!Sound(RP!RegisterWsHeartbeat(r, t), t, log, << >>, errorLog)
      /\ RP!RegisterWsHeartbeat(r, t).kill_switch_active = r.kill_switch_active
      /\ RP!Sound(RP!RecordLatency(r, latency), t, log, << >>, errorLog)
      /\ r.kill_switch_active => RP!RecordLatency(r, latency).kill_switch_active
  BY <1>1, <1>2, RiskConstants, RP!OthersSound
<1>4. /\ RP!Sound(RP!EvaluateOrder(r, reading, t), t, log, << >>, errorLog)
      /\ r.kill_switch_active
           => RP!EvaluateOrder(r, reading, t).kill_switch_active
  BY <1>1, <1>2, RiskConstants, RP!EvaluateSound
<1>5. /\ RP!Sound(RP!RecordError(r, t), t, log, << >>, Append(errorLog, t))
      /\ r.kill_switch_active => RP!RecordError(r, t).kill_switch_active
  BY <1>1, <1>2, RiskConstants, RP!ErrorSound
<1>6. Append(errorLog, t) \in Seq(Nat)
  BY AppendProperties
<1> QED
  BY <1>1, <1>3, <1>4, <1>5, <1>6, SameRisk DEF Booked

\* An allowed order that is recorded keeps the book with the order in it.
LEMMA SubmissionBooked ==
  ASSUME NEW r, NEW t \in Nat, NEW log \in Seq(Nat), Booked(r, t, log),
         NEW reading, Risk!Allowed(r, reading)
  PROVE  /\ ~r.kill_switch_active
         /\ Cardinality(Young(log, t, OrderWindow)) < MaxOrdersPerSec
         /\ Booked(Risk!RecordOrderSubmission(r, Lot, t), t, Append(log, t))
         /\ ~Risk!RecordOrderSubmission(r, Lot, t).kill_switch_active
<1>1. PICK errorLog \in Seq(Nat) : RP!Sound(r, t, log, << >>, errorLog)
  BY DEF Booked
<1>2. << >> \in Seq(Nat) /\ Lot \in Nat
  BY EmptySeq, EngineAssumption DEF EngineAssumption
<1>3. RP!Allowed(r, reading)
  BY SameRisk
<1>4. /\ ~r.kill_switch_active
      /\ RP!Cardinality(RP!Young(log, t, OrderWindow)) < MaxOrdersPerSec
  BY <1>1, <1>2, <1>3, RiskConstants, RP!AllowedIsBelowRate
<1>5. Cardinality(Young(log, t, OrderWindow)) < MaxOrdersPerSec
  BY <1>4, SameCardinality DEF RP!Young, Young
<1>6. /\ RP!Sound(RP!RecordOrderSubmission(r, Lot, t), t,
                  Append(log, t), << >>, errorLog)
      /\ RP!RecordOrderSubmission(r, Lot, t).kill_switch_active
           = r.kill_switch_active
  <2> DEFINE none == << >>
  <2>1. RP!Sound(r, t, log, none, errorLog) /\ none \in Seq(Nat) /\ Lot \in Nat
    BY <1>1, <1>2
  <2> HIDE DEF none
  <2>2. /\ RP!Sound(RP!RecordOrderSubmission(r, Lot, t), t,
                    Append(log, t), none, errorLog)
        /\ RP!RecordOrderSubmission(r, Lot, t).kill_switch_active
             = r.kill_switch_active
    BY <2>1, RiskConstants, RP!SubmissionSound
  <2> QED
    BY <2>2 DEF none
<1>7. Risk!RecordOrderSubmission(r, Lot, t) = RP!RecordOrderSubmission(r, Lot, t)
  BY SameRisk
<1> QED
  BY <1>1, <1>4, <1>5, <1>6, <1>7 DEF Booked

\* Evaluating an order when the unrealized result is a loss of either limit
\* activates the kill switch.
LEMMA LossActivates ==
  ASSUME NEW r, NEW t \in Nat, NEW log \in Seq(Nat), Booked(r, t, log),
         NEW reading,
         \/ reading.dailyPnl <= -DailyLossLimit
         \/ reading.hourlyPnl <= -HourlyLossLimit
  PROVE  Risk!EvaluateOrder(r, reading, t).kill_switch_active
<1>1. PICK errorLog \in Seq(Nat) : RP!Sound(r, t, log, << >>, errorLog)
  BY DEF Booked
<1>2. << >> \in Seq(Nat)
  BY EmptySeq
<1>3. RP!EvaluateOrder(r, reading, t).kill_switch_active
  BY <1>1, <1>2, RiskConstants, RP!LossKills
<1>4. Risk!EvaluateOrder(r, reading, t) = RP!EvaluateOrder(r, reading, t)
  BY SameRisk
<1> QED
  BY <1>3, <1>4

-----------------------------------------------------------------------------
\* The inductive invariant.

\* The clock, the log of admitted orders and the book of the risk engine.
ClockInv ==
  /\ now \in Nat
  /\ LogBy(admitted, now)
  /\ Booked(risk, now, admitted)

\* The records of the order table.
OrderRecord ==
  [market: Markets, side: {"buy", "sell"}, size: {Lot}, price: Int,
   state: Orders!OrderStates, filled: Int]

\* The table of orders.
TableInv ==
  /\ orders \in Seq(OrderRecord)
  /\ Len(orders) <= Len(admitted)
  /\ OpenOrdersBounded

\* Where the consumer can be suspended, and what is pending meanwhile.
Task == [pc: {"queue.get", "to_thread", "sleep", "raised"},
         order: Nat, attempt: Nat, since: Nat]

ConsumerInv ==
  /\ mode \in Modes /\ running \in BOOLEAN /\ clob_client \in BOOLEAN
  /\ task \in Task
  /\ task.pc = "queue.get" => task = Idle
  /\ task # Idle => mode = "guarded_live"
  /\ task # Idle /\ clob_client =>
       /\ task.order \in DOMAIN orders
       /\ task.attempt \in 1 .. RetryAttempts
       /\ task.pc = "sleep" => task.attempt < RetryAttempts
  /\ task # Idle /\ ~clob_client => task.pc = "raised"
  /\ mode = "guarded_live" /\ ~clob_client => orders = << >>
  /\ PendingIsInFlight

\* Whatever was sent belongs to an open order or to that of the exception.
RequestsInv ==
  /\ accepted \subseteq sent
  /\ RequestsBounded
  /\ sent \subseteq (Orders!OpenOrders(orders) \cup Raised) \X (1 .. RetryAttempts)

\* Without a client nothing is ever sent.
Unsent == ~clob_client => sent = {}

\* What LongExposureBounded asks of the slippage: a buy is filled at the ask at most.
SlippageInSpread == \A q \in Quotes : FillPrice(q, "buy") <= q.ask

\* The books of every market are kept, for some sum of money brought in, and
\* the modes that fill no orders hold nothing.
BookInv ==
  /\ positions \in [Markets -> Position]
  /\ \A m \in Markets : /\ \E c \in Int : Kept(positions[m], c, Lot)
                        /\ LongCost(positions[m])
  /\ SlippageInSpread =>
       \A m \in Markets : Within(positions[m], MaxMarketExposure)
  /\ latest_unrealized \in Fraction
  /\ DOMAIN latest_snapshot \subseteq Markets
  /\ \A m \in DOMAIN latest_snapshot : latest_snapshot[m] \in Quotes
  /\ mode \in {"guarded_live", "shadow_live"} =>
       /\ \A m \in Markets : positions[m] = NoPosition
       /\ latest_unrealized = Whole(0)

\* The inductive invariant.
IInv ==
  /\ ClockInv
  /\ TableInv
  /\ ConsumerInv
  /\ RequestsInv
  /\ Unsent
  /\ BookInv
  /\ FillsMatchPositions

-----------------------------------------------------------------------------
\* The clock, the log and the risk engine.

\* Neither the heartbeat nor the evaluation of an order disturbs the book.
LEMMA EvaluatedBooked ==
  ASSUME ClockInv, NEW request
  PROVE  /\ Booked(Heard, now, admitted)
         /\ Heard.kill_switch_active = risk.kill_switch_active
         /\ Booked(Evaluated(request), now, admitted)
         /\ risk.kill_switch_active => Evaluated(request).kill_switch_active
<1>1. now \in Nat /\ admitted \in Seq(Nat) /\ Booked(risk, now, admitted)
  BY DEF ClockInv, LogBy
<1>2. /\ Booked(Heard, now, admitted)
      /\ Heard.kill_switch_active = risk.kill_switch_active
  BY <1>1, CallsBooked DEF Heard
<1>3. /\ Booked(Evaluated(request), now, admitted)
      /\ Heard.kill_switch_active => Evaluated(request).kill_switch_active
  BY <1>1, <1>2, CallsBooked DEF Evaluated
<1> QED
  BY <1>2, <1>3

\* An order is admitted only past an inactive kill switch and below the rate,
\* and the book keeps up with the log.
LEMMA AdmitBooked ==
  ASSUME ClockInv, NEW market, NEW quote, NEW side, Admit(market, quote, side)
  PROVE  /\ ~risk.kill_switch_active
         /\ ~Evaluated(Request(market, quote, side)).kill_switch_active
         /\ Cardinality(Young(admitted, now, OrderWindow)) < MaxOrdersPerSec
         /\ now' = now /\ LogBy(admitted', now)
         /\ Booked(Submitted(market, quote, side), now, admitted')
<1> DEFINE request == Request(market, quote, side)
           evaluated == Evaluated(request)
<1>1. now \in Nat /\ admitted \in Seq(Nat)
  BY DEF ClockInv, LogBy
<1>2. /\ Booked(evaluated, now, admitted)
      /\ risk.kill_switch_active => evaluated.kill_switch_active
  BY EvaluatedBooked
<1>3. /\ Risk!Allowed(evaluated, ReadingOf(request))
      /\ Submitted(market, quote, side)
           = Risk!RecordOrderSubmission(evaluated, Lot, now)
      /\ admitted' = Append(admitted, now) /\ now' = now
  BY DEF Admit, Passes, Submitted
<1> HIDE DEF evaluated
<1>4. /\ ~evaluated.kill_switch_active
      /\ Cardinality(Young(admitted, now, OrderWindow)) < MaxOrdersPerSec
      /\ Booked(Risk!RecordOrderSubmission(evaluated, Lot, now), now,
                Append(admitted, now))
  BY <1>1, <1>2, <1>3, SubmissionBooked
<1>5. LogBy(Append(admitted, now), now)
  BY <1>1, LogAppend DEF ClockInv
<1> QED
  BY <1>2, <1>3, <1>4, <1>5 DEF evaluated

\* An attempt leaves the risk engine alone or records an error.
LEMMA AttemptRisk ==
  ASSUME NEW r, NEW table, NEW order, NEW attempt,
         Attempt(r, table, order, attempt) \/ Caught(r, table, order, attempt)
  PROVE  risk' \in {r, Risk!RecordError(r, now)}
BY DEF Attempt, Caught

\* What a step that admits no order does to the risk engine.
Quiet ==
  /\ UNCHANGED <<now, admitted>>
  /\ Booked(risk', now, admitted)
  /\ risk.kill_switch_active => risk'.kill_switch_active

\* The admitting actions.
Admits(market, quote, side) ==
  \/ PaperFill(market, quote, side)
  \/ PaperMiss(market, quote, side)
  \/ Shadow(market, quote, side)
  \/ LiveWithoutClient(market, quote, side)
  \/ LiveCall(market, quote, side)
  \/ LiveUnsent(market, quote, side)

\* Each of them admits, and keeps the clock, the log and the book.
LEMMA AdmitsBooked ==
  ASSUME ClockInv, NEW market, NEW quote, NEW side, Admits(market, quote, side)
  PROVE  Admit(market, quote, side) /\ ClockInv'
<1>1. Admit(market, quote, side)
  BY DEF Admits, PaperFill, PaperMiss, Shadow, LiveWithoutClient, LiveCall,
         LiveUnsent
<1> DEFINE submitted == Submitted(market, quote, side)
<1>2. ASSUME LiveCall(market, quote, side)
      PROVE  risk' \in {submitted, Risk!RecordError(submitted, now)}
  <2> DEFINE table == Orders!CreatePendingOrder(orders,
                                                Request(market, quote, side))
  <2>1. Attempt(submitted, table, Len(orders) + 1, 1)
    BY <1>2 DEF LiveCall
  <2> HIDE DEF submitted, table
  <2>2. risk' \in {submitted, Risk!RecordError(submitted, now)}
    BY <2>1, AttemptRisk
  <2> QED
    BY <2>2 DEF submitted
<1>3. risk' \in {submitted, Risk!RecordError(submitted, now)}
  BY <1>2 DEF Admits, PaperFill, PaperMiss, Shadow, LiveWithoutClient, LiveUnsent
<1>4. /\ now' = now /\ LogBy(admitted', now)
      /\ Booked(submitted, now, admitted')
  BY <1>1, AdmitBooked
<1> HIDE DEF submitted
<1>5. now \in Nat /\ admitted' \in Seq(Nat)
  BY <1>4 DEF ClockInv, LogBy
<1>6. Booked(Risk!RecordError(submitted, now), now, admitted')
  BY <1>4, <1>5, CallsBooked
<1>7. Booked(risk', now, admitted')
  BY <1>3, <1>4, <1>6
<1>8. ClockInv'
  BY <1>4, <1>5, <1>7 DEF ClockInv
<1> QED
  BY <1>1, <1>8

\* Every step admits an order, lets the clock pass or is quiet.
LEMMA KindsOfSteps ==
  ASSUME ClockInv, [Next]_vars
  PROVE  \/ \E m \in Markets, q \in Quotes, side \in {"buy", "sell"} :
              Admits(m, q, side)
         \/ Tick
         \/ Quiet
<1>0. now \in Nat /\ admitted \in Seq(Nat) /\ Booked(risk, now, admitted)
  BY DEF ClockInv, LogBy
<1>2. CASE NoSignal \/ \E m \in Markets, q \in Quotes : Expired(m, q)
  <2>1. risk' = Heard /\ UNCHANGED <<now, admitted>>
    BY <1>2 DEF NoSignal, Expired
  <2> QED
    BY <2>1, EvaluatedBooked DEF Quiet
<1>3. ASSUME NEW m \in Markets, NEW q \in Quotes, NEW side \in {"buy", "sell"},
             Blocked(m, q, side)
      PROVE  Quiet
  <2>1. risk' = Evaluated(Request(m, q, side)) /\ UNCHANGED <<now, admitted>>
    BY <1>3 DEF Blocked
  <2> QED
    BY <2>1, EvaluatedBooked DEF Quiet
<1>4. CASE CallReturns \/ CallBreaks
  <2>1. risk' \in {risk, Risk!RecordLatency(risk, now - task.since)}
        /\ UNCHANGED <<now, admitted>>
    BY <1>4 DEF CallReturns, CallBreaks
  <2>2. CASE risk' = risk
    BY <1>0, <2>1, <2>2 DEF Quiet
  <2>3. CASE risk' = Risk!RecordLatency(risk, now - task.since)
    BY <1>0, <2>1, <2>3, CallsBooked DEF Quiet
  <2> QED
    BY <2>1, <2>2, <2>3
<1>5. CASE CallFails \/ Retry
  <2>1. risk' \in {risk, Risk!RecordError(risk, now)}
        /\ UNCHANGED <<now, admitted>>
    BY <1>5, AttemptRisk DEF CallFails, Retry
  <2>2. CASE risk' = risk
    BY <1>0, <2>1, <2>2 DEF Quiet
  <2>3. CASE risk' = Risk!RecordError(risk, now)
    BY <1>0, <2>1, <2>3, CallsBooked DEF Quiet
  <2> QED
    BY <2>1, <2>2, <2>3
<1>6. CASE \/ \E request \in sent : ExchangeAccepts(request)
           \/ TasksCancelled
           \/ UNCHANGED vars
  <2>1. UNCHANGED <<now, risk, admitted>>
    BY <1>6 DEF ExchangeAccepts, TasksCancelled, vars
  <2> QED
    BY <1>0, <2>1 DEF Quiet
<1> QED
  BY <1>2, <1>3, <1>4, <1>5, <1>6 DEF Next, Admits

\* Every step keeps the clock, the log of admitted orders and the book.
LEMMA ClockStep ==
  ASSUME ClockInv, [Next]_vars
  PROVE  ClockInv'
<1>1. CASE Quiet
  BY <1>1 DEF Quiet, ClockInv
<1>2. CASE Tick
  <2>1. now \in Nat /\ LogBy(admitted, now) /\ Booked(risk, now, admitted)
        /\ admitted \in Seq(Nat)
    BY DEF ClockInv, LogBy
  <2>2. LogBy(admitted, now + 1) /\ Booked(risk, now + 1, admitted)
    BY <2>1, LogLater, BookedLater
  <2>3. now' = now + 1 /\ UNCHANGED <<risk, admitted>>
    BY <1>2 DEF Tick
  <2> QED
    BY <2>1, <2>2, <2>3 DEF ClockInv
<1> QED
  BY <1>1, <1>2, KindsOfSteps, AdmitsBooked

-----------------------------------------------------------------------------
\* The table of orders.

\* The table t2 is t1 and one more record.
Added(t1, t2, market, side, state, filled) ==
  /\ t2 \in Seq(OrderRecord)
  /\ Len(t2) = Len(t1) + 1
  /\ \A i \in 1 .. Len(t1) : t2[i] = t1[i]
  /\ t2[Len(t1) + 1].market = market /\ t2[Len(t1) + 1].side = side
  /\ t2[Len(t1) + 1].state = state /\ t2[Len(t1) + 1].filled = filled

\* The table t2 is t1 but for the state of one record.
Restated(t1, t2, id, state) ==
  /\ t2 \in Seq(OrderRecord)
  /\ Len(t2) = Len(t1)
  /\ \A i \in 1 .. Len(t1) :
       /\ t2[i].market = t1[i].market /\ t2[i].side = t1[i].side
       /\ t2[i].filled = t1[i].filled
       /\ t2[i].state = IF i = id THEN state ELSE t1[i].state

\* A request is a record of the table but for what the table adds.
LEMMA RequestTyped ==
  ASSUME NEW m \in Markets, NEW q \in Quotes, NEW side \in {"buy", "sell"}
  PROVE  LET request == Request(m, q, side)
         IN  /\ request.market = m /\ request.side = side
             /\ request.size = Lot /\ request.price \in Nat
             /\ request.price = IF side = "buy" THEN q.ask ELSE q.bid
             /\ q.bid \in Nat /\ q.ask \in Nat
<1>1. q \in [bid: Nat, ask: Nat]
  BY EngineAssumption DEF EngineAssumption
<1> QED
  BY <1>1 DEF Request

\* Appending a record adds it to the table and changes no other.
LEMMA RecordAdded ==
  ASSUME NEW t \in Seq(OrderRecord), NEW r \in OrderRecord
  PROVE  Added(t, Append(t, r), r.market, r.side, r.state, r.filled)
<1>1. /\ Append(t, r) \in Seq(OrderRecord) /\ Len(Append(t, r)) = Len(t) + 1
      /\ \A i \in 1 .. Len(t) : Append(t, r)[i] = t[i]
      /\ Append(t, r)[Len(t) + 1] = r
  BY AppendProperties
<1> QED
  BY <1>1 DEF Added

\* A new order is pending, or open in shadow_live, and nothing of it is filled.
LEMMA OrderCreated ==
  ASSUME NEW t \in Seq(OrderRecord),
         NEW m \in Markets, NEW q \in Quotes, NEW side \in {"buy", "sell"}
  PROVE  /\ Added(t, Orders!CreatePendingOrder(t, Request(m, q, side)),
                  m, side, "pending", 0)
         /\ Added(t, Orders!RecordShadowOrder(t, Request(m, q, side)),
                  m, side, "open", 0)
<1> DEFINE request == Request(m, q, side)
           r == [market |-> request.market, side |-> request.side,
                 size |-> request.size, price |-> request.price,
                 state |-> "pending", filled |-> 0]
           u == [r EXCEPT !.state = "open"]
<1>1. /\ request.market = m /\ request.side = side
      /\ request.size = Lot /\ request.price \in Int
  BY RequestTyped
<1> HIDE DEF request
<1>2. /\ r \in OrderRecord /\ r.market = m /\ r.side = side
      /\ r.state = "pending" /\ r.filled = 0
  BY <1>1 DEF OrderRecord, Orders!OrderStates
<1>3. Orders!CreatePendingOrder(t, Request(m, q, side)) = Append(t, r)
      /\ Orders!RecordShadowOrder(t, Request(m, q, side)) = Append(t, u)
  BY DEF Orders!CreatePendingOrder, Orders!RecordShadowOrder, Orders!Record, request
<1> HIDE DEF r
<1>4. /\ u \in OrderRecord /\ u.market = m /\ u.side = side
      /\ u.state = "open" /\ u.filled = 0
  BY <1>2 DEF OrderRecord, Orders!OrderStates
<1> HIDE DEF u
<1> QED
  BY <1>2, <1>3, <1>4, RecordAdded

\* The order a paper fill creates is filled at once.
LEMMA OrderFilled ==
  ASSUME NEW t \in Seq(OrderRecord),
         NEW m \in Markets, NEW q \in Quotes, NEW side \in {"buy", "sell"},
         NEW pending, pending = Orders!CreatePendingOrder(t, Request(m, q, side))
  PROVE  Added(t, Orders!ApplyOrderFill(pending, Len(pending), Lot),
               m, side, "filled", Lot)
<1> DEFINE n == Len(t) + 1
<1>1. /\ pending \in Seq(OrderRecord) /\ Len(pending) = n /\ Len(t) \in Nat
      /\ \A i \in 1 .. Len(t) : pending[i] = t[i]
      /\ pending[n].market = m /\ pending[n].side = side /\ pending[n].filled = 0
  BY OrderCreated, LenProperties DEF Added
<1>2. pending[n] \in OrderRecord /\ Lot \in Nat /\ n \in 1 .. Len(pending)
  BY <1>1, ElementOfSeq, EngineAssumption DEF EngineAssumption
<1>3. pending[n].size = Lot /\ 0 + Lot = Lot /\ Lot >= Lot /\ Lot \in Int
  BY <1>2 DEF OrderRecord
<1> DEFINE r == [pending[n] EXCEPT !.filled = Lot, !.state = "filled"]
<1>4. Orders!ApplyOrderFill(pending, n, Lot) = [pending EXCEPT ![n] = r]
  <2>1. DOMAIN pending = 1 .. Len(pending)
    BY <1>1, LenProperties
  <2> HIDE DEF n
  <2> QED
    BY <1>1, <1>2, <1>3, <2>1 DEF Orders!ApplyOrderFill
<1> HIDE DEF n
<1>5. /\ r \in OrderRecord /\ r.market = m /\ r.side = side
      /\ r.state = "filled" /\ r.filled = Lot
  <2> DEFINE p == pending[n]
  <2>1. p \in OrderRecord /\ p.market = m /\ p.side = side /\ Lot \in Int
    BY <1>1, <1>2, <1>3
  <2> HIDE DEF n, p
  <2>2. r = [p EXCEPT !.filled = Lot, !.state = "filled"]
    BY DEF p
  <2>3. /\ r.market = m /\ r.side = side /\ r.state = "filled" /\ r.filled = Lot
    BY <2>1, <2>2 DEF OrderRecord
  <2>4. r \in OrderRecord
    BY <2>1, <2>2 DEF OrderRecord, Orders!OrderStates
  <2> QED
    BY <2>3, <2>4
<1> HIDE DEF r
<1>6. /\ [pending EXCEPT ![n] = r] \in Seq(OrderRecord)
      /\ Len([pending EXCEPT ![n] = r]) = Len(pending)
      /\ \A j \in 1 .. Len(pending) :
           [pending EXCEPT ![n] = r][j] = IF j = n THEN r ELSE pending[j]
  BY <1>1, <1>2, <1>5, ExceptSeq
<1>7. n = Len(t) + 1
  BY DEF n
<1> DEFINE t2 == [pending EXCEPT ![n] = r]
<1> HIDE DEF t2
<1>8. Added(t, t2, m, side, "filled", Lot)
  BY <1>1, <1>2, <1>5, <1>6, <1>7 DEF Added, t2
<1> QED
  BY <1>1, <1>4, <1>8 DEF t2

\* mark_open and mark_rejected change a state and nothing else.
LEMMA OrderMarked ==
  ASSUME NEW t \in Seq(OrderRecord), NEW id \in DOMAIN t
  PROVE  /\ Restated(t, Orders!MarkOpen(t, id), id, "open")
         /\ Restated(t, Orders!MarkRejected(t, id), id, "rejected")
<1>1. id \in 1 .. Len(t) /\ \A i \in 1 .. Len(t) : t[i] \in OrderRecord
  BY LenProperties, ElementOfSeq
<1>2. ASSUME NEW state \in Orders!OrderStates
      PROVE  Restated(t, [t EXCEPT ![id].state = state], id, state)
  <2> DEFINE r == [t[id] EXCEPT !.state = state]
  <2>1. [t EXCEPT ![id].state = state] = [t EXCEPT ![id] = r]
    OBVIOUS
  <2>2. /\ r \in OrderRecord /\ r.market = t[id].market /\ r.side = t[id].side
        /\ r.filled = t[id].filled /\ r.state = state
    BY <1>1 DEF OrderRecord
  <2> HIDE DEF r
  <2>3. /\ [t EXCEPT ![id] = r] \in Seq(OrderRecord)
        /\ Len([t EXCEPT ![id] = r]) = Len(t)
        /\ \A j \in 1 .. Len(t) :
             [t EXCEPT ![id] = r][j] = IF j = id THEN r ELSE t[j]
    BY <1>1, <2>2, ExceptSeq
  <2> QED
    BY <1>1, <2>1, <2>2, <2>3 DEF Restated
<1> QED
  BY <1>2 DEF Orders!MarkOpen, Orders!MarkRejected, Orders!OrderStates

\* A table has finitely many orders, so they can be counted.
LEMMA OpenFinite ==
  ASSUME NEW t \in Seq(OrderRecord)
  PROVE  /\ DOMAIN t = 1 .. Len(t) /\ Len(t) \in Nat
         /\ IsFiniteSet(DOMAIN t) /\ IsFiniteSet(Orders!OpenOrders(t))
         /\ Orders!OpenOrderCount(t) = Cardinality(Orders!OpenOrders(t))
         /\ Orders!OpenOrderCount(t) \in Nat
<1>1. DOMAIN t = 1 .. Len(t) /\ Len(t) \in Nat
  BY LenProperties
<1>2. IsFiniteSet(1 .. Len(t))
  BY <1>1, FS_Interval
<1>3. Orders!OpenOrders(t) \subseteq 1 .. Len(t)
  BY <1>1 DEF Orders!OpenOrders
<1>4. IsFiniteSet(Orders!OpenOrders(t))
  BY <1>2, <1>3, FS_Subset
<1>5. Cardinality(Orders!OpenOrders(t)) \in Nat
  BY <1>4, FS_CardinalityType
<1>6. Orders!OpenOrderCount(t) = Cardinality(Orders!OpenOrders(t))
  BY SameCardinality DEF Orders!OpenOrderCount
<1> QED
  BY <1>1, <1>2, <1>4, <1>5, <1>6

\* The open orders of a table with one more record.
LEMMA OpenAdded ==
  ASSUME NEW t1 \in Seq(OrderRecord), NEW t2, NEW m, NEW side, NEW state,
         NEW filled, Added(t1, t2, m, side, state, filled)
  PROVE  /\ Orders!OpenOrders(t2) =
              IF state \in {"pending", "open"}
                THEN Orders!OpenOrders(t1) \cup {Len(t1) + 1}
                ELSE Orders!OpenOrders(t1)
         /\ Orders!OpenOrderCount(t2) =
              IF state \in {"pending", "open"}
                THEN Orders!OpenOrderCount(t1) + 1
                ELSE Orders!OpenOrderCount(t1)
<1>1. t2 \in Seq(OrderRecord)
  BY DEF Added
<1>2. /\ DOMAIN t1 = 1 .. Len(t1) /\ Len(t1) \in Nat
      /\ DOMAIN t2 = 1 .. Len(t2) /\ Len(t2) = Len(t1) + 1
  BY <1>1, OpenFinite DEF Added
<1>3. Orders!OpenOrders(t2) =
        IF state \in {"pending", "open"}
          THEN Orders!OpenOrders(t1) \cup {Len(t1) + 1}
          ELSE Orders!OpenOrders(t1)
  BY <1>2 DEF Added, Orders!OpenOrders
<1>4. Len(t1) + 1 \notin Orders!OpenOrders(t1)
  BY <1>2 DEF Orders!OpenOrders
<1>5. Cardinality(Orders!OpenOrders(t1) \cup {Len(t1) + 1})
        = Cardinality(Orders!OpenOrders(t1)) + 1
  BY <1>4, OpenFinite, FS_AddElement
<1>6. /\ Orders!OpenOrderCount(t1) = Cardinality(Orders!OpenOrders(t1))
      /\ Orders!OpenOrderCount(t2) = Cardinality(Orders!OpenOrders(t2))
  BY <1>1, OpenFinite
<1> QED
  BY <1>3, <1>5, <1>6

\* The open orders of a table in which an open order has got a new state.
LEMMA OpenRestated ==
  ASSUME NEW t1 \in Seq(OrderRecord), NEW t2, NEW id \in Orders!OpenOrders(t1),
         NEW state, Restated(t1, t2, id, state)
  PROVE  /\ Orders!OpenOrders(t2) =
              IF state \in {"pending", "open"} THEN Orders!OpenOrders(t1)
                                               ELSE Orders!OpenOrders(t1) \ {id}
         /\ Orders!OpenOrderCount(t2) <= Orders!OpenOrderCount(t1)
<1>1. t2 \in Seq(OrderRecord)
  BY DEF Restated
<1>2. /\ DOMAIN t1 = 1 .. Len(t1) /\ DOMAIN t2 = 1 .. Len(t1)
  BY <1>1, OpenFinite DEF Restated
<1>3. Orders!OpenOrders(t2) =
        IF state \in {"pending", "open"} THEN Orders!OpenOrders(t1)
                                         ELSE Orders!OpenOrders(t1) \ {id}
  BY <1>2 DEF Restated, Orders!OpenOrders
<1>4. Orders!OpenOrders(t2) \subseteq Orders!OpenOrders(t1)
  BY <1>3
<1>5. Cardinality(Orders!OpenOrders(t2)) <= Cardinality(Orders!OpenOrders(t1))
  BY <1>4, OpenFinite, FS_Subset
<1> QED
  BY <1>1, <1>3, <1>5, OpenFinite

\* What an admitted order was checked against.
LEMMA AdmitChecked ==
  ASSUME NEW m, NEW q, NEW side, Admit(m, q, side)
  PROVE  LET request == Request(m, q, side)
         IN  /\ Orders!OpenOrderCount(orders) < MaxOpenOrders
             /\ ReadingOf(request).exposure + request.size * request.price
                  <= MaxMarketExposure
BY DEF Admit, Passes, Risk!Allowed, ReadingOf

\* The in-flight order is pending.
LEMMA InFlight ==
  ASSUME ConsumerInv, task.pc \in {"to_thread", "sleep"}
  PROVE  /\ task # Idle /\ mode = "guarded_live" /\ clob_client
         /\ task.order \in DOMAIN orders
         /\ orders[task.order].state = "pending"
         /\ task.order \in Orders!OpenOrders(orders)
         /\ task.attempt \in 1 .. RetryAttempts
         /\ task.pc = "sleep" => task.attempt < RetryAttempts
<1>1. task # Idle
  BY DEF Idle, At
<1>2. /\ mode = "guarded_live" /\ clob_client /\ task.order \in DOMAIN orders
      /\ task.attempt \in 1 .. RetryAttempts
      /\ task.pc = "sleep" => task.attempt < RetryAttempts
  BY <1>1 DEF ConsumerInv
<1>3. orders[task.order].state = "pending"
  BY <1>1, <1>2 DEF ConsumerInv, PendingIsInFlight
<1> QED
  BY <1>1, <1>2, <1>3 DEF Orders!OpenOrders

\* What an attempt at an order of the table t leaves behind: the call or the
\* pause before the next one, or the exception, with the order rejected if the
\* exception is one the loop has caught.
Tried(t, order, attempt) ==
  /\ \/ orders' = t
     \/ Restated(t, orders', order, "rejected") /\ task'.pc = "raised"
  /\ task' \in Task /\ task'.pc # "queue.get"
  /\ task'.order = order /\ task'.attempt = attempt
  /\ task'.pc = "sleep" => attempt < RetryAttempts
  /\ \/ sent' = sent
     \/ sent' = sent \cup {<<order, attempt>>} /\ task'.pc = "to_thread"

\* A task of the consumer.
LEMMA TaskAt ==
  ASSUME NEW pc \in {"queue.get", "to_thread", "sleep", "raised"},
         NEW order \in Nat, NEW attempt \in Nat, NEW since \in Nat,
         task' = At(pc, order, attempt, since)
  PROVE  /\ task' \in Task
         /\ task'.pc = pc /\ task'.order = order /\ task'.attempt = attempt
BY DEF At, Task

\* An attempt, or its failure, tries the order.
LEMMA AttemptTries ==
  ASSUME NEW r, NEW t \in Seq(OrderRecord), NEW order \in DOMAIN t,
         NEW attempt \in 1 .. RetryAttempts, now \in Nat,
         \/ Attempt(r, t, order, attempt)
         \/ Caught(r, t, order, attempt) /\ sent' = sent
  PROVE  Tried(t, order, attempt)
<1>0. /\ order \in Nat /\ attempt \in Nat /\ WakeTime(attempt) \in Nat
      /\ RetryAttempts \in Nat
  <2>1. RetryAttempts \in Nat /\ RetryBackoff \in Nat /\ MaxTime \in Nat
    BY EngineAssumption DEF EngineAssumption
  <2>2. order \in Nat /\ attempt \in Nat
    BY <2>1, OpenFinite
  <2>3. now + RetryBackoff * attempt \in Nat
    BY <2>1, <2>2
  <2> QED
    BY <2>1, <2>2, <2>3 DEF WakeTime
<1>1. CASE /\ orders' = t /\ task' = At("to_thread", order, attempt, now)
           /\ sent' = sent \cup {<<order, attempt>>}
  <2>1. /\ task' \in Task /\ task'.pc = "to_thread"
        /\ task'.order = order /\ task'.attempt = attempt
    BY <1>0, <1>1, TaskAt
  <2> QED
    BY <1>1, <2>1 DEF Tried
<1>2. CASE Caught(r, t, order, attempt) /\ sent' = sent
  <2>1. CASE /\ attempt < RetryAttempts /\ orders' = t
             /\ task' = At("sleep", order, attempt, WakeTime(attempt))
    <3>1. /\ task' \in Task /\ task'.pc = "sleep"
          /\ task'.order = order /\ task'.attempt = attempt
      BY <1>0, <2>1, TaskAt
    <3> QED
      BY <1>2, <2>1, <3>1 DEF Tried
  <2>2. CASE /\ orders' = Orders!MarkRejected(t, order)
             /\ task' = At("raised", order, attempt, now)
    <3>1. Restated(t, orders', order, "rejected")
      BY <2>2, OrderMarked
    <3>2. /\ task' \in Task /\ task'.pc = "raised"
          /\ task'.order = order /\ task'.attempt = attempt
      BY <1>0, <2>2, TaskAt
    <3> QED
      BY <1>2, <3>1, <3>2 DEF Tried
  <2> QED
    BY <1>2, <2>1, <2>2 DEF Caught
<1>3. CASE /\ orders' = t /\ task' = At("raised", order, attempt, now)
           /\ sent' = sent
  <2>1. /\ task' \in Task /\ task'.pc = "raised"
        /\ task'.order = order /\ task'.attempt = attempt
    BY <1>0, <1>3, TaskAt
  <2> QED
    BY <1>3, <2>1 DEF Tried
<1> QED
  BY <1>1, <1>2, <1>3 DEF Attempt

\* What trying an order of a table does to the table.
LEMMA TriedTable ==
  ASSUME NEW t \in Seq(OrderRecord), NEW order \in DOMAIN t, NEW attempt,
         t[order].state = "pending", Tried(t, order, attempt)
  PROVE  /\ orders' \in Seq(OrderRecord) /\ Len(orders') = Len(t)
         /\ DOMAIN orders' = DOMAIN t
         /\ Orders!OpenOrderCount(orders') <= Orders!OpenOrderCount(t)
         /\ Orders!OpenOrders(orders') \subseteq Orders!OpenOrders(t)
         /\ Orders!OpenOrders(t) \subseteq Orders!OpenOrders(orders') \cup Raised'
         /\ task'.pc # "raised" => orders' = t
         /\ \A i \in DOMAIN t : orders'[i].state = "pending" => t[i].state = "pending"
<1>1. order \in Orders!OpenOrders(t)
  BY DEF Orders!OpenOrders
<1>2. CASE orders' = t
  BY <1>2, OpenFinite
<1>3. CASE Restated(t, orders', order, "rejected") /\ task'.pc = "raised"
  <2>1. /\ Orders!OpenOrders(orders') = Orders!OpenOrders(t) \ {order}
        /\ Orders!OpenOrderCount(orders') <= Orders!OpenOrderCount(t)
    BY <1>1, <1>3, OpenRestated
  <2>2. orders' \in Seq(OrderRecord) /\ Len(orders') = Len(t)
    BY <1>3 DEF Restated
  <2>3. DOMAIN orders' = DOMAIN t /\ DOMAIN t = 1 .. Len(t)
    BY <2>2, OpenFinite
  <2>4. Raised' = {order}
    BY <1>3 DEF Raised, Tried
  <2>5. \A i \in DOMAIN t : orders'[i].state = "pending" => t[i].state = "pending"
    BY <1>3, <2>3 DEF Restated
  <2> QED
    BY <1>3, <2>1, <2>2, <2>3, <2>4, <2>5
<1> QED
  BY <1>2, <1>3 DEF Tried

\* How an admitting action changes the table and what goes with it.

\* Without a client nothing is created and the consumer raises.
Stops ==
  /\ mode = "guarded_live" /\ ~clob_client /\ task = Idle
  /\ task' \in Task /\ task'.pc = "raised"
  /\ UNCHANGED <<orders, positions, sent, accepted>>

\* The order is created and attempted.
Sends(m, side) ==
  /\ mode = "guarded_live" /\ clob_client /\ task = Idle /\ RetryAttempts > 0
  /\ \E t : Added(orders, t, m, side, "pending", 0) /\ Tried(t, Len(orders) + 1, 1)
  /\ UNCHANGED <<positions, accepted>>

\* The order is recorded and not filled.
Rests(m, side) ==
  /\ mode = "guarded_live" => clob_client /\ task = Idle /\ RetryAttempts = 0
  /\ \E state \in {"pending", "open"} : Added(orders, orders', m, side, state, 0)
  /\ UNCHANGED <<positions, task, sent, accepted>>

\* The order is filled by the paper broker.
Fills(m, q, side) ==
  /\ mode \in {"paper", "backtest"}
  /\ Added(orders, orders', m, side, "filled", Lot)
  /\ positions' = [positions EXCEPT
                     ![m] = ApplyFill(@, side, Lot, FillPrice(q, side))]
  /\ UNCHANGED <<task, sent, accepted>>

\* These are all the ways in which an admitted order changes the table.
LEMMA AdmitsTable ==
  ASSUME ClockInv, TableInv, NEW m \in Markets, NEW q \in Quotes,
         NEW side \in {"buy", "sell"}, Admits(m, q, side)
  PROVE  Stops \/ Sends(m, side) \/ Rests(m, side) \/ Fills(m, q, side)
<1>0. orders \in Seq(OrderRecord) /\ now \in Nat /\ RetryAttempts \in Nat
  BY EngineAssumption DEF TableInv, ClockInv, EngineAssumption
<1>1. CASE PaperFill(m, q, side)
  <2> DEFINE pending == Orders!CreatePendingOrder(orders, Request(m, q, side))
  <2>1. orders' = Orders!ApplyOrderFill(pending, Len(pending), Lot)
    BY <1>1 DEF PaperFill
  <2>2. Added(orders, Orders!ApplyOrderFill(pending, Len(pending), Lot),
              m, side, "filled", Lot)
    BY <1>0, OrderFilled
  <2> HIDE DEF pending
  <2> QED
    BY <1>1, <2>1, <2>2 DEF PaperFill, Admit, Replaying, Fills
<1>2. CASE PaperMiss(m, q, side)
  BY <1>0, <1>2, OrderCreated DEF PaperMiss, Admit, Replaying, Rests
<1>3. CASE Shadow(m, q, side)
  BY <1>0, <1>3, OrderCreated DEF Shadow, Admit, Rests
<1>4. CASE LiveWithoutClient(m, q, side)
  <2>1. task' \in Task /\ task'.pc = "raised"
    BY <1>0, <1>4, TaskAt DEF LiveWithoutClient
  <2> QED
    BY <1>4, <2>1 DEF LiveWithoutClient, Admit, Listening, Stops
<1>5. CASE LiveCall(m, q, side)
  <2> DEFINE pending == Orders!CreatePendingOrder(orders, Request(m, q, side))
             n == Len(orders) + 1
  <2>1. Added(orders, pending, m, side, "pending", 0)
    BY <1>0, OrderCreated
  <2>2. /\ Attempt(Submitted(m, q, side), pending, n, 1)
        /\ mode = "guarded_live" /\ clob_client /\ task = Idle /\ RetryAttempts > 0
        /\ UNCHANGED <<positions, accepted>>
    BY <1>5 DEF LiveCall, Admit, Listening
  <2> HIDE DEF pending
  <2>3. /\ pending \in Seq(OrderRecord) /\ n \in DOMAIN pending
        /\ 1 \in 1 .. RetryAttempts
    <3>1. pending \in Seq(OrderRecord) /\ Len(pending) = n
      BY <2>1 DEF Added
    <3>2. DOMAIN pending = 1 .. n /\ Len(orders) \in Nat
      BY <1>0, <3>1, OpenFinite
    <3> QED
      BY <1>0, <2>2, <3>1, <3>2
  <2> HIDE DEF n
  <2>4. Tried(pending, n, 1)
    BY <1>0, <2>2, <2>3, AttemptTries
  <2> QED
    BY <2>1, <2>2, <2>4 DEF Sends, n
<1>6. CASE LiveUnsent(m, q, side)
  BY <1>0, <1>6, OrderCreated DEF LiveUnsent, Admit, Listening, Rests
<1> QED
  BY <1>1, <1>2, <1>3, <1>4, <1>5, <1>6 DEF Admits

\* The steps that leave the table, the consumer and the exchange alone.
Aside ==
  \/ NoSignal
  \/ \E m \in Markets, q \in Quotes : Expired(m, q)
  \/ \E m \in Markets, q \in Quotes, side \in {"buy", "sell"} : Blocked(m, q, side)
  \/ TasksCancelled
  \/ Tick
  \/ UNCHANGED vars

\* Such a step touches nothing of the kind.
LEMMA AsideUnchanged ==
  ASSUME Aside
  PROVE  UNCHANGED <<orders, positions, task, sent, accepted, admitted>>
BY DEF Aside, NoSignal, Expired, Blocked, TasksCancelled, Tick, vars

\* The steps that try the order in flight.
Tries == CallFails \/ CallBreaks \/ Retry

\* A step admits an order, stands aside, or is one of a live order.
LEMMA StepCases ==
  ASSUME [Next]_vars
  PROVE  \/ \E m \in Markets, q \in Quotes, side \in {"buy", "sell"} :
              Admits(m, q, side)
         \/ Aside
         \/ \E request \in sent : ExchangeAccepts(request)
         \/ CallReturns
         \/ Tries
BY DEF Next, Admits, Aside, Tries

\* The mode and the client are never changed, and what has stopped is not started.
LEMMA ModeKept ==
  ASSUME [Next]_vars
  PROVE  UNCHANGED <<mode, clob_client>> /\ running' \in {running, FALSE}
<1>1. ASSUME NEW m \in Markets, NEW q \in Quotes, NEW side \in {"buy", "sell"},
             Admits(m, q, side)
      PROVE  UNCHANGED <<mode, clob_client, running>>
  <2>1. Admit(m, q, side)
    BY <1>1 DEF Admits, PaperFill, PaperMiss, Shadow, LiveWithoutClient, LiveCall,
                LiveUnsent
  <2> QED
    BY <2>1 DEF Admit
<1>2. CASE Aside
  BY <1>2 DEF Aside, NoSignal, Expired, Blocked, TasksCancelled, Tick, vars
<1>3. CASE \/ \E request \in sent : ExchangeAccepts(request)
           \/ CallReturns
           \/ Tries
  BY <1>3 DEF ExchangeAccepts, CallReturns, Tries, CallFails, CallBreaks, Retry
<1> QED
  BY <1>1, <1>2, <1>3, StepCases

\* The call has returned: its order is open, and nothing is in flight.
LEMMA Returned ==
  ASSUME TableInv, ConsumerInv, CallReturns
  PROVE  /\ task.order \in DOMAIN orders
         /\ orders[task.order].state = "pending"
         /\ task.order \in Orders!OpenOrders(orders)
         /\ mode = "guarded_live" /\ clob_client
         /\ Restated(orders, orders', task.order, "open")
         /\ Orders!OpenOrders(orders') = Orders!OpenOrders(orders)
         /\ task' = Idle
         /\ UNCHANGED <<positions, sent, accepted, admitted>>
<1>1. task.pc = "to_thread" /\ orders \in Seq(OrderRecord)
  BY DEF CallReturns, InCall, TableInv
<1>2. /\ task.order \in DOMAIN orders /\ task.order \in Orders!OpenOrders(orders)
      /\ orders[task.order].state = "pending"
      /\ mode = "guarded_live" /\ clob_client
  BY <1>1, InFlight
<1>3. Restated(orders, orders', task.order, "open")
  BY <1>1, <1>2, OrderMarked DEF CallReturns
<1>4. Orders!OpenOrders(orders') = Orders!OpenOrders(orders)
  BY <1>1, <1>2, <1>3, OpenRestated
<1> QED
  BY <1>2, <1>3, <1>4 DEF CallReturns

\* The order in flight is tried again, or has been for the last time.
LEMMA TriesAgain ==
  ASSUME ClockInv, TableInv, ConsumerInv, Tries
  PROVE  /\ task.order \in DOMAIN orders
         /\ orders[task.order].state = "pending"
         /\ task.order \in Orders!OpenOrders(orders)
         /\ mode = "guarded_live" /\ clob_client
         /\ \E n \in 1 .. RetryAttempts : Tried(orders, task.order, n)
         /\ UNCHANGED <<positions, accepted, admitted>>
         /\ Raised = {}
<1>0. /\ orders \in Seq(OrderRecord) /\ now \in Nat /\ RetryAttempts \in Nat
      /\ task.pc \in {"to_thread", "sleep"}
  BY EngineAssumption
     DEF TableInv, ClockInv, EngineAssumption, Tries, CallFails, CallBreaks,
         InCall, Retry
<1>1. /\ task.order \in DOMAIN orders /\ task.order \in Orders!OpenOrders(orders)
      /\ orders[task.order].state = "pending"
      /\ mode = "guarded_live" /\ clob_client
      /\ task.attempt \in 1 .. RetryAttempts
      /\ task.pc = "sleep" => task.attempt < RetryAttempts
  BY <1>0, InFlight
<1>2. ASSUME CallFails
      PROVE  \E n \in 1 .. RetryAttempts : Tried(orders, task.order, n)
  <2>1. Caught(risk, orders, task.order, task.attempt) /\ sent' = sent
    BY <1>2 DEF CallFails
  <2>2. Tried(orders, task.order, task.attempt)
    BY <1>0, <1>1, <2>1, AttemptTries
  <2> QED
    BY <1>1, <2>2
<1>3. ASSUME CallBreaks
      PROVE  \E n \in 1 .. RetryAttempts : Tried(orders, task.order, n)
  <2>1. /\ orders' = orders /\ sent' = sent
        /\ task' = At("raised", task.order, task.attempt, now)
    BY <1>3 DEF CallBreaks
  <2>2. task.order \in Nat /\ task.attempt \in Nat
    BY <1>0, <1>1, OpenFinite
  <2>3. /\ task' \in Task /\ task'.pc = "raised"
        /\ task'.order = task.order /\ task'.attempt = task.attempt
    BY <1>0, <2>1, <2>2, TaskAt
  <2>4. Tried(orders, task.order, task.attempt)
    BY <2>1, <2>3 DEF Tried
  <2> QED
    BY <1>1, <2>4
<1>4. ASSUME Retry
      PROVE  \E n \in 1 .. RetryAttempts : Tried(orders, task.order, n)
  <2> DEFINE n == task.attempt + 1
  <2>1. Attempt(risk, orders, task.order, n) /\ n \in 1 .. RetryAttempts
    BY <1>0, <1>1, <1>4 DEF Retry
  <2> HIDE DEF n
  <2>2. Tried(orders, task.order, n)
    BY <1>0, <1>1, <2>1, AttemptTries
  <2> QED
    BY <2>1, <2>2
<1>5. \E n \in 1 .. RetryAttempts : Tried(orders, task.order, n)
  BY <1>2, <1>3, <1>4 DEF Tries
<1>6. UNCHANGED <<positions, accepted, admitted>>
  BY DEF Tries, CallFails, CallBreaks, Retry
<1> QED
  BY <1>0, <1>1, <1>5, <1>6 DEF Raised

\* Every step keeps the table a table of orders no more of which are open than
\* max_open_orders: the only action that adds an open order has checked it.
LEMMA TableStep ==
  ASSUME ClockInv, TableInv, ConsumerInv, [Next]_vars
  PROVE  TableInv'
<1>0. /\ orders \in Seq(OrderRecord) /\ Len(orders) <= Len(admitted)
      /\ Orders!OpenOrderCount(orders) <= MaxOpenOrders
      /\ Len(orders) \in Nat /\ Len(admitted) \in Nat
      /\ Orders!OpenOrderCount(orders) \in Nat /\ MaxOpenOrders \in Nat
  BY OpenFinite, LenProperties, EngineAssumption
     DEF TableInv, OpenOrdersBounded, ClockInv, LogBy, EngineAssumption
<1>1. ASSUME NEW m \in Markets, NEW q \in Quotes, NEW side \in {"buy", "sell"},
             Admits(m, q, side)
      PROVE  TableInv'
  <2>1. Admit(m, q, side)
    BY <1>1, AdmitsBooked
  <2>2. Orders!OpenOrderCount(orders) < MaxOpenOrders
    BY <2>1, AdmitChecked
  <2>3. admitted \in Seq(Nat) /\ now \in Nat /\ admitted' = Append(admitted, now)
    BY <2>1 DEF ClockInv, LogBy, Admit
  <2>4. Len(admitted') = Len(admitted) + 1
    BY <2>3, AppendProperties
  <2>5. CASE orders' = orders
    BY <1>0, <2>4, <2>5 DEF TableInv, OpenOrdersBounded
  <2>6. ASSUME NEW t, NEW state, NEW filled,
               Added(orders, t, m, side, state, filled)
        PROVE  /\ t \in Seq(OrderRecord) /\ Len(t) = Len(orders) + 1
               /\ Orders!OpenOrderCount(t) \in Nat
               /\ Orders!OpenOrderCount(t) <= MaxOpenOrders
    <3>1. Orders!OpenOrderCount(t) \in {Orders!OpenOrderCount(orders),
                                        Orders!OpenOrderCount(orders) + 1}
      BY <1>0, <2>6, OpenAdded
    <3>2. t \in Seq(OrderRecord) /\ Len(t) = Len(orders) + 1
      BY <2>6 DEF Added
    <3> QED
      BY <1>0, <2>2, <3>1, <3>2
  <2>7. CASE Rests(m, side) \/ Fills(m, q, side)
    <3>1. \E state, filled : Added(orders, orders', m, side, state, filled)
      BY <2>7 DEF Rests, Fills
    <3> QED
      BY <1>0, <2>4, <2>6, <3>1 DEF TableInv, OpenOrdersBounded
  <2>8. CASE Sends(m, side)
    <3>1. PICK t : /\ Added(orders, t, m, side, "pending", 0)
                   /\ Tried(t, Len(orders) + 1, 1)
      BY <2>8 DEF Sends
    <3>2. /\ t \in Seq(OrderRecord) /\ Len(t) = Len(orders) + 1
          /\ Orders!OpenOrderCount(t) \in Nat
          /\ Orders!OpenOrderCount(t) <= MaxOpenOrders
      BY <2>6, <3>1
    <3>3. Len(orders) + 1 \in DOMAIN t /\ t[Len(orders) + 1].state = "pending"
      BY <1>0, <3>1, <3>2, OpenFinite DEF Added
    <3>4. /\ orders' \in Seq(OrderRecord) /\ Len(orders') = Len(t)
          /\ Orders!OpenOrderCount(orders') <= Orders!OpenOrderCount(t)
      BY <3>1, <3>2, <3>3, TriedTable
    <3>5. Orders!OpenOrderCount(orders') \in Nat
      BY <3>4, OpenFinite
    <3> QED
      BY <1>0, <2>4, <3>2, <3>4, <3>5 DEF TableInv, OpenOrdersBounded
  <2> QED
    BY <1>1, <2>5, <2>7, <2>8, AdmitsTable DEF Stops
<1>2. CASE CallReturns
  <2>1. /\ Restated(orders, orders', task.order, "open") /\ admitted' = admitted
        /\ task.order \in Orders!OpenOrders(orders)
    BY <1>2, Returned
  <2>2. orders' \in Seq(OrderRecord) /\ Len(orders') = Len(orders)
    BY <2>1 DEF Restated
  <2>3. Orders!OpenOrderCount(orders') \in Nat
        /\ Orders!OpenOrderCount(orders') <= Orders!OpenOrderCount(orders)
    BY <1>0, <2>1, <2>2, OpenRestated, OpenFinite
  <2> QED
    BY <1>0, <2>1, <2>2, <2>3 DEF TableInv, OpenOrdersBounded
<1>3. CASE Tries
  <2>1. /\ task.order \in DOMAIN orders /\ orders[task.order].state = "pending"
        /\ admitted' = admitted
        /\ \E n \in 1 .. RetryAttempts : Tried(orders, task.order, n)
    BY <1>3, TriesAgain
  <2>2. /\ orders' \in Seq(OrderRecord) /\ Len(orders') = Len(orders)
        /\ Orders!OpenOrderCount(orders') <= Orders!OpenOrderCount(orders)
    BY <1>0, <2>1, TriedTable
  <2>3. Orders!OpenOrderCount(orders') \in Nat
    BY <2>2, OpenFinite
  <2> QED
    BY <1>0, <2>1, <2>2, <2>3 DEF TableInv, OpenOrdersBounded
<1>4. CASE Aside \/ \E request \in sent : ExchangeAccepts(request)
  <2>1. UNCHANGED <<orders, admitted>>
    BY <1>4, AsideUnchanged DEF ExchangeAccepts
  <2> QED
    BY <2>1 DEF TableInv, OpenOrdersBounded
<1> QED
  BY <1>1, <1>2, <1>3, <1>4, StepCases

\* Every step leaves the consumer where it may be, with its own order and no other
\* pending.
LEMMA ConsumerStep ==
  ASSUME ClockInv, TableInv, ConsumerInv, [Next]_vars
  PROVE  ConsumerInv'
<1> USE DEF ConsumerInv, PendingIsInFlight
<1>0. /\ orders \in Seq(OrderRecord) /\ DOMAIN orders = 1 .. Len(orders)
      /\ Len(orders) \in Nat /\ now \in Nat /\ RetryAttempts \in Nat
      /\ UNCHANGED <<mode, clob_client>> /\ running' \in BOOLEAN
      /\ Idle \in Task /\ Idle.pc = "queue.get"
  <2>1. /\ orders \in Seq(OrderRecord) /\ now \in Nat /\ RetryAttempts \in Nat
        /\ running \in BOOLEAN
    BY EngineAssumption DEF TableInv, ClockInv, EngineAssumption
  <2>2. UNCHANGED <<mode, clob_client>> /\ running' \in {running, FALSE}
    BY ModeKept
  <2>3. Idle \in Task /\ Idle.pc = "queue.get"
    BY DEF Idle, At, Task
  <2> QED
    BY <2>1, <2>2, <2>3, OpenFinite
<1>1. ASSUME NEW t \in Seq(OrderRecord), NEW order \in DOMAIN t,
             NEW n \in 1 .. RetryAttempts, Tried(t, order, n),
             t[order].state = "pending", mode = "guarded_live", clob_client,
             \A i \in DOMAIN t : t[i].state = "pending" => i = order
      PROVE  ConsumerInv'
  <2>1. /\ DOMAIN orders' = DOMAIN t
        /\ task'.pc # "raised" => orders' = t
        /\ \A i \in DOMAIN t : orders'[i].state = "pending" => t[i].state = "pending"
    BY <1>1, TriedTable
  <2>2. /\ task' \in Task /\ task'.pc # "queue.get" /\ task'.order = order
        /\ task'.attempt = n
        /\ task'.pc = "sleep" => n < RetryAttempts
    BY <1>1 DEF Tried
  <2>3. task' # Idle
    BY <1>0, <2>2
  <2>4. PendingIsInFlight'
    BY <1>1, <2>1, <2>2, <2>3
  <2> QED
    BY <1>0, <1>1, <2>1, <2>2, <2>3, <2>4
<1>2. ASSUME NEW m \in Markets, NEW q \in Quotes, NEW side \in {"buy", "sell"},
             Admits(m, q, side)
      PROVE  ConsumerInv'
  <2>1. CASE Stops
    <3>1. /\ mode = "guarded_live" /\ ~clob_client /\ orders = << >>
          /\ task' \in Task /\ task'.pc = "raised" /\ orders' = orders
      BY <2>1 DEF Stops
    <3>2. task' # Idle /\ DOMAIN orders' = {}
      BY <1>0, <3>1
    <3> QED
      BY <1>0, <3>1, <3>2
  <2>2. CASE Sends(m, side)
    <3> DEFINE n == Len(orders) + 1
    <3>1. /\ task = Idle /\ mode = "guarded_live" /\ clob_client /\ RetryAttempts > 0
          /\ \E t : Added(orders, t, m, side, "pending", 0) /\ Tried(t, n, 1)
      BY <2>2 DEF Sends
    <3>2. PICK t : Added(orders, t, m, side, "pending", 0) /\ Tried(t, n, 1)
      BY <3>1
    <3>3. /\ t \in Seq(OrderRecord) /\ Len(t) = n
          /\ \A i \in 1 .. Len(orders) : t[i] = orders[i]
          /\ t[n].state = "pending"
      BY <3>2 DEF Added
    <3>4. DOMAIN t = 1 .. n
      BY <3>3, OpenFinite
    <3>5. \A i \in DOMAIN orders : orders[i].state # "pending"
      BY <3>1
    <3>6. \A i \in DOMAIN t : t[i].state = "pending" => i = n
      BY <1>0, <3>3, <3>4, <3>5
    <3>7. n \in DOMAIN t /\ 1 \in 1 .. RetryAttempts
      BY <1>0, <3>1, <3>4
    <3> HIDE DEF n
    <3> QED
      BY <1>1, <3>1, <3>2, <3>3, <3>6, <3>7
  <2>3. CASE Rests(m, side) \/ Fills(m, q, side)
    <3>1. /\ mode = "guarded_live" => clob_client /\ task = Idle /\ RetryAttempts = 0
          /\ task' = task
      BY <2>3 DEF Rests, Fills
    <3>2. task = Idle /\ task' = Idle
      BY <3>1
    <3>3. PendingIsInFlight'
      BY <1>0, <3>1, <3>2
    <3>4. mode' = "guarded_live" => clob_client'
      BY <1>0, <3>1
    <3> QED
      BY <1>0, <3>2, <3>3, <3>4
  <2> QED
    BY <1>2, <2>1, <2>2, <2>3, AdmitsTable
<1>3. CASE CallReturns
  <2>1. /\ task.order \in DOMAIN orders /\ mode = "guarded_live" /\ clob_client
        /\ Restated(orders, orders', task.order, "open") /\ task' = Idle
    BY <1>3, Returned
  <2>2. DOMAIN orders' = DOMAIN orders
    BY <1>0, <2>1, OpenFinite DEF Restated
  <2>3. RetryAttempts > 0 =>
          \A i \in DOMAIN orders : orders[i].state = "pending" => task.order = i
    BY <2>1
  <2>4. RetryAttempts > 0 => \A i \in DOMAIN orders' : orders'[i].state # "pending"
    BY <1>0, <2>1, <2>2, <2>3 DEF Restated
  <2> QED
    BY <1>0, <2>1, <2>4
<1>4. CASE Tries
  <2>1. /\ task.order \in DOMAIN orders /\ orders[task.order].state = "pending"
        /\ mode = "guarded_live" /\ clob_client
    BY <1>4, TriesAgain
  <2>2. PICK n \in 1 .. RetryAttempts : Tried(orders, task.order, n)
    BY <1>4, TriesAgain
  <2>3. \A i \in DOMAIN orders : orders[i].state = "pending" => i = task.order
    <3>1. RetryAttempts > 0
      BY <1>0, <2>2
    <3> QED
      BY <2>1, <3>1
  <2> QED
    BY <1>0, <1>1, <2>1, <2>2, <2>3
<1>5. CASE Aside \/ \E request \in sent : ExchangeAccepts(request)
  <2>1. UNCHANGED <<orders, task>>
    BY <1>5, AsideUnchanged DEF ExchangeAccepts
  <2> QED
    BY <1>0, <2>1
<1> QED
  BY <1>2, <1>3, <1>4, <1>5, StepCases

\* Every request belongs to an open order or to that of the exception: it is sent
\* after its order is created, and an order is only rejected by the exception that
\* ends the consumer.
LEMMA RequestsStep ==
  ASSUME ClockInv, TableInv, ConsumerInv, RequestsInv, [Next]_vars
  PROVE  RequestsInv'
<1> USE DEF RequestsInv
<1> DEFINE Due(ids) == ids \X (1 .. RetryAttempts)
<1>0. /\ orders \in Seq(OrderRecord) /\ RetryAttempts \in Nat
      /\ MaxOpenOrders \in Nat
  BY EngineAssumption DEF TableInv, EngineAssumption
<1>1. ASSUME sent' \subseteq Due(Orders!OpenOrders(orders')) PROVE RequestsBounded'
  <2>1. TableInv'
    BY TableStep
  <2>2. /\ IsFiniteSet(Orders!OpenOrders(orders'))
        /\ Cardinality(Orders!OpenOrders(orders')) \in Nat
        /\ Cardinality(Orders!OpenOrders(orders')) <= MaxOpenOrders
    BY <2>1, OpenFinite DEF TableInv, OpenOrdersBounded
  <2>3. IsFiniteSet(1 .. RetryAttempts)
        /\ Cardinality(1 .. RetryAttempts) = RetryAttempts
    BY <1>0, FS_Interval
  <2>4. /\ IsFiniteSet(Due(Orders!OpenOrders(orders')))
        /\ Cardinality(Due(Orders!OpenOrders(orders')))
             = Cardinality(Orders!OpenOrders(orders')) * RetryAttempts
    BY <2>2, <2>3, FS_Product
  <2>5. /\ Cardinality(sent') <= Cardinality(Due(Orders!OpenOrders(orders')))
        /\ IsFiniteSet(sent')
    BY <1>1, <2>4, FS_Subset
  <2>6. Cardinality(sent') \in Nat
    BY <2>5, FS_CardinalityType
  <2> DEFINE k == Cardinality(Orders!OpenOrders(orders'))
  <2>7. k * RetryAttempts <= MaxOpenOrders * RetryAttempts
        /\ k * RetryAttempts \in Nat /\ MaxOpenOrders * RetryAttempts \in Nat
    <3>1. k \in Nat /\ k <= MaxOpenOrders
      BY <2>2
    <3> HIDE DEF k
    <3> QED
      BY <1>0, <3>1
  <2> QED
    BY <2>4, <2>5, <2>6, <2>7 DEF RequestsBounded
\* An order is tried: what was sent before is of the open orders of the table t.
<1>2. ASSUME NEW t \in Seq(OrderRecord), NEW order \in DOMAIN t,
             NEW n \in 1 .. RetryAttempts, Tried(t, order, n),
             t[order].state = "pending",
             sent \subseteq Due(Orders!OpenOrders(t)), accepted' = accepted
      PROVE  RequestsInv'
  <2>1. /\ Orders!OpenOrders(t) \subseteq Orders!OpenOrders(orders') \cup Raised'
        /\ task'.pc # "raised" => orders' = t
    BY <1>2, TriedTable
  <2>2. CASE sent' = sent
    BY <1>2, <2>1, <2>2 DEF RequestsBounded
  <2>3. CASE sent' = sent \cup {<<order, n>>} /\ task'.pc = "to_thread"
    <3>1. orders' = t /\ order \in Orders!OpenOrders(orders')
      BY <1>2, <2>1, <2>3 DEF Orders!OpenOrders
    <3>2. sent' \subseteq Due(Orders!OpenOrders(orders'))
      BY <1>2, <2>3, <3>1
    <3>3. RequestsBounded'
      BY <1>1, <3>2
    <3> QED
      BY <1>2, <2>3, <3>2, <3>3
  <2> QED
    BY <1>2, <2>2, <2>3 DEF Tried
<1>3. ASSUME NEW m \in Markets, NEW q \in Quotes, NEW side \in {"buy", "sell"},
             Admits(m, q, side)
      PROVE  RequestsInv'
  <2>0. ASSUME task = Idle PROVE Raised = {}
    BY <2>0 DEF Raised, Idle, At
  <2>1. CASE Stops
    <3>1. Raised = {} /\ UNCHANGED <<orders, sent, accepted>>
      BY <2>0, <2>1 DEF Stops
    <3> QED
      BY <3>1 DEF RequestsBounded
  <2>2. ASSUME NEW t, NEW state, NEW filled,
               Added(orders, t, m, side, state, filled)
        PROVE  Orders!OpenOrders(orders) \subseteq Orders!OpenOrders(t)
    BY <1>0, <2>2, OpenAdded
  <2>3. CASE Sends(m, side)
    <3> DEFINE n == Len(orders) + 1
    <3>1. /\ task = Idle /\ RetryAttempts > 0 /\ accepted' = accepted
          /\ \E t : Added(orders, t, m, side, "pending", 0) /\ Tried(t, n, 1)
      BY <2>3 DEF Sends
    <3>2. PICK t : Added(orders, t, m, side, "pending", 0) /\ Tried(t, n, 1)
      BY <3>1
    <3>3. t \in Seq(OrderRecord) /\ Len(t) = n /\ t[n].state = "pending"
      BY <3>2 DEF Added
    <3>4. n \in DOMAIN t /\ 1 \in 1 .. RetryAttempts
      BY <1>0, <3>1, <3>3, OpenFinite
    <3>5. Orders!OpenOrders(orders) \subseteq Orders!OpenOrders(t)
      BY <2>2, <3>2
    <3>6. sent \subseteq Due(Orders!OpenOrders(t))
      BY <2>0, <3>1, <3>5
    <3> HIDE DEF n
    <3> QED
      BY <1>2, <3>1, <3>2, <3>3, <3>4, <3>6
  <2>4. CASE Rests(m, side) \/ Fills(m, q, side)
    <3>1. UNCHANGED <<task, sent, accepted>>
      BY <2>4 DEF Rests, Fills
    <3>2. Orders!OpenOrders(orders) \subseteq Orders!OpenOrders(orders')
      BY <2>2, <2>4 DEF Rests, Fills
    <3>3. Raised' = Raised
      BY <3>1 DEF Raised
    <3> QED
      BY <3>1, <3>2, <3>3 DEF RequestsBounded
  <2> QED
    BY <1>3, <2>1, <2>3, <2>4, AdmitsTable
<1>4. CASE CallReturns
  <2>1. /\ Orders!OpenOrders(orders') = Orders!OpenOrders(orders)
        /\ UNCHANGED <<sent, accepted>>
    BY <1>4, Returned
  <2>2. Raised = {}
    BY <1>4 DEF CallReturns, InCall, Raised
  <2> QED
    BY <2>1, <2>2 DEF RequestsBounded
<1>5. CASE Tries
  <2>1. /\ task.order \in DOMAIN orders /\ orders[task.order].state = "pending"
        /\ accepted' = accepted /\ Raised = {}
    BY <1>5, TriesAgain
  <2>2. PICK n \in 1 .. RetryAttempts : Tried(orders, task.order, n)
    BY <1>5, TriesAgain
  <2>3. sent \subseteq Due(Orders!OpenOrders(orders))
    BY <2>1
  <2> QED
    BY <1>0, <1>2, <2>1, <2>2, <2>3
<1>6. CASE \E request \in sent : ExchangeAccepts(request)
  BY <1>6 DEF ExchangeAccepts, RequestsBounded, Raised
<1>7. CASE Aside
  <2>1. UNCHANGED <<orders, task, sent, accepted>>
    BY <1>7, AsideUnchanged
  <2> QED
    BY <2>1 DEF RequestsBounded, Raised
<1> QED
  BY <1>3, <1>4, <1>5, <1>6, <1>7, StepCases

\* Only a client sends.
LEMMA UnsentStep ==
  ASSUME ClockInv, TableInv, ConsumerInv, Unsent, [Next]_vars
  PROVE  Unsent'
<1>0. clob_client' = clob_client
  BY ModeKept
<1>1. ASSUME NEW m \in Markets, NEW q \in Quotes, NEW side \in {"buy", "sell"},
             Admits(m, q, side)
      PROVE  sent' = sent \/ clob_client
  BY <1>1, AdmitsTable DEF Stops, Sends, Rests, Fills
<1>2. ASSUME Tries PROVE clob_client
  BY <1>2, TriesAgain
<1>3. CASE CallReturns \/ \E request \in sent : ExchangeAccepts(request)
  BY <1>0, <1>3 DEF CallReturns, ExchangeAccepts, Unsent
<1>4. CASE Aside
  BY <1>0, <1>4, AsideUnchanged DEF Unsent
<1> QED
  BY <1>0, <1>1, <1>2, <1>3, <1>4, StepCases DEF Unsent

-----------------------------------------------------------------------------
\* The positions and the table.

\* What the filled orders of the table bought in a market less what they sold.
Held(t, m) ==
  SumFunctionOnSet([i \in DOMAIN t |-> Signed(t[i].side, t[i].filled)],
                   {i \in DOMAIN t : t[i].market = m})

\* The sum of what orders bought has integers to add, finitely many.
LEMMA HeldTyped ==
  ASSUME NEW t \in Seq(OrderRecord), NEW m
  PROVE  /\ IsFiniteSet({i \in DOMAIN t : t[i].market = m})
         /\ \A i \in DOMAIN t : Signed(t[i].side, t[i].filled) \in Int
<1>1. IsFiniteSet(DOMAIN t) /\ DOMAIN t = 1 .. Len(t)
  BY OpenFinite
<1>2. {i \in DOMAIN t : t[i].market = m} \in SUBSET DOMAIN t
  OBVIOUS
<1>3. \A i \in DOMAIN t : t[i] \in OrderRecord
  BY <1>1, ElementOfSeq
<1>4. \A i \in DOMAIN t : t[i].filled \in Int
  BY <1>3 DEF OrderRecord
<1> QED
  BY <1>1, <1>2, <1>4, FS_Subset DEF Signed

\* One more record moves what is held in its market by what of it is filled.
LEMMA HeldAdded ==
  ASSUME NEW t1 \in Seq(OrderRecord), NEW t2, NEW market, NEW side, NEW state,
         NEW filled, Added(t1, t2, market, side, state, filled), NEW m
  PROVE  /\ Signed(side, filled) \in Int /\ Held(t1, m) \in Int
         /\ Held(t2, m) = Held(t1, m)
                            + (IF m = market THEN Signed(side, filled) ELSE 0)
<1> DEFINE n == Len(t1) + 1
           S1 == {i \in DOMAIN t1 : t1[i].market = m}
           S2 == {i \in DOMAIN t2 : t2[i].market = m}
           f1 == [i \in DOMAIN t1 |-> Signed(t1[i].side, t1[i].filled)]
           f2 == [i \in DOMAIN t2 |-> Signed(t2[i].side, t2[i].filled)]
<1>1. /\ t2 \in Seq(OrderRecord) /\ Len(t1) \in Nat
      /\ DOMAIN t1 = 1 .. Len(t1) /\ DOMAIN t2 = 1 .. n
      /\ \A i \in 1 .. Len(t1) : t2[i] = t1[i]
      /\ t2[n].market = market /\ t2[n].side = side /\ t2[n].filled = filled
  BY OpenFinite DEF Added
<1>2. IsFiniteSet(S1) /\ \A i \in DOMAIN t1 : f1[i] \in Int
  BY HeldTyped
<1>3. \A i \in DOMAIN t2 : f2[i] \in Int
  BY <1>1, HeldTyped
<1>4. n \in DOMAIN t2 /\ n \notin S1 /\ f2[n] = Signed(side, filled)
  BY <1>1
<1>5. \A i \in S1 : f1[i] \in Int /\ f2[i] = f1[i]
  BY <1>1, <1>2
<1>6. S2 = IF m = market THEN S1 \cup {n} ELSE S1
  BY <1>1
<1>7. Held(t1, m) = SumFunctionOnSet(f1, S1) /\ Held(t2, m) = SumFunctionOnSet(f2, S2)
  BY DEF Held
<1>8. SumFunctionOnSet(f1, S1) \in Int
  <2> HIDE DEF f1, S1
  <2>1. PICK f : IsSum(f, f1, S1) /\ f[S1] = SumFunctionOnSet(f1, S1)
    BY <1>2, <1>5, SumFold
  <2> QED
    BY <2>1 DEF IsSum
<1> HIDE DEF f1, f2, S1, S2, n
<1>9. CASE m = market
  <2>1. f2[n] \in Int
    BY <1>3, <1>4
  <2>2. SumFunctionOnSet(f2, S2) = SumFunctionOnSet(f1, S1) + f2[n]
    BY <1>2, <1>4, <1>5, <1>6, <1>9, <2>1, SumAdd
  <2> QED
    BY <1>4, <1>7, <1>8, <1>9, <2>1, <2>2
<1>10. CASE m # market
  <2>1. SumFunctionOnSet(f2, S1) = SumFunctionOnSet(f1, S1)
    BY <1>2, <1>5, SumSame
  <2>2. f2[n] \in Int
    BY <1>3, <1>4
  <2> QED
    BY <1>4, <1>6, <1>7, <1>8, <1>10, <2>1, <2>2
<1> QED
  BY <1>9, <1>10

\* A new state of a record moves nothing.
LEMMA HeldRestated ==
  ASSUME NEW t1 \in Seq(OrderRecord), NEW t2, NEW id, NEW state,
         Restated(t1, t2, id, state), NEW m
  PROVE  Held(t2, m) = Held(t1, m)
<1> DEFINE S1 == {i \in DOMAIN t1 : t1[i].market = m}
           S2 == {i \in DOMAIN t2 : t2[i].market = m}
           f1 == [i \in DOMAIN t1 |-> Signed(t1[i].side, t1[i].filled)]
           f2 == [i \in DOMAIN t2 |-> Signed(t2[i].side, t2[i].filled)]
<1>1. /\ DOMAIN t1 = 1 .. Len(t1) /\ DOMAIN t2 = DOMAIN t1
      /\ \A i \in DOMAIN t1 : /\ t2[i].market = t1[i].market
                              /\ t2[i].side = t1[i].side
                              /\ t2[i].filled = t1[i].filled
  BY OpenFinite DEF Restated
<1>2. IsFiniteSet(S1) /\ \A i \in DOMAIN t1 : f1[i] \in Int
  BY HeldTyped
<1>3. S2 = S1 /\ \A i \in S1 : f1[i] \in Int /\ f2[i] = f1[i]
  BY <1>1, <1>2
<1>4. Held(t1, m) = SumFunctionOnSet(f1, S1) /\ Held(t2, m) = SumFunctionOnSet(f2, S2)
  BY DEF Held
<1> HIDE DEF f1, f2, S1, S2
<1>5. SumFunctionOnSet(f2, S1) = SumFunctionOnSet(f1, S1)
  BY <1>2, <1>3, SumSame
<1> QED
  BY <1>3, <1>4, <1>5

\* Nor does trying an order.
LEMMA HeldTried ==
  ASSUME NEW t \in Seq(OrderRecord), NEW order, NEW attempt,
         Tried(t, order, attempt), NEW m
  PROVE  Held(orders', m) = Held(t, m)
<1>1. CASE Restated(t, orders', order, "rejected")
  BY <1>1, HeldRestated
<1> QED
  BY <1>1 DEF Tried

\* The sums of FillsMatchPositions are those of Held.
LEMMA MatchIsHeld ==
  FillsMatchPositions <=> \A m \in Markets : positions[m].quantity = Held(orders, m)
BY DEF FillsMatchPositions, Held

\* A fill changes the quantity by what it bought or sold.
LEMMA FillQuantity ==
  ASSUME NEW p \in Position, NEW side, NEW size, NEW price
  PROVE  ApplyFill(p, side, size, price).quantity = p.quantity + Signed(side, size)
BY DEF ApplyFill, Opened, Closed, Position

\* Every fill moves the position and the table alike.
LEMMA MatchStep ==
  ASSUME ClockInv, TableInv, ConsumerInv, BookInv, FillsMatchPositions, [Next]_vars
  PROVE  FillsMatchPositions'
<1>0. /\ orders \in Seq(OrderRecord)
      /\ \A m \in Markets : positions[m] \in Position /\ positions[m].quantity \in Int
      /\ \A m \in Markets : positions[m].quantity = Held(orders, m)
      /\ positions \in [Markets -> Position]
  BY MatchIsHeld DEF TableInv, BookInv, Position
<1>1. ASSUME \A m \in Markets : positions'[m].quantity = Held(orders', m)
      PROVE  FillsMatchPositions'
  BY <1>1, MatchIsHeld DEF FillsMatchPositions, Held
<1>2. ASSUME NEW m \in Markets, NEW q \in Quotes, NEW side \in {"buy", "sell"},
             Admits(m, q, side)
      PROVE  FillsMatchPositions'
  <2>1. CASE Stops
    BY <2>1 DEF Stops, FillsMatchPositions
  <2>2. CASE Sends(m, side) \/ Rests(m, side)
    <3>0. /\ positions' = positions
          /\ \E t : /\ \E state : Added(orders, t, m, side, state, 0)
                    /\ \/ t = orders'
                       \/ Tried(t, Len(orders) + 1, 1)
      BY <2>2 DEF Sends, Rests
    <3>1. PICK t : /\ \E state : Added(orders, t, m, side, state, 0)
                   /\ \/ t = orders'
                      \/ Tried(t, Len(orders) + 1, 1)
      BY <3>0
    <3>2. t \in Seq(OrderRecord)
      BY <3>1 DEF Added
    <3>3. Signed(side, 0) = 0
      BY SignedZero
    <3>4. \A x \in Markets : Held(orders', x) = Held(orders, x)
      <4> TAKE x \in Markets
      <4>1. Held(orders, x) \in Int
            /\ Held(t, x) = Held(orders, x)
                              + (IF x = m THEN Signed(side, 0) ELSE 0)
        BY <1>0, <3>1, HeldAdded
      <4>2. Held(orders', x) = Held(t, x)
        BY <3>1, <3>2, HeldTried
      <4> QED
        BY <3>3, <4>1, <4>2
    <3> QED
      BY <1>0, <1>1, <3>0, <3>4
  <2>3. CASE Fills(m, q, side)
    <3>0. /\ Added(orders, orders', m, side, "filled", Lot)
          /\ positions' = [positions EXCEPT
                             ![m] = ApplyFill(@, side, Lot, FillPrice(q, side))]
      BY <2>3 DEF Fills
    <3>1. \A x \in Markets :
            positions'[x].quantity
              = positions[x].quantity + (IF x = m THEN Signed(side, Lot) ELSE 0)
      BY <1>0, <3>0, FillQuantity
    <3>2. \A x \in Markets :
            Held(orders', x)
              = Held(orders, x) + (IF x = m THEN Signed(side, Lot) ELSE 0)
      BY <1>0, <3>0, HeldAdded
    <3> QED
      BY <1>0, <1>1, <3>1, <3>2
  <2> QED
    BY <1>2, <2>1, <2>2, <2>3, AdmitsTable
<1>3. CASE CallReturns
  <2>1. Restated(orders, orders', task.order, "open") /\ positions' = positions
    BY <1>3, Returned
  <2>2. \A m \in Markets : Held(orders', m) = Held(orders, m)
    BY <1>0, <2>1, HeldRestated
  <2> QED
    BY <1>0, <1>1, <2>1, <2>2
<1>4. CASE Tries
  <2>1. positions' = positions
    BY <1>4, TriesAgain
  <2>2. PICK n \in 1 .. RetryAttempts : Tried(orders, task.order, n)
    BY <1>4, TriesAgain
  <2>3. \A m \in Markets : Held(orders', m) = Held(orders, m)
    BY <1>0, <2>2, HeldTried
  <2> QED
    BY <1>0, <1>1, <2>1, <2>3
<1>5. CASE Aside \/ \E request \in sent : ExchangeAccepts(request)
  <2>1. UNCHANGED <<orders, positions>>
    BY <1>5, AsideUnchanged DEF ExchangeAccepts
  <2> QED
    BY <2>1 DEF FillsMatchPositions
<1> QED
  BY <1>2, <1>3, <1>4, <1>5, StepCases

-----------------------------------------------------------------------------
\* The books.

\* The prices of a quote.
LEMMA QuotePrices ==
  ASSUME NEW q \in Quotes
  PROVE  /\ q.bid \in Nat /\ q.ask \in Nat
         /\ Mid(q) \in Nat
         /\ FillPrice(q, "buy") \in Nat
         /\ \A side : FillPrice(q, side) \in Int
<1>1. q \in [bid: Nat, ask: Nat] /\ SlippageBps \in Nat
  BY EngineAssumption DEF EngineAssumption
<1>2. Mid(q) \in Nat
  BY <1>1 DEF Mid
<1>3. SlippageBps * Mid(q) \in Nat
  BY <1>1, <1>2
<1>4. (SlippageBps * Mid(q)) \div 10000 \in Nat
  BY <1>3
<1>5. Mid(q) + (SlippageBps * Mid(q)) \div 10000 \in Nat
      /\ Mid(q) - (SlippageBps * Mid(q)) \div 10000 \in Int
  BY <1>2, <1>4
<1> QED
  BY <1>1, <1>2, <1>5 DEF FillPrice

\* A book of positions and the quotes it is valued at.
ValuedWith(book, quotes) ==
  /\ book \in [Markets -> Position]
  /\ DOMAIN quotes \subseteq Markets
  /\ \A m \in DOMAIN quotes : quotes[m] \in Quotes

\* The value of the book is a fraction, and nothing when the book is flat.
LEMMA MarkedTyped ==
  ASSUME NEW book, NEW quotes, ValuedWith(book, quotes)
  PROVE  /\ Marked(book, quotes) \in Fraction
         /\ (\A m \in Markets : book[m] = NoPosition) =>
              Marked(book, quotes) = Whole(0)
<1> DEFINE mids == MidPrices(quotes)
<1>1. DOMAIN mids = DOMAIN quotes /\ \A m \in DOMAIN quotes : mids[m] = Mid(quotes[m])
  BY DEF MidPrices
<1>2. IsFiniteSet(DOMAIN mids)
  BY <1>1, EngineAssumption, FS_Subset DEF EngineAssumption, ValuedWith
<1>3. \A m \in DOMAIN mids : m \in Markets /\ book[m] \in Position /\ mids[m] \in Int
  <2> TAKE m \in DOMAIN mids
  <2>1. m \in DOMAIN quotes /\ m \in Markets /\ book[m] \in Position /\ quotes[m] \in Quotes
    BY <1>1 DEF ValuedWith
  <2>2. Mid(quotes[m]) \in Nat
    BY <2>1, QuotePrices
  <2> QED
    BY <1>1, <2>1, <2>2
<1> HIDE DEF mids
<1>4. MarkToMarket(book, mids) \in Fraction
  BY <1>2, <1>3, MarkTyped
<1>5. ASSUME \A m \in Markets : book[m] = NoPosition
      PROVE  MarkToMarket(book, mids) = Whole(0)
  BY <1>2, <1>3, <1>5, MarkOfFlat
<1> QED
  BY <1>4, <1>5 DEF Marked, mids

\* A step keeps the value of the book or takes it from the marks, and learns at
\* most one quote.
LEMMA Valued ==
  ASSUME [Next]_vars
  PROVE  /\ latest_unrealized' \in
              {latest_unrealized, Marked(positions', latest_snapshot')}
         /\ \/ latest_snapshot' = latest_snapshot
            \/ \E m \in Markets, q \in Quotes : latest_snapshot' = Quoted(m, q)
<1>1. CASE NoSignal
  BY <1>1 DEF NoSignal
<1>2. ASSUME NEW m \in Markets, NEW q \in Quotes, NEW side \in {"buy", "sell"},
             Blocked(m, q, side) \/ Admits(m, q, side)
      PROVE  /\ latest_unrealized' \in
                  {latest_unrealized, Marked(positions', latest_snapshot')}
             /\ latest_snapshot' = Quoted(m, q)
  BY <1>2 DEF Blocked, Admits, PaperFill, PaperMiss, Shadow, LiveWithoutClient,
              LiveCall, LiveUnsent, Admit
<1>3. ASSUME NEW m \in Markets, NEW q \in Quotes, Expired(m, q)
      PROVE  /\ latest_unrealized' = Marked(positions', latest_snapshot')
             /\ latest_snapshot' = Quoted(m, q)
  BY <1>3 DEF Expired
<1>4. CASE CallReturns
  BY <1>4 DEF CallReturns
<1>5. CASE \/ \E request \in sent : ExchangeAccepts(request)
           \/ CallFails \/ CallBreaks
           \/ Retry
           \/ TasksCancelled
           \/ Tick
           \/ UNCHANGED vars
  BY <1>5 DEF ExchangeAccepts, CallFails, CallBreaks, Retry, TasksCancelled, Tick, vars
<1> QED
  BY <1>1, <1>2, <1>3, <1>4, <1>5 DEF Next, Admits

\* A step that fills an order changes one position by the fill; the others
\* change none.
LEMMA PositionsStep ==
  ASSUME ClockInv, TableInv, [Next]_vars
  PROVE  \/ positions' = positions
         \/ \E m \in Markets, q \in Quotes, side \in {"buy", "sell"} :
              Admit(m, q, side) /\ Fills(m, q, side)
<1>1. ASSUME NEW m \in Markets, NEW q \in Quotes, NEW side \in {"buy", "sell"},
             Admits(m, q, side)
      PROVE  positions' = positions \/ (Admit(m, q, side) /\ Fills(m, q, side))
  <2>1. Admit(m, q, side)
    BY <1>1, AdmitsBooked
  <2>2. CASE Stops \/ Sends(m, side) \/ Rests(m, side)
    BY <2>2 DEF Stops, Sends, Rests
  <2> QED
    BY <1>1, <2>1, <2>2, AdmitsTable
<1>2. CASE Aside
  BY <1>2, AsideUnchanged
<1>3. CASE \/ \E request \in sent : ExchangeAccepts(request)
           \/ CallReturns
           \/ Tries
  BY <1>3 DEF ExchangeAccepts, CallReturns, Tries, CallFails, CallBreaks, Retry
<1> QED
  BY <1>1, <1>2, <1>3, StepCases

\* The book of one market.
Sound(p) ==
  /\ \E c \in Int : Kept(p, c, Lot)
  /\ LongCost(p)
  /\ SlippageInSpread => Within(p, MaxMarketExposure)

\* A fill of an admitted order keeps the book of its market.
LEMMA FillSound ==
  ASSUME NEW m \in Markets, NEW q \in Quotes, NEW side \in {"buy", "sell"},
         Admit(m, q, side), Sound(positions[m])
  PROVE  Sound(ApplyFill(positions[m], side, Lot, FillPrice(q, side)))
<1> DEFINE p == positions[m]
           price == FillPrice(q, side)
<1>0. Lot \in Nat \ {0} /\ MaxMarketExposure \in Nat
  BY EngineAssumption DEF EngineAssumption
<1>1. q.ask \in Nat /\ price \in Int /\ (side = "buy" => price \in Nat)
  BY QuotePrices
<1>2. PICK c \in Int : Kept(p, c, Lot)
  BY DEF Sound
<1>3. LongCost(p) /\ (SlippageInSpread => Within(p, MaxMarketExposure))
  BY DEF Sound
<1>4. side = "buy" =>
        Ceiling(MarketExposureNotional(p)) + Lot * q.ask <= MaxMarketExposure
  <2>1. LET request == Request(m, q, side)
        IN  /\ request.market = m /\ request.size = Lot
            /\ request.price = IF side = "buy" THEN q.ask ELSE q.bid
    BY RequestTyped
  <2>2. LET request == Request(m, q, side)
        IN  ReadingOf(request).exposure + request.size * request.price
              <= MaxMarketExposure
    BY AdmitChecked
  <2>3. ReadingOf(Request(m, q, side)).exposure
          = Ceiling(MarketExposureNotional(positions[m]))
    BY <2>1 DEF ReadingOf
  <2> QED
    BY <2>1, <2>2, <2>3
<1>5. ASSUME SlippageInSpread, side = "buy"
      PROVE  price <= q.ask
  BY <1>5 DEF SlippageInSpread
<1> HIDE DEF p, price
<1>6. Kept(ApplyFill(p, side, Lot, price), c - Signed(side, Lot) * price, Lot)
  BY <1>0, <1>1, <1>2, FillKept
<1>7. c - Signed(side, Lot) * price \in Int
  BY <1>6 DEF Kept
<1>8. LongCost(ApplyFill(p, side, Lot, price))
  <2>1. side = "buy" => price >= 0
    BY <1>1
  <2> QED
    BY <1>0, <1>1, <1>2, <1>3, <2>1, FillLongCost
<1>9. ASSUME SlippageInSpread
      PROVE  Within(ApplyFill(p, side, Lot, price), MaxMarketExposure)
  <2>1. CASE side = "buy"
    <3>1. price \in Nat /\ q.ask \in Int /\ MaxMarketExposure \in Int
      BY <1>0, <1>1, <2>1
    <3>2. price <= q.ask
      BY <1>5, <1>9, <2>1
    <3>3. Ceiling(MarketExposureNotional(p)) + Lot * q.ask <= MaxMarketExposure
      BY <1>4, <2>1
    <3> QED
      BY <1>0, <1>2, <1>3, <2>1, <3>1, <3>2, <3>3, BuyWithin
  <2>2. CASE side # "buy"
    <3>1. MaxMarketExposure \in Int /\ Within(p, MaxMarketExposure)
      BY <1>0, <1>3, <1>9
    <3> QED
      BY <1>0, <1>1, <1>2, <1>3, <2>2, <3>1, SellWithin
  <2> QED
    BY <2>1, <2>2
<1> QED
  BY <1>6, <1>7, <1>8, <1>9 DEF Sound, p, price

\* The books stay kept: every fill is of an order that was checked.
LEMMA BookStep ==
  ASSUME ClockInv, TableInv, ConsumerInv, BookInv, [Next]_vars
  PROVE  BookInv'
<1>1. /\ positions \in [Markets -> Position]
      /\ \A m \in Markets : Sound(positions[m])
  BY DEF BookInv, Sound
<1>2. mode' = mode
  BY ModeKept
<1>3. /\ positions' \in [Markets -> Position]
      /\ \A m \in Markets : Sound(positions'[m])
      /\ mode \in {"guarded_live", "shadow_live"} => positions' = positions
  <2>1. CASE positions' = positions
    BY <1>1, <2>1
  <2>2. ASSUME NEW m \in Markets, NEW q \in Quotes, NEW side \in {"buy", "sell"},
               Admit(m, q, side), Fills(m, q, side)
        PROVE  /\ positions' \in [Markets -> Position]
               /\ \A x \in Markets : Sound(positions'[x])
               /\ mode \notin {"guarded_live", "shadow_live"}
    <3> DEFINE new == ApplyFill(positions[m], side, Lot, FillPrice(q, side))
    <3>1. Sound(new)
      BY <1>1, <2>2, FillSound
    <3>2. new \in Position
      BY <3>1 DEF Sound, Kept
    <3>3. /\ positions' = [positions EXCEPT ![m] = new]
          /\ mode \in {"paper", "backtest"}
      BY <2>2 DEF Fills
    <3> HIDE DEF new
    <3> QED
      BY <1>1, <3>1, <3>2, <3>3
  <2> QED
    BY <2>1, <2>2, PositionsStep
<1>4. /\ DOMAIN latest_snapshot' \subseteq Markets
      /\ \A m \in DOMAIN latest_snapshot' : latest_snapshot'[m] \in Quotes
  BY Valued DEF Quoted, BookInv
<1>5. ValuedWith(positions', latest_snapshot')
  BY <1>3, <1>4 DEF ValuedWith
<1>6. Marked(positions', latest_snapshot') \in Fraction
      /\ ((\A m \in Markets : positions'[m] = NoPosition) =>
            Marked(positions', latest_snapshot') = Whole(0))
  BY <1>5, MarkedTyped
<1>7. latest_unrealized' = latest_unrealized
      \/ latest_unrealized' = Marked(positions', latest_snapshot')
  BY Valued
<1>8. latest_unrealized' \in Fraction
  BY <1>6, <1>7 DEF BookInv
<1>9. ASSUME mode \in {"guarded_live", "shadow_live"}
      PROVE  /\ \A m \in Markets : positions'[m] = NoPosition
             /\ latest_unrealized' = Whole(0)
  <2>1. /\ \A m \in Markets : positions'[m] = NoPosition
        /\ latest_unrealized = Whole(0)
    BY <1>3, <1>9 DEF BookInv
  <2> QED
    BY <1>6, <1>7, <2>1
<1>10. SlippageInSpread' <=> SlippageInSpread
  BY DEF SlippageInSpread, FillPrice, Mid
<1>11. \A m \in Markets : /\ \E c \in Int : Kept(positions'[m], c, Lot)
                          /\ LongCost(positions'[m])
                          /\ SlippageInSpread => Within(positions'[m], MaxMarketExposure)
  BY <1>3 DEF Sound
<1> QED
  BY <1>2, <1>3, <1>4, <1>8, <1>9, <1>10, <1>11 DEF BookInv


\* The application starts with empty books.
LEMMA InitInv == Init => IInv
<1> SUFFICES ASSUME Init PROVE IInv
  OBVIOUS
<1>0. /\ Lot \in Nat \ {0} /\ MaxOpenOrders \in Nat /\ MaxMarketExposure \in Nat
      /\ RunModes \subseteq Modes /\ RetryAttempts \in Nat
  BY EngineAssumption DEF EngineAssumption
<1>1. ClockInv
  <2>1. LogBy(<< >>, 0)
    BY EmptySeq DEF LogBy
  <2> QED
    BY <2>1, NewBooked DEF Init, ClockInv
<1>2. /\ orders = << >> /\ orders \in Seq(OrderRecord) /\ Len(orders) = 0
      /\ DOMAIN orders = {}
  BY EmptySeq DEF Init
<1>3. Orders!OpenOrders(orders) = {} /\ Orders!OpenOrderCount(orders) = 0
  <2>1. Orders!OpenOrders(orders) = {}
    BY <1>2 DEF Orders!OpenOrders
  <2> QED
    BY <2>1, SameCardinality, FS_EmptySet DEF Orders!OpenOrderCount
<1>4. TableInv
  <2>1. Len(admitted) = 0
    BY DEF Init
  <2> QED
    BY <1>0, <1>2, <1>3, <2>1 DEF TableInv, OpenOrdersBounded
<1>5. ConsumerInv
  <2>1. PendingIsInFlight
    BY <1>2 DEF PendingIsInFlight, Init, Idle, At
  <2>2. clob_client \in BOOLEAN /\ running \in BOOLEAN /\ mode \in Modes
    BY <1>0 DEF Init
  <2>3. task = Idle /\ task \in Task
    BY DEF Init, Idle, At, Task
  <2> QED
    BY <1>2, <2>1, <2>2, <2>3 DEF ConsumerInv
<1>6. RequestsInv
  <2>1. sent = {} /\ accepted = {}
    BY DEF Init
  <2>2. MaxOpenOrders * RetryAttempts \in Nat
    BY <1>0
  <2>3. RequestsBounded
    BY <2>1, <2>2, FS_EmptySet DEF RequestsBounded
  <2> QED
    BY <2>1, <2>3 DEF RequestsInv
<1>7. /\ Kept(NoPosition, 0, Lot) /\ LongCost(NoPosition)
      /\ Within(NoPosition, MaxMarketExposure)
  <2>1. /\ NoPosition \in Position /\ NoPosition.quantity = 0
        /\ NoPosition.average_price = Whole(0) /\ NoPosition.realized_pnl = Whole(0)
        /\ Whole(0) \in Fraction
    BY DEF NoPosition, Position, Whole, Fraction
  <2>2. Whole(0) = Plus(Whole(0), Times(0, Whole(0)))
    <3>1. /\ Reduced(Whole(0)) /\ Worth(Whole(0), 0, 1)
          /\ 1 \in Nat \ {0} /\ 0 \in Int /\ 0 * 1 + 0 * 0 = 0
      BY WorthWhole DEF Worth, Whole
    <3>2. Worth(Whole(0), 0 * 1 + 0 * 0, 1)
      BY <3>1
    <3> QED
      BY <2>1, <3>1, <3>2, KeptWorth
  <2>3. 0 % Lot = 0
    BY <1>0
  <2> QED
    BY <2>1, <2>2, <2>3 DEF Kept, LongCost, Within
<1>8. BookInv
  <2>1. NoPosition \in Position /\ Whole(0) \in Fraction
    BY <1>7 DEF Kept, Whole, Fraction
  <2>2. \A m \in Markets : positions[m] = NoPosition
    BY DEF Init
  <2>3. /\ \A m \in Markets : /\ \E c \in Int : Kept(positions[m], c, Lot)
                              /\ LongCost(positions[m])
        /\ \A m \in Markets : Within(positions[m], MaxMarketExposure)
    BY <1>7, <2>2
  <2>4. positions \in [Markets -> Position]
    BY <2>1 DEF Init
  <2>5. latest_unrealized = Whole(0) /\ DOMAIN latest_snapshot = {}
    BY DEF Init
  <2> QED
    BY <2>1, <2>2, <2>3, <2>4, <2>5 DEF BookInv
<1>9. FillsMatchPositions
  <2>1. \A m \in Markets : {i \in DOMAIN orders : orders[i].market = m} = {}
    BY <1>2
  <2>2. \A m \in Markets : Held(orders, m) = 0
    BY <2>1, SumEmpty DEF Held
  <2>3. \A m \in Markets : positions[m].quantity = 0
    BY DEF Init, NoPosition
  <2> QED
    BY <2>2, <2>3, MatchIsHeld
<1>10. Unsent
  BY DEF Init, Unsent
<1> QED
  BY <1>1, <1>4, <1>5, <1>6, <1>8, <1>9, <1>10 DEF IInv

\* Every step keeps the invariant, one part at a time.
LEMMA StepInv == IInv /\ [Next]_vars => IInv'
<1> SUFFICES ASSUME IInv, [Next]_vars PROVE IInv'
  OBVIOUS
<1>1. /\ ClockInv /\ TableInv /\ ConsumerInv /\ RequestsInv /\ Unsent
      /\ BookInv /\ FillsMatchPositions
  BY DEF IInv
<1>2. ClockInv'
  BY <1>1, ClockStep
<1>3. TableInv'
  BY <1>1, TableStep
<1>4. ConsumerInv'
  BY <1>1, ConsumerStep
<1>5. RequestsInv'
  BY <1>1, RequestsStep
<1>6. BookInv'
  BY <1>1, BookStep
<1>7. FillsMatchPositions'
  BY <1>1, MatchStep
<1>8. Unsent'
  BY <1>1, UnsentStep
<1> QED
  BY <1>2, <1>3, <1>4, <1>5, <1>6, <1>7, <1>8 DEF IInv

-----------------------------------------------------------------------------
\* The theorems.

\* The invariant holds throughout.
THEOREM EngineIsSound == Spec => []IInv
<1>1. Init => IInv
  BY InitInv
<1>2. IInv /\ [Next]_vars => IInv'
  BY StepInv
<1> QED
  BY <1>1, <1>2, PTL DEF Spec

\* Types, in all four modes (execution_engine.py:107-192).
THEOREM TypeCorrect == Spec => []TypeOK
<1>1. IInv => TypeOK
  <2> SUFFICES ASSUME IInv PROVE TypeOK
    OBVIOUS
  <2>1. ClockInv /\ TableInv /\ ConsumerInv /\ RequestsInv /\ BookInv
    BY DEF IInv
  <2>2. risk.kill_switch_active <=> risk.kill_reason # "None"
    BY <2>1, BookedParts DEF ClockInv
  <2>3. \A i \in DOMAIN orders : orders[i].state \in Orders!OrderStates
    <3> SUFFICES ASSUME NEW i \in DOMAIN orders
                 PROVE  orders[i].state \in Orders!OrderStates
      OBVIOUS
    <3>1. orders[i] \in OrderRecord
      BY <2>1 DEF TableInv
    <3> QED
      BY <3>1 DEF OrderRecord
  <2>4. /\ task.pc \in {"queue.get", "to_thread", "sleep", "raised"}
        /\ task # Idle => mode = "guarded_live"
        /\ task # Idle /\ clob_client =>
             /\ task.order \in DOMAIN orders
             /\ task.attempt \in 1 .. RetryAttempts
             /\ task.pc = "sleep" => task.attempt < RetryAttempts
        /\ task # Idle /\ ~clob_client => task.pc = "raised" /\ orders = << >>
        /\ running \in BOOLEAN /\ clob_client \in BOOLEAN
    BY <2>1 DEF ConsumerInv, Task
  <2> QED
    BY <2>1, <2>2, <2>3, <2>4 DEF ClockInv, TableInv, RequestsInv, BookInv, TypeOK
<1> QED
  BY <1>1, EngineIsSound, PTL

\* No more orders are open than max_open_orders (risk_engine.py:118-119).
THEOREM OpenOrdersAreBounded == Spec => []OpenOrdersBounded
<1>1. IInv => OpenOrdersBounded
  BY DEF IInv, TableInv
<1> QED
  BY <1>1, EngineIsSound, PTL

\* A pending order of guarded_live is the one its consumer is working on or has
\* raised over, whatever retry_attempts is, if any are made at all
\* (execution_engine.py:168-192).
THEOREM PendingOrdersAreInFlight == Spec => []PendingIsInFlight
<1>1. IInv => PendingIsInFlight
  BY DEF IInv, ConsumerInv
<1> QED
  BY <1>1, EngineIsSound, PTL

\* An order the exchange holds is open in the table or the one the consumer has
\* raised over (execution_engine.py:187-191).
THEOREM LostAnswersStop == Spec => []LostAnswerStops
<1>1. IInv => LostAnswerStops
  <2> SUFFICES ASSUME IInv, NEW request \in accepted
               PROVE  \/ request[1] \in Orders!OpenOrders(orders)
                      \/ task.pc = "raised" /\ task.order = request[1]
    BY DEF LostAnswerStops
  <2>1. accepted \subseteq (Orders!OpenOrders(orders) \cup Raised)
                             \X (1 .. RetryAttempts)
    BY DEF IInv, RequestsInv
  <2>2. request[1] \in Orders!OpenOrders(orders) \cup Raised
    BY <2>1
  <2> QED
    BY <2>2 DEF Raised
<1> QED
  BY <1>1, EngineIsSound, PTL

\* The requests the exchange may hold are bounded by the open orders and their
\* attempts (execution_engine.py:173-192).
THEOREM RequestsAreBounded == Spec => []RequestsBounded
<1>1. IInv => RequestsBounded
  BY DEF IInv, RequestsInv
<1> QED
  BY <1>1, EngineIsSound, PTL

\* What is held in a market is what its filled orders bought less what they sold
\* (paper_broker.py:49-59).
THEOREM FillsArePositions == Spec => []FillsMatchPositions
<1>1. IInv => FillsMatchPositions
  BY DEF IInv
<1> QED
  BY <1>1, EngineIsSound, PTL

\* A long position stays within max_market_exposure_pct when the slippage stays
\* within half the spread (risk_engine.py:114-117, paper_broker.py:70-71).
THEOREM LongExposureIsBounded == Spec => []LongExposureBounded
<1>1. IInv => LongExposureBounded
  BY DEF IInv, BookInv, Within, SlippageInSpread, LongExposureBounded
<1> QED
  BY <1>1, EngineIsSound, PTL

\* The engine implements the gate in all four modes: at most max_orders_per_sec
\* orders in any window, none once the kill switch is active
\* (execution_engine.py:154-158).
THEOREM GateImplemented == Spec => ImplementsOrderGate
<1>1. Init => Gate!Init
  <2>1. Risk!NewRiskEngine.kill_switch_active = FALSE
    BY DEF Risk!NewRiskEngine
  <2> QED
    BY <2>1 DEF Init, Gate!Init
<1>2. IInv /\ [Next]_vars => [Gate!Next]_(Gate!vars)
  <2> SUFFICES ASSUME IInv, [Next]_vars
               PROVE  Gate!Next \/ UNCHANGED Gate!vars
    BY DEF Gate!Next
  <2>0. ClockInv
    BY DEF IInv
  <2>1. ASSUME NEW m \in Markets, NEW q \in Quotes, NEW side \in {"buy", "sell"},
               Admits(m, q, side)
        PROVE  Gate!Admit
    <3>0. Admit(m, q, side) /\ risk'.kill_switch_active \in BOOLEAN
      BY <2>0, <2>1, AdmitsBooked, BookedParts DEF ClockInv
    <3>1. /\ ~risk.kill_switch_active
          /\ Cardinality(Young(admitted, now, OrderWindow)) < MaxOrdersPerSec
      BY <2>0, <3>0, AdmitBooked
    <3>2. Young(admitted, now, OrderWindow) = Gate!Recent
      BY DEF Young, Gate!Recent
    <3>3. Len(admitted) < MaxCalls /\ admitted' = Append(admitted, now) /\ now' = now
      BY <3>0 DEF Admit
    <3>4. (~risk'.kill_switch_active) \in BOOLEAN
      OBVIOUS
    <3> QED
      BY <3>1, <3>2, <3>3, <3>4, SameCardinality DEF Gate!Admit
  <2>2. CASE Tick
    BY <2>2 DEF Tick, Gate!Pass, Gate!Next
  <2>3. CASE Quiet
    <3>1. /\ UNCHANGED <<now, admitted>>
          /\ risk.kill_switch_active => risk'.kill_switch_active
          /\ risk.kill_switch_active \in BOOLEAN /\ risk'.kill_switch_active \in BOOLEAN
      BY <2>0, <2>3, BookedParts DEF Quiet, ClockInv
    <3>2. CASE risk'.kill_switch_active = risk.kill_switch_active
      BY <3>1, <3>2 DEF Gate!vars
    <3>3. CASE risk'.kill_switch_active
      BY <3>1, <3>3 DEF Gate!Close, Gate!Next
    <3> QED
      BY <3>1, <3>2, <3>3
  <2> QED
    BY <2>0, <2>1, <2>2, <2>3, KindsOfSteps DEF Gate!Next
<1> QED
  BY <1>1, <1>2, EngineIsSound, PTL DEF Spec, ImplementsOrderGate, Gate!Spec

\* Once the kill switch is active nothing but further attempts at the order in
\* flight leaves for the exchange (execution_engine.py:173-192).
THEOREM OnlyRetriesAreSentWhenKilled == Spec => OnlyRetriesWhenKilled
<1>1. ASSUME IInv, [Next]_vars, risk.kill_switch_active
      PROVE  sent' \ sent \subseteq {<<task.order, n>> : n \in 2 .. RetryAttempts}
  <2>0. ClockInv /\ TableInv /\ ConsumerInv
    BY <1>1 DEF IInv
  <2>1. ASSUME NEW m \in Markets, NEW q \in Quotes, NEW side \in {"buy", "sell"},
               Admits(m, q, side)
        PROVE  FALSE
    <3>1. Admit(m, q, side)
      BY <2>0, <2>1, AdmitsBooked
    <3> QED
      BY <1>1, <2>0, <3>1, AdmitBooked
  <2>2. CASE Retry
    <3>1. task.pc = "sleep" /\ sent' \subseteq sent \cup {<<task.order, task.attempt + 1>>}
      BY <2>2 DEF Retry, Attempt
    <3>2. task.attempt \in 1 .. RetryAttempts /\ task.attempt < RetryAttempts
      BY <2>0, <3>1, InFlight
    <3>3. task.attempt + 1 \in 2 .. RetryAttempts
      BY <3>2, EngineAssumption DEF EngineAssumption
    <3> QED
      BY <3>1, <3>3
  <2>3. CASE \/ Aside
             \/ \E request \in sent : ExchangeAccepts(request)
             \/ CallReturns \/ CallFails \/ CallBreaks
    <3>1. sent' = sent
      BY <2>3, AsideUnchanged DEF ExchangeAccepts, CallReturns, CallFails, CallBreaks
    <3> QED
      BY <3>1
  <2> QED
    BY <1>1, <2>1, <2>2, <2>3, StepCases DEF Tries
<1>2. IInv /\ [Next]_vars =>
        [risk.kill_switch_active =>
           sent' \ sent \subseteq {<<task.order, n>> : n \in 2 .. RetryAttempts}]_vars
  BY <1>1
<1> QED
  BY <1>2, EngineIsSound, PTL DEF Spec, OnlyRetriesWhenKilled

\* An order evaluated while a loss is seen activates the kill switch.
LEMMA LossEvaluated ==
  ASSUME ClockInv, BookInv, LossSeen, NEW request
  PROVE  Evaluated(request).kill_switch_active
<1>0. latest_unrealized \in Fraction /\ DailyLossLimit \in Nat /\ HourlyLossLimit \in Nat
  BY EngineAssumption DEF EngineAssumption, BookInv
<1>1. /\ Ceiling(latest_unrealized) <= -DailyLossLimit
           <=> AtMost(latest_unrealized, Whole(-DailyLossLimit))
      /\ Ceiling(latest_unrealized) <= -HourlyLossLimit
           <=> AtMost(latest_unrealized, Whole(-HourlyLossLimit))
  <2>1. -DailyLossLimit \in Int /\ -HourlyLossLimit \in Int
    BY <1>0
  <2> QED
    BY <1>0, <2>1, CeilingAtMost
<1>2. \/ ReadingOf(request).dailyPnl <= -DailyLossLimit
      \/ ReadingOf(request).hourlyPnl <= -HourlyLossLimit
  BY <1>1 DEF LossSeen, ReadingOf
<1>3. now \in Nat /\ admitted \in Seq(Nat) /\ Booked(Heard, now, admitted)
  BY EvaluatedBooked DEF ClockInv, LogBy
<1> QED
  BY <1>2, <1>3, LossActivates DEF Evaluated

\* A loss that mark_to_market has seen is still seen or has activated the kill
\* switch, but for the revaluation that follows an expired signal, in every mode
\* and for every limit (execution_engine.py:123-142, risk_engine.py:132-138).
THEOREM LossIsNotForgotten == Spec => LossNotForgotten
<1> DEFINE Dropped == \E m \in Markets, q \in Quotes : Expired(m, q)
<1>1. ASSUME IInv, [Next]_vars, LossSeen, ~Dropped
      PROVE  LossSeen' \/ risk'.kill_switch_active
  <2>0. ClockInv /\ TableInv /\ ConsumerInv /\ BookInv
    BY <1>1 DEF IInv
  <2>1. ASSUME latest_unrealized' = latest_unrealized
        PROVE  LossSeen'
    BY <1>1, <2>1 DEF LossSeen
  <2>2. ASSUME NEW m \in Markets, NEW q \in Quotes, NEW side \in {"buy", "sell"},
               Admits(m, q, side)
        PROVE  FALSE
    <3>1. Admit(m, q, side)
      BY <2>0, <2>2, AdmitsBooked
    <3> QED
      BY <1>1, <2>0, <3>1, AdmitBooked, LossEvaluated
  <2>3. ASSUME NEW m \in Markets, NEW q \in Quotes, NEW side \in {"buy", "sell"},
               Blocked(m, q, side)
        PROVE  risk'.kill_switch_active
    <3>1. risk' = Evaluated(Request(m, q, side))
      BY <2>3 DEF Blocked
    <3> QED
      BY <1>1, <2>0, <3>1, LossEvaluated
  <2>4. CASE CallReturns
    <3>1. mode = "guarded_live"
      BY <2>0, <2>4, Returned
    <3>2. latest_unrealized = Whole(0)
      BY <2>0, <3>1 DEF BookInv
    <3>3. mode' = mode
      BY <2>4 DEF CallReturns
    <3>4. BookInv'
      BY <1>1, StepInv DEF IInv
    <3>5. latest_unrealized' = Whole(0)
      BY <3>1, <3>3, <3>4 DEF BookInv
    <3> QED
      BY <2>1, <3>2, <3>5
  <2>5. CASE \/ NoSignal
             \/ \E request \in sent : ExchangeAccepts(request)
             \/ CallFails \/ CallBreaks
             \/ Retry
             \/ TasksCancelled
             \/ Tick
             \/ UNCHANGED vars
    <3>1. latest_unrealized' = latest_unrealized
      BY <2>5 DEF NoSignal, ExchangeAccepts, CallFails, CallBreaks, Retry,
                  TasksCancelled, Tick, vars
    <3> QED
      BY <2>1, <3>1
  <2> QED
    BY <1>1, <2>2, <2>3, <2>4, <2>5 DEF Next, Admits
<1>2. IInv /\ [Next]_vars =>
        [LossSeen => LossSeen' \/ risk'.kill_switch_active \/ Dropped]_vars
  BY <1>1
<1> QED
  BY <1>2, EngineIsSound, PTL DEF Spec, LossNotForgotten

-----------------------------------------------------------------------------
\* Reconciliation.

\* Whatever step the system makes, the engine makes one of its own or none.
LEMMA EngineSteps == [SystemNext]_systemVars => [Next]_vars
BY DEF SystemNext, Engine, Beside, ExchangeCloses, RemoteRead, LocalRead,
       GetFails, AlertEnds, ReconcilerWakes, systemVars

\* The system is the engine with a reconciler and an exchange beside it, which
\* disturb nothing of it: every theorem about Spec is one about SystemSpec
\* (reconciliation_service.py:52-67 only reads the order table).
THEOREM SystemIsEngine == SystemSpec => Spec
<1>1. SystemInit => Init
  BY DEF SystemInit
<1> QED
  BY <1>1, EngineSteps, PTL DEF SystemSpec, Spec

-----------------------------------------------------------------------------
\* The inductive invariant.

\* If the exchange returns the client's ids, the differences seen since it was read
\* cover those between its answer and the table, but for the order of an exception;
\* and what it answered is in the table, but for that order and strays.
AnswerInv ==
  reconciler.pc = "answer" =>
    /\ client_ids =>
         /\ Orders!OpenOrders(orders) \ reconciler.remote \subseteq seen.missing_remote
         /\ reconciler.remote \ Orders!OpenOrders(orders)
              \subseteq seen.missing_local \cup Raised
    /\ \A name \in reconciler.remote :
         /\ name > 0 => name \in Orders!OpenOrders(orders) \cup Raised
         /\ name < 0 => ~client_ids

\* The inductive invariant of the reconciler; that of the engine holds beside it.
ReconcilerInv ==
  /\ SystemTypeOK
  /\ reconciler = [pc |-> reconciler.pc, remote |-> reconciler.remote,
                   wake |-> reconciler.wake]
  /\ OnlyStraysAreUnknown
  /\ AnswerInv

\* The requests of the exchange are for orders of the table.
LEMMA RequestOrders ==
  ASSUME IInv
  PROVE  /\ \A request \in accepted :
              /\ request[1] \in Orders!OpenOrders(orders) \cup Raised
              /\ request[1] \in 1 .. Len(orders)
         /\ Len(orders) \in Nat
<1>1. /\ orders \in Seq(OrderRecord) /\ ConsumerInv
      /\ accepted \subseteq (Orders!OpenOrders(orders) \cup Raised)
                             \X (1 .. RetryAttempts)
  BY DEF IInv, TableInv, RequestsInv
<1>2. DOMAIN orders = 1 .. Len(orders) /\ Len(orders) \in Nat
  BY <1>1, OpenFinite
<1>3. \A request \in accepted : request[1] \in Orders!OpenOrders(orders) \cup Raised
  BY <1>1
<1>4. \A i \in Orders!OpenOrders(orders) : i \in DOMAIN orders
  BY DEF Orders!OpenOrders
<1>5. CASE clob_client \/ mode # "guarded_live"
  <2>1. \A i \in Raised : i \in DOMAIN orders
    BY <1>1, <1>5 DEF Raised, ConsumerInv, Idle, At
  <2> QED
    BY <1>2, <1>3, <1>4, <2>1
<1>6. CASE ~clob_client /\ mode = "guarded_live"
  <2>1. orders = << >> /\ accepted = {}
    BY <1>1, <1>6 DEF ConsumerInv, RequestsInv, Unsent, IInv
  <2> QED
    BY <1>2, <2>1
<1> QED
  BY <1>5, <1>6

\* An open order only ceases to be one by the exception that ends the consumer, and
\* one that becomes open has not been sent before.
LEMMA OpenGrows ==
  ASSUME IInv, [Next]_vars
  PROVE  /\ Raised \subseteq Raised'
         /\ Orders!OpenOrders(orders) \subseteq Orders!OpenOrders(orders') \cup Raised'
         /\ accepted' = accepted \/ orders' = orders
         /\ \A i \in Orders!OpenOrders(orders') \ Orders!OpenOrders(orders) :
              /\ i # 0
              /\ \A request \in accepted : request[1] # i
<1>0. /\ ClockInv /\ TableInv /\ ConsumerInv /\ orders \in Seq(OrderRecord)
      /\ Len(orders) \in Nat
      /\ \A request \in accepted : request[1] \in 1 .. Len(orders)
  BY RequestOrders DEF IInv, TableInv
<1>1. ASSUME NEW m \in Markets, NEW q \in Quotes, NEW side \in {"buy", "sell"},
             Admits(m, q, side)
      PROVE  /\ Raised = {} \/ UNCHANGED task
             /\ accepted' = accepted
             /\ Orders!OpenOrders(orders)
                  \subseteq Orders!OpenOrders(orders') \cup Raised'
             /\ Orders!OpenOrders(orders')
                  \subseteq Orders!OpenOrders(orders) \cup {Len(orders) + 1}
  <2>0. task = Idle => Raised = {}
    BY DEF Raised, Idle, At
  <2>1. CASE Stops
    BY <2>0, <2>1 DEF Stops
  <2>2. ASSUME NEW t, NEW state, NEW filled,
               Added(orders, t, m, side, state, filled)
        PROVE  /\ Orders!OpenOrders(orders) \subseteq Orders!OpenOrders(t)
               /\ Orders!OpenOrders(t)
                    \subseteq Orders!OpenOrders(orders) \cup {Len(orders) + 1}
    BY <1>0, <2>2, OpenAdded
  <2>3. CASE Rests(m, side) \/ Fills(m, q, side)
    <3>1. /\ \E state, filled : Added(orders, orders', m, side, state, filled)
          /\ UNCHANGED <<task, accepted>>
      BY <2>3 DEF Rests, Fills
    <3> QED
      BY <2>2, <3>1
  <2>4. CASE Sends(m, side)
    <3> DEFINE n == Len(orders) + 1
    <3>1. /\ task = Idle /\ accepted' = accepted
          /\ \E t : Added(orders, t, m, side, "pending", 0) /\ Tried(t, n, 1)
      BY <2>4 DEF Sends
    <3>2. PICK t : Added(orders, t, m, side, "pending", 0) /\ Tried(t, n, 1)
      BY <3>1
    <3>3. t \in Seq(OrderRecord) /\ Len(t) = n /\ t[n].state = "pending"
      BY <3>2 DEF Added
    <3>4. n \in DOMAIN t
      BY <1>0, <3>3, OpenFinite
    <3>5. /\ Orders!OpenOrders(orders') \subseteq Orders!OpenOrders(t)
          /\ Orders!OpenOrders(t) \subseteq Orders!OpenOrders(orders') \cup Raised'
      BY <3>2, <3>3, <3>4, TriedTable
    <3> QED
      BY <2>0, <2>2, <3>1, <3>2, <3>5
  <2> QED
    BY <1>0, <1>1, <2>1, <2>3, <2>4, AdmitsTable
<1>2. ASSUME NEW m \in Markets, NEW q \in Quotes, NEW side \in {"buy", "sell"},
             Admits(m, q, side),
             NEW i \in Orders!OpenOrders(orders') \ Orders!OpenOrders(orders)
      PROVE  i # 0 /\ \A request \in accepted : request[1] # i
  <2>1. i = Len(orders) + 1
    BY <1>1, <1>2
  <2> QED
    BY <1>0, <2>1
<1>3. ASSUME NEW m \in Markets, NEW q \in Quotes, NEW side \in {"buy", "sell"},
             Admits(m, q, side)
      PROVE  Raised \subseteq Raised'
  BY <1>1, <1>3 DEF Raised
<1>4. CASE CallReturns
  <2>1. Raised = {}
    BY <1>4 DEF CallReturns, InCall, Raised
  <2> QED
    BY <1>0, <1>4, <2>1, Returned
<1>5. CASE Tries
  <2>1. /\ task.order \in DOMAIN orders /\ orders[task.order].state = "pending"
        /\ accepted' = accepted /\ Raised = {}
    BY <1>0, <1>5, TriesAgain
  <2>2. PICK n \in 1 .. RetryAttempts : Tried(orders, task.order, n)
    BY <1>0, <1>5, TriesAgain
  <2>3. /\ Orders!OpenOrders(orders') \subseteq Orders!OpenOrders(orders)
        /\ Orders!OpenOrders(orders)
             \subseteq Orders!OpenOrders(orders') \cup Raised'
    BY <1>0, <2>1, <2>2, TriedTable
  <2> QED
    BY <2>1, <2>3
<1>6. CASE Aside \/ \E request \in sent : ExchangeAccepts(request)
  <2>1. orders' = orders /\ task' = task
    BY <1>6, AsideUnchanged DEF ExchangeAccepts
  <2> QED
    BY <2>1 DEF Raised
<1> QED
  BY <1>1, <1>2, <1>3, <1>4, <1>5, <1>6, StepCases

\* What the exchange holds, by the orders themselves.
Remote == {request[1] : request \in accepted \ closed}
            \cup {order \in {0} : stray = "open"}

\* What the exchange reads is what it holds, by the names it gives.
LEMMA ListingIsOpen ==
  ASSUME IInv
  PROVE  /\ RemoteOpen(Listing) = {Name(order) : order \in Remote}
         /\ \A order \in Remote : order \in Nat
         /\ Difference = Compare(Remote, Orders!OpenOrders(orders))
<1>1. \A request \in accepted : request[1] # 0 /\ request[1] \in Nat
  BY RequestOrders
<1>2. DOMAIN Listing = {0} \cup {request[1] : request \in accepted}
  BY DEF Listing
<1>3. \A order \in DOMAIN Listing :
        Listing[order] = "open" <=>
          IF order = 0 THEN stray = "open"
                       ELSE \E request \in accepted \ closed : request[1] = order
  BY DEF Listing, Status
<1>4. {o \in DOMAIN Listing : Listing[o] = "open"} = Remote
  BY <1>1, <1>2, <1>3 DEF Remote
<1> QED
  BY <1>1, <1>4 DEF RemoteOpen, Remote, Difference

\* What a step of the engine or of the exchange adds to the differences seen.
LEMMA Watched ==
  ASSUME IInv, [Next]_vars, AnswerInv, reconciler.pc = "answer",
         reconciler' = reconciler, client_ids' = client_ids, Watching
  PROVE  AnswerInv'
<1> DEFINE open == Orders!OpenOrders(orders)
<1>1. /\ Raised \subseteq Raised' /\ open \subseteq open' \cup Raised'
      /\ accepted' = accepted \/ orders' = orders
      /\ \A i \in open' \ open : i # 0 /\ \A request \in accepted : request[1] # i
  BY OpenGrows
<1>2. Difference = Compare(Remote, open)
  BY ListingIsOpen
<1>3. /\ seen'.missing_remote = seen.missing_remote \cup (open' \ Remote')
      /\ seen'.missing_local = seen.missing_local \cup (Remote' \ open')
  BY <1>2 DEF Watching, Union, Difference, Compare, Remote
<1>4. /\ client_ids => /\ open \ reconciler.remote \subseteq seen.missing_remote
                       /\ reconciler.remote \ open \subseteq seen.missing_local \cup Raised
      /\ \A name \in reconciler.remote : /\ name > 0 => name \in open \cup Raised
                                         /\ name < 0 => ~client_ids
  BY DEF AnswerInv
<1>5. open' \ open \subseteq open' \ Remote'
  <2>1. CASE orders' = orders
    BY <2>1
  <2>2. CASE accepted' = accepted
    BY <1>1, <2>2 DEF Remote
  <2> QED
    BY <1>1, <2>1, <2>2
<1>6. client_ids =>
        /\ open' \ reconciler.remote \subseteq seen'.missing_remote
        /\ reconciler.remote \ open' \subseteq seen'.missing_local \cup Raised'
  BY <1>1, <1>3, <1>4, <1>5
<1>7. \A name \in reconciler.remote : /\ name > 0 => name \in open' \cup Raised'
                                      /\ name < 0 => ~client_ids
  BY <1>1, <1>4
<1> QED
  BY <1>6, <1>7 DEF AnswerInv

\* The reconciler starts with nothing reported.
LEMMA ReconcilerInit == SystemInit => ReconcilerInv
<1> SUFFICES ASSUME SystemInit PROVE ReconcilerInv
  OBVIOUS
<1>1. accepted = {} /\ closed = {} /\ MaxTime \in Nat
  BY EngineAssumption DEF SystemInit, Init, EngineAssumption
<1>2. reconciler \in {Getting, Off}
  BY DEF SystemInit
<1>3. /\ reconciler.pc \in {"get", "off"} /\ reconciler.remote = {}
      /\ reconciler.wake = 0
      /\ reconciler = [pc |-> reconciler.pc, remote |-> reconciler.remote,
                       wake |-> reconciler.wake]
  BY <1>2 DEF Getting, Off
<1>4. /\ discrepancies = NoDifference /\ stray \in {"open", "done"}
      /\ client_ids \in BOOLEAN
  BY ReconciliationAssumption DEF SystemInit, ReconciliationAssumption
<1>5. SystemTypeOK
  BY <1>1, <1>3, <1>4 DEF SystemTypeOK
<1> QED
  BY <1>3, <1>4, <1>5 DEF ReconcilerInv, OnlyStraysAreUnknown, NoDifference, AnswerInv

\* A reconciler that has just fallen asleep.
LEMMA AsleepTyped ==
  ASSUME now \in Nat
  PROVE  /\ Asleep.pc = "sleep" /\ Asleep.remote = {}
         /\ Asleep.wake \in 0 .. MaxTime
         /\ Asleep = [pc |-> Asleep.pc, remote |-> Asleep.remote,
                      wake |-> Asleep.wake]
<1>1. MaxTime \in Nat /\ ReconcileInterval \in Nat
  BY EngineAssumption, ReconciliationAssumption
     DEF EngineAssumption, ReconciliationAssumption
<1> DEFINE wake == IF now + ReconcileInterval > MaxTime THEN MaxTime
                   ELSE now + ReconcileInterval
<1>2. wake \in 0 .. MaxTime
  BY <1>1
<1>3. Asleep = [Off EXCEPT !.pc = "sleep", !.wake = wake]
  BY DEF Asleep
<1> HIDE DEF wake
<1>4. Asleep = [pc |-> "sleep", remote |-> {}, wake |-> wake]
  BY <1>3 DEF Off
<1> QED
  BY <1>2, <1>4

\* The exchange takes no request back.
LEMMA AcceptedGrows ==
  ASSUME [Next]_vars
  PROVE  accepted \subseteq accepted'
<1>1. ASSUME NEW m \in Markets, NEW q \in Quotes, NEW side \in {"buy", "sell"},
             Admits(m, q, side)
      PROVE  accepted' = accepted
  BY <1>1 DEF Admits, PaperFill, PaperMiss, Shadow, LiveWithoutClient, LiveCall,
              LiveUnsent
<1>2. CASE Aside
  BY <1>2, AsideUnchanged
<1>3. CASE \/ \E request \in sent : ExchangeAccepts(request)
           \/ CallReturns
           \/ Tries
  BY <1>3 DEF ExchangeAccepts, CallReturns, Tries, CallFails, CallBreaks, Retry
<1> QED
  BY <1>1, <1>2, <1>3, StepCases

\* Every step of the system keeps what an answer is known to cover.
LEMMA ReconcilerStep ==
  ASSUME IInv, ReconcilerInv, [SystemNext]_systemVars
  PROVE  ReconcilerInv'
<1>0. /\ now \in Nat /\ SystemTypeOK /\ OnlyStraysAreUnknown /\ AnswerInv
      /\ reconciler = [pc |-> reconciler.pc, remote |-> reconciler.remote,
                       wake |-> reconciler.wake]
  BY DEF ReconcilerInv, IInv, ClockInv
<1>1. [Next]_vars
  BY EngineSteps
<1>2. client_ids' = client_ids
  BY DEF SystemNext, Engine, Beside, ExchangeCloses, RemoteRead, LocalRead,
         GetFails, AlertEnds, ReconcilerWakes, systemVars, exchangeVars
<1>3. CASE Engine \/ ExchangeCloses
  <2>0. accepted \subseteq accepted'
    BY <1>1, AcceptedGrows
  <2>1. /\ reconciler' = reconciler /\ discrepancies' = discrepancies /\ Watching
        /\ stray' \in {"open", "done"} /\ closed' \subseteq accepted'
    BY <1>0, <1>3, <2>0 DEF Engine, Beside, ExchangeCloses, SystemTypeOK, vars,
                            exchangeVars
  <2>2. SystemTypeOK'
    BY <1>0, <1>2, <2>1 DEF SystemTypeOK
  <2>3. AnswerInv'
    <3>1. CASE reconciler.pc = "answer"
      BY <1>0, <1>1, <1>2, <2>1, <3>1, Watched
    <3>2. CASE reconciler.pc # "answer"
      BY <2>1, <3>2 DEF AnswerInv
    <3> QED
      BY <3>1, <3>2
  <2>4. OnlyStraysAreUnknown'
    <3>1. Raised \subseteq Raised'
      BY <1>1, OpenGrows
    <3> QED
      BY <1>0, <1>2, <2>1, <3>1 DEF OnlyStraysAreUnknown
  <2> QED
    BY <1>0, <2>1, <2>2, <2>3, <2>4 DEF ReconcilerInv
<1>4. CASE RemoteRead
  <2>1. /\ reconciler.pc = "get"
        /\ reconciler' = [pc |-> "answer", remote |-> RemoteOpen(Listing),
                          wake |-> reconciler.wake]
        /\ seen' = Difference /\ UNCHANGED <<vars, exchangeVars, discrepancies>>
    BY <1>0, <1>4 DEF RemoteRead
  <2>2. UNCHANGED <<orders, accepted, task, closed, stray, client_ids>>
    BY <2>1 DEF vars, exchangeVars
  <2>3. /\ RemoteOpen(Listing) = {Name(order) : order \in Remote}
        /\ \A order \in Remote : order \in Nat
        /\ Difference = Compare(Remote, Orders!OpenOrders(orders))
    BY ListingIsOpen
  <2>4. client_ids => RemoteOpen(Listing) = Remote
    BY <2>3 DEF Name
  <2>5. ASSUME NEW name \in RemoteOpen(Listing)
        PROVE  /\ name > 0 => name \in Orders!OpenOrders(orders) \cup Raised
               /\ name < 0 => ~client_ids
    <3>1. PICK order \in Remote : name = Name(order)
      BY <2>3
    <3>2. order \in Nat
      BY <2>3
    <3>3. order # 0 => order \in Orders!OpenOrders(orders) \cup Raised
      BY RequestOrders DEF Remote
    <3> QED
      BY <3>1, <3>2, <3>3 DEF Name
  <2>6. AnswerInv'
    <3>1. /\ reconciler'.remote = RemoteOpen(Listing) /\ Raised' = Raised
          /\ seen'.missing_remote = Orders!OpenOrders(orders) \ Remote
          /\ seen'.missing_local = Remote \ Orders!OpenOrders(orders)
      BY <2>1, <2>2, <2>3 DEF Compare, Raised
    <3> QED
      BY <2>2, <2>4, <2>5, <3>1 DEF AnswerInv
  <2>7. SystemTypeOK'
    BY <1>0, <2>1, <2>2 DEF SystemTypeOK
  <2>8. OnlyStraysAreUnknown'
    BY <1>0, <2>1, <2>2 DEF OnlyStraysAreUnknown, Raised
  <2> QED
    BY <1>0, <2>1, <2>6, <2>7, <2>8 DEF ReconcilerInv
<1>5. CASE LocalRead
  <2> DEFINE found == Compare(reconciler.remote, Orders!OpenOrders(orders))
  <2>1. /\ reconciler.pc = "answer" /\ discrepancies' = found
        /\ reconciler' = IF found # NoDifference /\ WebhookUrl
                           THEN [Off EXCEPT !.pc = "alert"] ELSE Asleep
        /\ UNCHANGED <<vars, exchangeVars, seen>>
    BY <1>5 DEF LocalRead
  <2>2. OnlyStraysAreUnknown'
    <3>1. found.missing_local = reconciler.remote \ Orders!OpenOrders(orders)
      BY DEF Compare
    <3>2. Raised' = Raised /\ discrepancies' = found
      BY <2>1 DEF vars, Raised
    <3> HIDE DEF found
    <3>3. \A name \in found.missing_local :
            /\ name > 0 => name \in Raised
            /\ name < 0 => ~client_ids
      BY <1>0, <2>1, <3>1 DEF AnswerInv
    <3> QED
      BY <1>2, <3>2, <3>3 DEF OnlyStraysAreUnknown
  <2>3. UNCHANGED <<accepted, closed, stray, client_ids>>
    BY <2>1 DEF vars, exchangeVars
  <2> HIDE DEF found
  <2>4. CASE found # NoDifference /\ WebhookUrl
    <3>1. /\ reconciler'.pc = "alert" /\ reconciler'.remote = {}
          /\ reconciler'.wake = 0
          /\ reconciler' = [pc |-> reconciler'.pc, remote |-> reconciler'.remote,
                            wake |-> reconciler'.wake]
      BY <2>1, <2>4 DEF Off
    <3>2. 0 \in 0 .. MaxTime
      BY EngineAssumption DEF EngineAssumption
    <3>3. SystemTypeOK'
      BY <1>0, <2>1, <2>3, <2>4, <3>1, <3>2 DEF SystemTypeOK
    <3> QED
      BY <2>2, <3>1, <3>3 DEF ReconcilerInv, AnswerInv
  <2>5. CASE ~(found # NoDifference /\ WebhookUrl)
    <3>1. reconciler' = Asleep
      BY <2>1, <2>5
    <3>2. SystemTypeOK'
      BY <1>0, <2>1, <2>3, <3>1, AsleepTyped DEF SystemTypeOK
    <3> QED
      BY <1>0, <2>2, <3>1, <3>2, AsleepTyped DEF ReconcilerInv, AnswerInv
  <2> QED
    BY <2>4, <2>5
<1>6. CASE GetFails \/ AlertEnds \/ ReconcilerWakes
  <2>1. /\ reconciler' \in {Asleep, Getting} /\ reconciler.pc # "off"
        /\ UNCHANGED <<vars, exchangeVars, discrepancies, seen>>
    BY <1>6 DEF GetFails, AlertEnds, ReconcilerWakes
  <2>2. /\ reconciler'.pc \in {"get", "sleep"} /\ reconciler'.remote = {}
        /\ reconciler'.wake \in 0 .. MaxTime
        /\ reconciler' = [pc |-> reconciler'.pc, remote |-> reconciler'.remote,
                          wake |-> reconciler'.wake]
    <3>1. 0 \in 0 .. MaxTime
      BY EngineAssumption DEF EngineAssumption
    <3> QED
      BY <1>0, <2>1, <3>1, AsleepTyped DEF Getting
  <2>3. UNCHANGED <<accepted, task, closed, stray, client_ids>>
    BY <2>1 DEF vars, exchangeVars
  <2>4. SystemTypeOK'
    BY <1>0, <2>1, <2>2, <2>3 DEF SystemTypeOK
  <2>5. OnlyStraysAreUnknown'
    BY <1>0, <2>1, <2>3 DEF OnlyStraysAreUnknown, Raised
  <2> QED
    BY <1>0, <2>2, <2>4, <2>5 DEF ReconcilerInv, AnswerInv
<1>7. CASE UNCHANGED systemVars
  BY <1>0, <1>7 DEF systemVars, vars, exchangeVars, reconcileVars, ReconcilerInv,
                    SystemTypeOK, OnlyStraysAreUnknown, AnswerInv, Raised
<1> QED
  BY <1>3, <1>4, <1>5, <1>6, <1>7 DEF SystemNext

\* The invariant of the engine and that of the reconciler hold throughout.
THEOREM ReconcilerIsSound == SystemSpec => [](IInv /\ ReconcilerInv)
<1>1. SystemInit => ReconcilerInv
  BY ReconcilerInit
<1>2. IInv /\ ReconcilerInv /\ [SystemNext]_systemVars => ReconcilerInv'
  BY ReconcilerStep
<1>3. SystemSpec => []IInv
  BY SystemIsEngine, EngineIsSound, PTL
<1> QED
  BY <1>1, <1>2, <1>3, PTL DEF SystemSpec

\* Types, and an answer is held only while the result is due
\* (reconciliation_service.py:52-67).
THEOREM SystemTypeCorrect == SystemSpec => []SystemTypeOK
<1>1. ReconcilerInv => SystemTypeOK
  BY DEF ReconcilerInv
<1> QED
  BY <1>1, ReconcilerIsSound, PTL

\* An order reported as unknown here is a stray, the one the consumer has raised
\* over, or one whose client's id the exchange does not return
\* (reconciliation_service.py:55-64).
THEOREM OnlyStraysAreReported == SystemSpec => []OnlyStraysAreUnknown
<1>1. ReconcilerInv => OnlyStraysAreUnknown
  BY DEF ReconcilerInv
<1> QED
  BY <1>1, ReconcilerIsSound, PTL

\* If the exchange returns the client's ids, whatever is reported was so at some
\* moment since it read its orders, but for the order of an exception
\* (reconciliation_service.py:52-64).
THEOREM ReportsAreTrue == SystemSpec => ReportsWereTrue
<1>1. ASSUME ReconcilerInv, client_ids, LocalRead
      PROVE  /\ discrepancies'.missing_remote \subseteq seen.missing_remote
             /\ discrepancies'.missing_local \subseteq seen.missing_local \cup Raised
  BY <1>1 DEF ReconcilerInv, AnswerInv, LocalRead, Compare
<1>2. ReconcilerInv =>
        [client_ids /\ LocalRead =>
           /\ discrepancies'.missing_remote \subseteq seen.missing_remote
           /\ discrepancies'.missing_local \subseteq seen.missing_local \cup Raised
        ]_systemVars
  BY <1>1
<1> QED
  BY <1>2, ReconcilerIsSound, PTL DEF SystemSpec, ReportsWereTrue

=============================================================================
