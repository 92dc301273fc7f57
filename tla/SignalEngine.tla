----------------------------- MODULE SignalEngine -----------------------------
(***************************************************************************)
(* The decision the consumer takes on a snapshot                           *)
(* (execution_engine.py:123-135): app/engines/signal_engine.py and         *)
(* app/services/market_mapper.py on top of the reference price of          *)
(* PriceFeed.  They keep no state, so the behaviours are PriceFeed's and   *)
(* the properties range over every snapshot that might come.               *)
(*                                                                         *)
(* Simplifications.  Probabilities are counted in thousandths and their    *)
(* midpoints are whole.  The logistic function of the distance to the      *)
(* strike is any table that does not fall as the price rises; its argument *)
(* is twice the reference price, which a mean of two may leave at a half.  *)
(***************************************************************************)
EXTENDS PriceFeed

CONSTANTS
  MarketIds,
  FairYes,           \* market -> twice the price -> fair value of yes
  Enabled,           \* the markets whose definition is enabled
  Books,             \* [bid, ask] of snapshots
  TakerFeeEstimate, SlippageEstimate, ExecutionBuffer, MinNetEdge

Doubled == {p + q : p, q \in Prices}

ASSUME SignalAssumption ==
  /\ Enabled \subseteq MarketIds
  /\ FairYes \in [MarketIds -> [Doubled -> 0 .. 1000]]
  /\ \A m \in MarketIds : \A p, q \in Doubled :
       p <= q => FairYes[m][p] <= FairYes[m][q]
  /\ \A b \in Books : /\ b \in [bid : Nat, ask : Nat]
                      /\ b.bid <= b.ask /\ (b.bid + b.ask) % 2 = 0
  /\ TakerFeeEstimate \in Nat /\ SlippageEstimate \in Nat
  /\ ExecutionBuffer \in Nat /\ MinNetEdge \in Nat

-----------------------------------------------------------------------------
MidPrice(book) == (book.bid + book.ask) \div 2

FairProbability(market, reference) ==
  FairYes[market][(2 * reference.num) \div reference.den]

\* Mutant of NetEdge: the slippage is forgotten.
NetEdgeUnslipped(raw) == raw - TakerFeeEstimate - ExecutionBuffer

NetEdge(raw) == raw - TakerFeeEstimate - SlippageEstimate - ExecutionBuffer

\* MarketMapper.get_market finds the enabled markets only.
HasMarket(market) == market \in Enabled

\* build_signal: the side of the signal, or "none".
BuildSignal(market, book, reference) ==
  LET raw_edge_buy == FairProbability(market, reference) - MidPrice(book)
  IN  IF ~HasMarket(market) \/ NetEdge(AbsInt(raw_edge_buy)) <= MinNetEdge
        THEN "none"
      ELSE IF raw_edge_buy >= 0 THEN "buy" ELSE "sell"

\* What the consumer makes of a snapshot now.
SignalNow(market, book) ==
  IF Contributors = {} THEN "none" ELSE BuildSignal(market, book, Reference)

-----------------------------------------------------------------------------
\* Properties.

\* A wild price does not trade when there is a majority against it: with one or
\* three fresh sources, more than half would have given the signal by themselves.
\* Two have no majority: their mean decides, and the farther may outvote the
\* nearer, but one of them would have given the signal
\* (price_aggregator.py:37-41, signal_engine.py:30-43).
SignalHasMajority ==
  \A market \in MarketIds, book \in Books :
    LET signal == SignalNow(market, book)
        n == Cardinality(Contributors)
        agree == Cardinality({s \in Contributors :
                   BuildSignal(market, book, Whole(latest[s].price)) = signal})
    IN  signal # "none" => IF n = 2 THEN agree >= 1 ELSE 2 * agree > n

\* The edge is taken at the midpoint but the order is priced at the far side of
\* the book: the minimum edge survives that, fee paid, as long as half the
\* spread stays within what slippage and buffer set aside
\* (signal_engine.py:31-43, execution_engine.py:143).
EdgeSurvivesSpread ==
  \A market \in MarketIds, book \in Books :
    LET signal == SignalNow(market, book)
        fair == FairProbability(market, Reference)
        edge == IF signal = "buy" THEN fair - book.ask ELSE book.bid - fair
    IN  signal # "none" /\ book.ask - MidPrice(book)
                              <= SlippageEstimate + ExecutionBuffer
          => edge - TakerFeeEstimate > MinNetEdge

=============================================================================
