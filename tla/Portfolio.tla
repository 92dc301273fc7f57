------------------------------ MODULE Portfolio ------------------------------
(***************************************************************************)
(* The book of app/services/position_manager.py on its own: positions that *)
(* are filled and revalued, with a ledger of the money the fills moved.    *)
(*                                                                         *)
(* Every fill has the size Lot: PaperBroker, the only maker of fills, fills*)
(* a request whole (paper_broker.py:72-79), and every request has          *)
(* config.signal.default_size.  Prices are integers of a unit small enough *)
(* to hold the midpoints and the slippage.                                 *)
(***************************************************************************)
EXTENDS PositionManager

CONSTANTS
  Markets,
  Lot,        \* config.signal.default_size
  FillPrices, \* prices of fills
  Mids,       \* midpoints of snapshots
  MaxFills    \* bound: fills of a behaviour

ASSUME PortfolioAssumption ==
  /\ IsFiniteSet(Markets)
  /\ Lot \in Nat \ {0}
  /\ FillPrices \subseteq Nat
  /\ Mids \subseteq Nat
  /\ MaxFills \in Nat

VARIABLES
  positions,          \* PositionManager._positions, flat when absent
  latest_unrealized,  \* PnLEngine._latest_unrealized
  fills,              \* history: number of fills
  cash                \* history: what the fills brought in less what they cost

vars == <<positions, latest_unrealized, fills, cash>>

-----------------------------------------------------------------------------
\* The book on its own: any fill at any price, revalued at any moment.

Init ==
  /\ positions = [m \in Markets |-> NoPosition]
  /\ latest_unrealized = Whole(0)
  /\ fills = 0
  /\ cash = [m \in Markets |-> 0]

Fill(market, side, price) ==
  /\ fills < MaxFills
  /\ positions' = [positions EXCEPT
                     ![market] = ApplyFill(@, side, Lot, price)]
  /\ fills' = fills + 1
  /\ cash' = [cash EXCEPT ![market] = @ - Signed(side, Lot) * price]
  /\ UNCHANGED latest_unrealized

Revalue(mids) ==
  /\ latest_unrealized' = MarkToMarket(positions, mids)
  /\ UNCHANGED <<positions, fills, cash>>

Next ==
  \/ \E market \in Markets, side \in {"buy", "sell"}, price \in FillPrices :
       Fill(market, side, price)
  \/ \E seen \in SUBSET Markets : \E mids \in [seen -> Mids] : Revalue(mids)

Spec == Init /\ [][Next]_vars

-----------------------------------------------------------------------------
\* Types; a flat position has no average price and lots never split, so that
\* no position crosses zero without being flat (position_manager.py:19-33).
TypeOK ==
  /\ positions \in [Markets -> Position]
  /\ latest_unrealized \in Fraction
  /\ fills \in Nat
  /\ cash \in [Markets -> Int]
  /\ \A m \in Markets :
       /\ positions[m].quantity % Lot = 0
       /\ positions[m].quantity = 0 => positions[m].average_price = Whole(0)

\* The average-cost bookkeeping loses no money: what a market has realized is
\* its cash flow plus the cost of what is still held, through any sequence of
\* opening, adding, reducing and reversing fills
\* (position_manager.py:16-31).
PnlIdentity ==
  \A m \in Markets :
    positions[m].realized_pnl =
      Plus(Whole(cash[m]),
           Times(positions[m].quantity, positions[m].average_price))

\* Valuing the book at the midpoints adds up: with every market quoted,
\* realized and unrealized profit together are the cash flow plus the holdings
\* at the midpoint (position_manager.py:16-31, pnl_engine.py:46-61).
ValueAddsUp ==
  [][\A mids \in [Markets -> Mids] :
       Revalue(mids) =>
         FoldFunction(Plus, latest_unrealized',
                      [m \in Markets |-> positions[m].realized_pnl])
           = Whole(SumFunction([m \in Markets |->
                                  cash[m] + positions[m].quantity * mids[m]]))
   ]_vars

=============================================================================
