--------------------------- MODULE PortfolioProofs ---------------------------
(***************************************************************************)
(* Proofs about Portfolio, for every set of markets, lot, price and number *)
(* of fills: the money of a market is conserved by every fill, and valuing *)
(* the book adds up over the markets.                                      *)
(***************************************************************************)
EXTENDS Portfolio, Lemmas

\* The books of every market are kept (Kept of Lemmas): the inductive
\* invariant.
IInv ==
  /\ latest_unrealized \in Fraction
  /\ fills \in Nat
  /\ positions \in [Markets -> Position]
  /\ cash \in [Markets -> Int]
  /\ \A m \in Markets : Kept(positions[m], cash[m], Lot)

\* Flat books are kept.
LEMMA InitKept == PortfolioAssumption /\ Init => IInv
<1> SUFFICES ASSUME PortfolioAssumption, Init PROVE IInv
  OBVIOUS
<1>1. /\ NoPosition \in Position /\ NoPosition.quantity = 0
      /\ NoPosition.average_price = Whole(0) /\ NoPosition.realized_pnl = Whole(0)
      /\ Whole(0) \in Fraction
  BY DEF NoPosition, Position, Whole, Fraction
<1>2. Whole(0) = Plus(Whole(0), Times(0, Whole(0)))
  <2>1. /\ Reduced(Whole(0)) /\ Worth(Whole(0), 0, 1)
        /\ 1 \in Nat \ {0} /\ 0 \in Int /\ 0 * 1 + 0 * 0 = 0
    BY WorthWhole DEF Worth, Whole
  <2>2. Worth(Whole(0), 0 * 1 + 0 * 0, 1)
    BY <2>1
  <2> QED
    BY <1>1, <2>1, <2>2, KeptWorth
<1>3. 0 % Lot = 0
  BY DEF PortfolioAssumption
<1>4. Kept(NoPosition, 0, Lot)
  BY <1>1, <1>2, <1>3 DEF Kept
<1>5. \A m \in Markets : positions[m] = NoPosition /\ cash[m] = 0
  BY DEF Init
<1> QED
  BY <1>1, <1>4, <1>5 DEF IInv, Init

\* Fills and valuations keep the books of every market.
LEMMA StepKept == PortfolioAssumption /\ IInv /\ [Next]_vars => IInv'
<1> SUFFICES ASSUME PortfolioAssumption, IInv, [Next]_vars PROVE IInv'
  OBVIOUS
<1>1. CASE UNCHANGED vars
  BY <1>1 DEF vars, IInv
<1>2. ASSUME NEW market \in Markets, NEW side \in {"buy", "sell"},
             NEW price \in FillPrices, Fill(market, side, price)
      PROVE  IInv'
  <2>1. price \in Int
    BY DEF PortfolioAssumption
  <2>2. Kept(positions[market], cash[market], Lot)
    BY DEF IInv
  <2> DEFINE p == ApplyFill(positions[market], side, Lot, price)
             c == cash[market] - Signed(side, Lot) * price
  <2>3. Kept(p, c, Lot)
    BY <2>1, <2>2, FillKept DEF PortfolioAssumption
  <2>4. p \in Position /\ c \in Int
    BY <2>3 DEF Kept
  <2>5. /\ positions' = [positions EXCEPT ![market] = p]
        /\ cash' = [cash EXCEPT ![market] = c]
        /\ fills' = fills + 1 /\ latest_unrealized' = latest_unrealized
    BY <1>2 DEF Fill
  <2> HIDE DEF p, c
  <2>6. \A m \in Markets : Kept(positions'[m], cash'[m], Lot)
    BY <2>3, <2>5 DEF IInv
  <2> QED
    BY <2>4, <2>5, <2>6 DEF IInv
<1>3. ASSUME NEW seen \in SUBSET Markets, NEW mids \in [seen -> Mids], Revalue(mids)
      PROVE  IInv'
  <2>1. DOMAIN mids = seen /\ IsFiniteSet(seen)
    BY FS_Subset DEF PortfolioAssumption
  <2>2. \A m \in DOMAIN mids : positions[m] \in Position /\ mids[m] \in Int
    <3>1. \A m \in Markets : positions[m] \in Position
      BY DEF IInv
    <3>2. \A m \in seen : mids[m] \in Mids
      OBVIOUS
    <3>3. \A x \in Mids : x \in Int
      BY DEF PortfolioAssumption
    <3> QED
      BY <2>1, <3>1, <3>2, <3>3
  <2>3. MarkToMarket(positions, mids) \in Fraction
    BY <2>1, <2>2, MarkTyped
  <2> QED
    BY <1>3, <2>3 DEF Revalue, IInv
<1> QED
  BY <1>1, <1>2, <1>3 DEF Next

\* The books of every market are kept, whatever is filled and however often.
THEOREM BooksAreKept == Spec => []IInv
<1>1. Init => IInv
  BY PortfolioAssumption, InitKept
<1>2. IInv /\ [Next]_vars => IInv'
  BY PortfolioAssumption, StepKept
<1> QED
  BY <1>1, <1>2, PTL DEF Spec

\* Types, and positions only in whole lots (position_manager.py:21-52).
THEOREM TypeCorrect == Spec => []TypeOK
<1>1. IInv => TypeOK
  BY DEF IInv, TypeOK, Kept
<1> QED
  BY <1>1, BooksAreKept, PTL

\* The realized profit of a market is its cash and the cost of what it still holds:
\* no fill makes or loses money (position_manager.py:28-49).
THEOREM MoneyIsConserved == Spec => []PnlIdentity
<1>1. IInv => PnlIdentity
  BY DEF IInv, PnlIdentity, Kept
<1> QED
  BY <1>1, BooksAreKept, PTL

\* A valuation of all markets and the realized profits are together the cash and
\* the value of what is held (pnl_engine.py:20-33).
THEOREM ValuationAddsUp == Spec => ValueAddsUp
<1>1. ASSUME IInv, NEW mids \in [Markets -> Mids], Revalue(mids)
      PROVE  FoldFunction(Plus, latest_unrealized',
                          [m \in Markets |-> positions[m].realized_pnl])
               = Whole(SumFunction([m \in Markets |->
                                      cash[m] + positions[m].quantity * mids[m]]))
  <2>1. mids \in [Markets -> Int]
    <3>1. \A x \in Mids : x \in Int
      BY PortfolioAssumption DEF PortfolioAssumption
    <3> QED
      BY <3>1
  <2>2. latest_unrealized' = MarkToMarket(positions, mids)
    BY <1>1 DEF Revalue
  <2>3. AllKept(positions, cash, Markets, Lot)
    BY <1>1 DEF IInv, AllKept
  <2>4. IsFiniteSet(Markets)
    BY PortfolioAssumption DEF PortfolioAssumption
  <2>5. FoldFunction(Plus, MarkToMarket(positions, mids),
                     [m \in Markets |-> positions[m].realized_pnl])
          = Whole(SumFunction([m \in Markets |->
                                 cash[m] + positions[m].quantity * mids[m]]))
    BY <2>1, <2>3, <2>4, FoldsAddUp
  <2> QED
    BY <2>2, <2>5
<1>2. IInv /\ [Next]_vars =>
        [\A mids \in [Markets -> Mids] :
           Revalue(mids) =>
             FoldFunction(Plus, latest_unrealized',
                          [m \in Markets |-> positions[m].realized_pnl])
               = Whole(SumFunction([m \in Markets |->
                                      cash[m] + positions[m].quantity * mids[m]]))
        ]_vars
  BY <1>1
<1> QED
  BY <1>2, BooksAreKept, PTL DEF Spec, ValueAddsUp

=============================================================================
