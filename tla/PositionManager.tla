--------------------------- MODULE PositionManager ---------------------------
(***************************************************************************)
(* app/services/position_manager.py and PnLEngine.mark_to_market of        *)
(* app/engines/pnl_engine.py: average-cost positions and their valuation,  *)
(* as operators on one position and on a book of them (a function from     *)
(* markets to positions).  Average prices and profits are exact fractions. *)
(* Left out: gauges, Position.unrealized_pnl (only summed) and             *)
(* PnLEngine.record_realized, which nothing calls.                         *)
(***************************************************************************)
EXTENDS Fractions

Position == [quantity: Int, average_price: Fraction, realized_pnl: Fraction]

NoPosition == [quantity |-> 0, average_price |-> Whole(0),
               realized_pnl |-> Whole(0)]

Signed(side, size) == IF side = "buy" THEN size ELSE -size

\* PositionManager.apply_fill on one position.

\* From flat or on the same side: the average price is weighted by the sizes.
Opened(p, signed, price) ==
  [p EXCEPT
    !.average_price = Divided(Plus(Times(AbsInt(p.quantity), @),
                                   Whole(price * AbsInt(signed))),
                              AbsInt(p.quantity) + AbsInt(signed)),
    !.quantity = @ + signed]

\* Mutant of Closed: a short position's profit has the sign of a long one's.
ClosedUnsigned(p, signed, price) ==
  LET closing == IF AbsInt(signed) < AbsInt(p.quantity)
                   THEN AbsInt(signed) ELSE AbsInt(p.quantity)
  IN  [p EXCEPT
        !.realized_pnl = Plus(@, Times(closing,
                                       Minus(Whole(price), p.average_price))),
        !.average_price = IF AbsInt(p.quantity) = AbsInt(signed)
                            THEN Whole(0) ELSE @,
        !.quantity = @ + signed]

\* Mutant of Closed: the closed part is taken off a short position as well.
ClosedWrongWay(p, signed, price) ==
  LET direction == IF p.quantity > 0 THEN 1 ELSE -1
  IN  [p EXCEPT
        !.realized_pnl = Plus(@, Times(AbsInt(signed) * direction,
                                       Minus(Whole(price), p.average_price))),
        !.quantity = @ - AbsInt(signed)]

\* Against the position: the closed part is realized, the average price
\* stays unless the position is flat afterwards.
Closed(p, signed, price) ==
  LET closing == IF AbsInt(signed) < AbsInt(p.quantity)
                   THEN AbsInt(signed) ELSE AbsInt(p.quantity)
      direction == IF p.quantity > 0 THEN 1 ELSE -1
  IN  [p EXCEPT
        !.realized_pnl = Plus(@, Times(closing * direction,
                                       Minus(Whole(price), p.average_price))),
        !.average_price = IF AbsInt(p.quantity) = AbsInt(signed)
                            THEN Whole(0) ELSE @,
        !.quantity = @ + signed]

\* Mutant of ApplyFill: a fill on the other side is averaged in as well.
ApplyFillAlwaysOpens(p, side, size, price) ==
  Opened(p, Signed(side, size), price)

ApplyFill(p, side, size, price) ==
  LET signed == Signed(side, size)
  IN  IF p.quantity = 0 \/ p.quantity * signed > 0
        THEN Opened(p, signed, price)
        ELSE Closed(p, signed, price)

MarketExposureNotional(p) == Magnitude(Times(p.quantity, p.average_price))

\* Mutant of MarkToMarket: a short position is valued as if it were long.
MarkToMarketUnsigned(book, mids) ==
  FoldFunction(Plus, Whole(0),
               [m \in DOMAIN mids |-> Times(AbsInt(book[m].quantity),
                                            Minus(Whole(mids[m]),
                                                  book[m].average_price))])

\* PnLEngine.mark_to_market: the markets without a snapshot are skipped.
MarkToMarket(book, mids) ==
  FoldFunction(Plus, Whole(0),
               [m \in DOMAIN mids |-> Times(book[m].quantity,
                                            Minus(Whole(mids[m]),
                                                  book[m].average_price))])

=============================================================================
