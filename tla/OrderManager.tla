----------------------------- MODULE OrderManager -----------------------------
(***************************************************************************)
(* app/services/order_manager.py: the in-memory table of orders.           *)
(*                                                                         *)
(* The table is the sequence of the records in creation order; the client  *)
(* order id of a record is its index, every request getting a fresh uuid   *)
(* (execution_engine.py:150, paper_broker.py:45).  Each method is an       *)
(* operator from the table to the table.  Left out: order_id and the index *)
(* _orders_by_id, which nothing reads, and the fields of a record that     *)
(* nothing reads back (order_type, average_fill_price, metadata), and      *)
(* mark_cancelled, which nothing calls.                                    *)
(***************************************************************************)
EXTENDS Integers, Sequences, FiniteSets

OrderStates == {"pending", "open", "filled", "cancelled", "rejected"}

Record(market, side, size, price) ==
  [market |-> market, side |-> side, size |-> size, price |-> price,
   state |-> "pending", filled |-> 0]

\* The idempotent return of an existing record is never taken: ids are fresh.
CreatePendingOrder(orders, request) ==
  Append(orders, Record(request.market, request.side,
                        request.size, request.price))

\* Mutant of RecordShadowOrder: it gets a state of its own.
RecordShadowOrderApart(orders, request) ==
  Append(orders, [Record(request.market, request.side,
                         request.size, request.price)
                    EXCEPT !.state = "shadow"])

RecordShadowOrder(orders, request) ==
  Append(orders, [Record(request.market, request.side,
                         request.size, request.price)
                    EXCEPT !.state = "open"])

MarkOpen(orders, id) == [orders EXCEPT ![id].state = "open"]

ApplyOrderFill(orders, id, size) ==
  LET filled == orders[id].filled + size
  IN  [orders EXCEPT
        ![id].filled = filled,
        ![id].state = IF filled >= orders[id].size THEN "filled" ELSE "open"]

MarkRejected(orders, id) == [orders EXCEPT ![id].state = "rejected"]

OpenOrders(orders) ==
  {id \in DOMAIN orders : orders[id].state \in {"pending", "open"}}

OpenOrderCount(orders) == Cardinality(OpenOrders(orders))

=============================================================================
