---------------------------- MODULE Reconciliation ----------------------------
(***************************************************************************)
(* app/services/reconciliation_service.py beside the engine: a task of its *)
(* own reads the orders of the exchange, then the local table, reports the *)
(* differences and alerts a webhook (app/services/metrics_server.py:138).  *)
(*                                                                         *)
(* Interleaving.  The exchange reads its orders at one moment (the state   *)
(* "answer" begins), the local table is read when the answer has arrived   *)
(* and the session is closed; in between the engine and the exchange go on.*)
(* The table knows an order by its client order id, here its number; the   *)
(* exchange lists it under that id if it returns one, and under an id of   *)
(* its own otherwise.  Orders of the account that this process did not     *)
(* send (of an earlier run: nothing is persisted) are one order, number 0. *)
(*                                                                         *)
(* Simplifications.  Without an API key, and in a backtest, which starts   *)
(* no tasks, the task does nothing and is "off".  A request or an alert    *)
(* fails with an exception that run() logs (a ClientError, a malformed     *)
(* answer: GetFails, AlertEnds), or with one it does not catch (the        *)
(* TimeoutError of ClientTimeout(total)): then the task takes no further   *)
(* step until the TasksCancelled of ExecutionEngine.                       *)
(***************************************************************************)
EXTENDS ExecutionEngine

CONSTANTS
  ApiKeys,            \* values of "api_key is set" to start with
  ClientIds,          \* values of "the exchange returns client_order_id"
  WebhookUrl,         \* config.webhook.url is set
  ReconcileInterval   \* config.execution.reconciliation_interval_sec, in ticks

ASSUME ReconciliationAssumption ==
  /\ ApiKeys \subseteq BOOLEAN /\ ClientIds \subseteq BOOLEAN
  /\ WebhookUrl \in BOOLEAN
  /\ ReconcileInterval \in Nat

VARIABLES
  client_ids,     \* the exchange lists the orders with their client_order_id
  closed,         \* accepted requests the exchange filled, cancelled or expired
  stray,          \* status of order 0 at the exchange
  reconciler,     \* where run() is suspended, and what its answer holds
  discrepancies,  \* the last reported
  seen            \* history: the differences since the exchange was read

reconcileVars == <<reconciler, discrepancies, seen>>
exchangeVars == <<client_ids, closed, stray>>
systemVars == <<vars, exchangeVars, reconcileVars>>

NoDifference == [missing_remote |-> {}, missing_local |-> {}]

Off == [pc |-> "off", remote |-> {}, wake |-> 0]

Getting == [pc |-> "get", remote |-> {}, wake |-> 0]

SystemInit ==
  /\ Init
  /\ client_ids \in ClientIds
  /\ closed = {}
  /\ stray \in {"open", "done"}
  /\ \E api_key \in ApiKeys :
       reconciler = IF api_key /\ ~Replaying THEN Getting ELSE Off
  /\ discrepancies = NoDifference
  /\ seen = NoDifference

-----------------------------------------------------------------------------
\* The exchange's answer: each order with its status.
Status(order) ==
  IF \E request \in accepted \ closed : request[1] = order THEN "open" ELSE "done"

Listing ==
  [order \in {0} \cup {request[1] : request \in accepted} |->
     IF order = 0 THEN stray ELSE Status(order)]

\* What an order goes by in the listing: its client_order_id or, for want of
\* one, the exchange's own id, which is nobody else's.
Name(order) == IF client_ids THEN order ELSE -order

\* Mutant of RemoteOpen: the status is not looked at.
RemoteOpenAny(listing) == {Name(order) : order \in DOMAIN listing}

RemoteOpen(listing) ==
  {Name(order) : order \in {o \in DOMAIN listing : listing[o] = "open"}}

Compare(remote, local) ==
  [missing_remote |-> local \ remote, missing_local |-> remote \ local]

\* The differences there are between the orders themselves, whoever looks.
Difference ==
  Compare({request[1] : request \in accepted \ closed}
            \cup {order \in {0} : stray = "open"},
          Orders!OpenOrders(orders))

Union(d, e) == [missing_remote |-> d.missing_remote \cup e.missing_remote,
                missing_local |-> d.missing_local \cup e.missing_local]

\* While an answer is under way, what differs is remembered.
Watching == seen' = IF reconciler.pc = "answer" THEN Union(seen, Difference')
                                               ELSE seen

-----------------------------------------------------------------------------
\* ReconciliationService.run

Asleep == [Off EXCEPT !.pc = "sleep",
                      !.wake = IF now + ReconcileInterval > MaxTime THEN MaxTime
                               ELSE now + ReconcileInterval]

\* The exchange reads its orders for the request.
RemoteRead ==
  /\ running /\ reconciler.pc = "get"
  /\ reconciler' = [reconciler EXCEPT !.pc = "answer",
                                      !.remote = RemoteOpen(Listing)]
  /\ seen' = Difference
  /\ UNCHANGED <<vars, exchangeVars, discrepancies>>

\* Mutant of LocalRead: the alert does not look at the result.
LocalReadAlerting ==
  /\ running /\ reconciler.pc = "answer"
  /\ discrepancies' = Compare(reconciler.remote, Orders!OpenOrders(orders))
  /\ reconciler' = IF WebhookUrl THEN [Off EXCEPT !.pc = "alert"] ELSE Asleep
  /\ UNCHANGED <<vars, exchangeVars, seen>>

\* The answer has arrived: the local table is read and the result reported.
LocalRead ==
  LET found == Compare(reconciler.remote, Orders!OpenOrders(orders))
  IN  /\ running /\ reconciler.pc = "answer"
      /\ discrepancies' = found
      /\ reconciler' = IF found # NoDifference /\ WebhookUrl
                         THEN [Off EXCEPT !.pc = "alert"] ELSE Asleep
      /\ UNCHANGED <<vars, exchangeVars, seen>>

\* Mutant of GetFails: the exception is caught outside of the loop.
GetFailsForGood ==
  /\ running /\ reconciler.pc = "get"
  /\ reconciler' = [Off EXCEPT !.pc = "returned"]
  /\ UNCHANGED <<vars, exchangeVars, discrepancies, seen>>

\* One of the exceptions run() logs.  A request whose answer is lost or malformed
\* is one the exchange has not read for.
GetFails ==
  /\ running /\ reconciler.pc = "get"
  /\ reconciler' = Asleep
  /\ UNCHANGED <<vars, exchangeVars, discrepancies, seen>>

\* The alert was sent, or failed with an exception that is only logged.
AlertEnds ==
  /\ running /\ reconciler.pc = "alert"
  /\ reconciler' = Asleep
  /\ UNCHANGED <<vars, exchangeVars, discrepancies, seen>>

ReconcilerWakes ==
  /\ running /\ reconciler.pc = "sleep" /\ now >= reconciler.wake
  /\ reconciler' = Getting
  /\ UNCHANGED <<vars, exchangeVars, discrepancies, seen>>

-----------------------------------------------------------------------------
\* Beside it the engine, and an exchange that is done with orders.

Beside(EngineStep) ==
  /\ EngineStep
  /\ UNCHANGED <<exchangeVars, reconciler, discrepancies>>
  /\ Watching

Engine == Beside(Next)

ExchangeCloses ==
  /\ \/ \E request \in accepted \ closed :
          closed' = closed \cup {request} /\ UNCHANGED stray
     \/ stray = "open" /\ stray' = "done" /\ UNCHANGED closed
  /\ UNCHANGED <<vars, client_ids, reconciler, discrepancies>>
  /\ Watching

SystemNext ==
  \/ Engine
  \/ ExchangeCloses
  \/ RemoteRead
  \/ LocalRead
  \/ GetFails
  \/ AlertEnds
  \/ ReconcilerWakes

SystemSpec == SystemInit /\ [][SystemNext]_systemVars

\* The clock and the event loop run on, an answer that was sent is read, an
\* alert ends (its ClientTimeout), and of the requests not all fail for ever.
\* The engine and the exchange owe nothing.
FairSystemSpec ==
  /\ SystemSpec
  /\ WF_systemVars(Beside(Tick))
  /\ WF_systemVars(ReconcilerWakes)
  /\ WF_systemVars(LocalRead)
  /\ WF_systemVars(AlertEnds)
  /\ SF_systemVars(RemoteRead)

-----------------------------------------------------------------------------
\* Properties.

\* Types, and an answer is held only while the result is due
\* (reconciliation_service.py:52-67).
SystemTypeOK ==
  /\ client_ids \in BOOLEAN
  /\ closed \subseteq accepted
  /\ stray \in {"open", "done"}
  /\ reconciler.pc \in {"off", "get", "answer", "alert", "sleep"}
  /\ reconciler.remote # {} => reconciler.pc = "answer"
  /\ reconciler.pc = "off" => discrepancies = NoDifference
  /\ reconciler.pc = "alert" => WebhookUrl /\ discrepancies # NoDifference
  /\ reconciler.wake \in 0 .. MaxTime

\* What is reported was so at some moment since the exchange read its orders,
\* although the two sides are read at different moments and the engine sends
\* orders in between: if the exchange returns the client's ids, and but for the
\* order the consumer has raised over, which may have been filled before it was
\* rejected.  So it may be for a moment only: an order in flight while the two
\* sides are read is reported as missing at the exchange
\* (reconciliation_service.py:52-64, execution_engine.py:162-191).
Raised == {order \in {task.order} : task.pc = "raised"}

ReportsWereTrue ==
  [][client_ids /\ LocalRead =>
       /\ discrepancies'.missing_remote \subseteq seen.missing_remote
       /\ discrepancies'.missing_local \subseteq seen.missing_local \cup Raised
    ]_systemVars

\* An order reported as unknown here is one this process has not sent; or it is
\* the one whose lost answer has ended the consumer; or the exchange returns ids
\* of its own, under which the table knows no order.  Reading the exchange first
\* and the table second leaves no other moment in which the exchange holds an
\* order the table does not count (reconciliation_service.py:55-64,
\* execution_engine.py:187-191).
OnlyStraysAreUnknown ==
  \A name \in discrepancies.missing_local :
    /\ name > 0 => name \in Raised
    /\ name < 0 => ~client_ids

\* A difference that lasts is reported, again and again, whatever requests fail
\* and however often the alert does; what is unknown here, under the name the
\* exchange gives it (reconciliation_service.py:35-43).
LastingDifferenceReported ==
  \A order \in 0 .. MaxCalls, side \in DOMAIN NoDifference :
    <>[](running /\ reconciler.pc # "off" /\ order \in Difference[side])
      => []<>((IF side = "missing_local" THEN Name(order) ELSE order)
                \in discrepancies[side])

=============================================================================
