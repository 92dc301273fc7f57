----------------------------- MODULE MarketFeed -----------------------------
(***************************************************************************)
(* app/clients/market_data_client.py: the websocket loop with its REST     *)
(* snapshots, the queue it feeds, and what the consumer of the queue       *)
(* (execution_engine.py:119-124) holds as each market's latest snapshot.   *)
(*                                                                         *)
(* A book is its market and the sequence number of the last change it      *)
(* shows; the client does not look at the number.  Two sources show books: *)
(* the websocket, in order but read only when no REST request is awaited,  *)
(* and the REST answers, read by the exchange at one moment and delivered  *)
(* at a later one.  A change need not come as a book: the client takes a   *)
(* message without both best prices, a price_change, for a trade.  Prices  *)
(* are left out, and with them that a book message without best prices is  *)
(* given 0.0 and 1.0.  A message holding several events is several         *)
(* messages here; a message the client makes nothing of and the reconnect  *)
(* gauge are left out.  The exchange is external: it may take the          *)
(* subscription into effect at any time after it was sent, and is not      *)
(* assumed to answer it with the current book.                             *)
(***************************************************************************)
EXTENDS Integers, SequencesExt

CONSTANTS
  MarketIds,      \* market_ids, in the order of the configuration
  ReconnectBase,  \* config.reconnect_base_sec
  ReconnectMax,   \* config.reconnect_max_sec
  MaxSequence,    \* bound: book changes of a market
  MaxFailures     \* bound: connections, requests and sockets that fail

ASSUME FeedAssumption ==
  /\ MarketIds \in Seq(Range(MarketIds))
  /\ MarketIds # << >> /\ IsInjective(MarketIds)
  /\ ReconnectBase \in Nat /\ ReconnectMax \in Nat
  /\ MaxSequence \in Nat \ {0} /\ MaxFailures \in Nat

Markets == Range(MarketIds)

VARIABLES
  running,          \* FALSE once an exception has left run()
  book,             \* the exchange: market -> sequence number of its book
  socket,           \* "closed", "open", or "lost" before the client notices
  subscribed,       \* the exchange pushes the changes of the book
  wire,             \* messages pushed on the socket and not yet read
  client,           \* where run() is, and the markets still to be fetched
  answer,           \* the sequence number in the awaited REST answer, or 0
  backoff,
  event_queue,
  latest_snapshot,  \* market -> sequence number the consumer has, 0 for none
  gaps,             \* history: markets whose snapshot of this connection
                    \* failed or was read before the subscription took effect
  due,              \* history: market -> its book when the last subscription
                    \* took effect, or the last one pushed as a book since
  failures          \* history: what has failed so far

vars == <<running, book, socket, subscribed, wire, client, answer, backoff,
          event_queue, latest_snapshot, gaps, due, failures>>

Message == [type : {"book", "price_change"}, market : Markets,
            sequence : 1 .. MaxSequence]

Event == [type : {"MarketSnapshot", "TradeEvent"}, market : Markets,
          sequence : 1 .. MaxSequence]

Shows(item, market) ==
  item.type \in {"book", "MarketSnapshot"} /\ item.market = market

At(pc) == [pc |-> pc, todo |-> << >>]

Fetching(pc) == [pc |-> pc, todo |-> MarketIds]

Init ==
  /\ running = TRUE
  /\ book = [m \in Markets |-> 1]
  /\ socket = "closed" /\ subscribed = FALSE /\ wire = << >>
  /\ client = At("connect")
  /\ answer = 0
  /\ backoff = ReconnectBase
  /\ event_queue = << >>
  /\ latest_snapshot = [m \in Markets |-> 0]
  /\ gaps = {}
  /\ due = book
  /\ failures = 0

Closed == /\ socket' = "closed" /\ subscribed' = FALSE /\ wire' = << >>

Fails == /\ failures < MaxFailures
         /\ failures' = failures + 1

-----------------------------------------------------------------------------
\* The client.

MarketSnapshot(market, sequence) ==
  [type |-> "MarketSnapshot", market |-> market, sequence |-> sequence]

\* _decode_event; a TradeEvent has no sequence number, and nobody reads it.
DecodeEvent(message) ==
  [message EXCEPT !.type = IF @ = "book" THEN "MarketSnapshot" ELSE "TradeEvent"]

\* Mutant of Connect: the snapshots are not fetched again.
ConnectWithoutRefresh ==
  /\ running /\ client.pc = "connect"
  /\ socket' = "open"
  /\ client' = At("listen")
  /\ gaps' = {}
  /\ UNCHANGED <<running, book, subscribed, wire, answer, backoff,
                 event_queue, latest_snapshot, due, failures>>

\* ws_connect returned and the subscription was sent.
Connect ==
  /\ running /\ client.pc = "connect"
  /\ socket' = "open"
  /\ client' = Fetching("refresh")
  /\ gaps' = {}
  /\ UNCHANGED <<running, book, subscribed, wire, answer, backoff,
                 event_queue, latest_snapshot, due, failures>>

ConnectFails ==
  /\ running /\ client.pc = "connect"
  /\ Fails
  /\ client' = Fetching("refresh after error")
  /\ UNCHANGED <<running, book, socket, subscribed, wire, answer, backoff,
                 event_queue, latest_snapshot, gaps, due>>

\* The next market of _refresh_snapshots, or what follows it.
Fetched ==
  IF Len(client.todo) > 1 THEN [client EXCEPT !.todo = Tail(@)]
  ELSE IF client.pc = "refresh" THEN At("listen")
  ELSE At("sleep")

\* Mutant of SnapshotArrives: what the socket buffered during the refresh is
\* taken to be older than the snapshots and dropped.
SnapshotArrivesDraining ==
  /\ running /\ answer > 0
  /\ event_queue' = Append(event_queue, MarketSnapshot(Head(client.todo), answer))
  /\ client' = Fetched
  /\ wire' = IF Len(client.todo) = 1 THEN << >> ELSE wire
  /\ answer' = 0
  /\ UNCHANGED <<running, book, socket, subscribed, backoff, latest_snapshot,
                 gaps, due, failures>>

SnapshotArrives ==
  /\ running /\ answer > 0
  /\ event_queue' = Append(event_queue, MarketSnapshot(Head(client.todo), answer))
  /\ client' = Fetched
  /\ answer' = 0
  /\ UNCHANGED <<running, book, socket, subscribed, wire, backoff,
                 latest_snapshot, gaps, due, failures>>

\* The request failed with an exception that is only logged, or the book has
\* an empty side: on to the next market.
SnapshotMissing ==
  /\ running /\ client.todo # << >>
  /\ Fails
  /\ client' = Fetched
  /\ answer' = 0
  /\ gaps' = gaps \cup {Head(client.todo)}
  /\ UNCHANGED <<running, book, socket, subscribed, wire, backoff,
                 event_queue, latest_snapshot, due>>

Receive ==
  /\ running /\ client.pc = "listen" /\ wire # << >>
  /\ event_queue' = Append(event_queue, DecodeEvent(Head(wire)))
  /\ wire' = Tail(wire)
  /\ UNCHANGED <<running, book, socket, subscribed, client, answer, backoff,
                 latest_snapshot, gaps, due, failures>>

\* The peer closed the websocket: the loop connects again at once.
StreamEnds ==
  /\ running /\ client.pc = "listen" /\ wire = << >> /\ socket = "lost"
  /\ Closed
  /\ client' = At("connect")
  /\ backoff' = ReconnectBase
  /\ UNCHANGED <<running, book, answer, event_queue, latest_snapshot, gaps,
                 due, failures>>

\* A ClientError: snapshots are fetched without a subscription, then it waits.
StreamFails ==
  /\ running /\ client.pc = "listen" /\ wire = << >> /\ socket = "lost"
  /\ Closed
  /\ client' = Fetching("refresh after error")
  /\ UNCHANGED <<running, book, answer, backoff, event_queue, latest_snapshot,
                 gaps, due, failures>>

\* Mutant of Wake: the doubled backoff is not capped.
WakeUncapped ==
  /\ running /\ client.pc = "sleep"
  /\ client' = At("connect")
  /\ backoff' = backoff * 2
  /\ UNCHANGED <<running, book, socket, subscribed, wire, answer, event_queue,
                 latest_snapshot, gaps, due, failures>>

Wake ==
  /\ running /\ client.pc = "sleep"
  /\ client' = At("connect")
  /\ backoff' = Min({backoff * 2, ReconnectMax})
  /\ UNCHANGED <<running, book, socket, subscribed, wire, answer, event_queue,
                 latest_snapshot, gaps, due, failures>>

\* An exception run() does not catch (a malformed message, a timeout of a
\* request): it ends the application, as gather does.
Escapes ==
  /\ running /\ client.pc # "sleep"
  /\ running' = FALSE
  /\ UNCHANGED <<book, socket, subscribed, wire, client, answer, backoff,
                 event_queue, latest_snapshot, gaps, due, failures>>

-----------------------------------------------------------------------------
\* The consumer and the exchange.

Consume ==
  /\ running /\ event_queue # << >>
  /\ LET event == Head(event_queue)
     IN  latest_snapshot' =
           IF event.type = "MarketSnapshot"
             THEN [latest_snapshot EXCEPT ![event.market] = event.sequence]
             ELSE latest_snapshot
  /\ event_queue' = Tail(event_queue)
  /\ UNCHANGED <<running, book, socket, subscribed, wire, client, answer,
                 backoff, gaps, due, failures>>

\* The change is pushed as a book or as a price_change.
BookChanges(market) ==
  /\ book[market] < MaxSequence
  /\ book' = [book EXCEPT ![market] = @ + 1]
  /\ \E type \in {"book", "price_change"} :
       /\ wire' = IF subscribed
                    THEN Append(wire, [type |-> type, market |-> market,
                                       sequence |-> book'[market]])
                    ELSE wire
       /\ due' = IF subscribed /\ type = "book"
                   THEN [due EXCEPT ![market] = book'[market]] ELSE due
  /\ UNCHANGED <<running, socket, subscribed, client, answer, backoff,
                 event_queue, latest_snapshot, gaps, failures>>

Subscribe ==
  /\ socket = "open" /\ ~subscribed
  /\ subscribed' = TRUE
  /\ due' = book
  /\ UNCHANGED <<running, book, socket, wire, client, answer, backoff,
                 event_queue, latest_snapshot, gaps, failures>>

\* The exchange reads the book for the request the client awaits.
Answer ==
  /\ client.todo # << >> /\ answer = 0
  /\ answer' = book[Head(client.todo)]
  /\ gaps' = IF subscribed THEN gaps ELSE gaps \cup {Head(client.todo)}
  /\ UNCHANGED <<running, book, socket, subscribed, wire, client, backoff,
                 event_queue, latest_snapshot, due, failures>>

\* The connection breaks or is closed; what was under way may be lost.
Drop ==
  /\ socket = "open"
  /\ Fails
  /\ socket' = "lost" /\ subscribed' = FALSE
  /\ \E n \in 0 .. Len(wire) : wire' = SubSeq(wire, 1, n)
  /\ UNCHANGED <<running, book, client, answer, backoff, event_queue,
                 latest_snapshot, gaps, due>>

Client == \/ Connect \/ SnapshotArrives \/ Receive
          \/ StreamEnds \/ StreamFails \/ Wake

Next ==
  \/ Connect
  \/ ConnectFails
  \/ SnapshotArrives
  \/ SnapshotMissing
  \/ Receive
  \/ StreamEnds
  \/ StreamFails
  \/ Wake
  \/ Escapes
  \/ Consume
  \/ \E market \in Markets : BookChanges(market)
  \/ Subscribe
  \/ Answer
  \/ Drop

Spec == Init /\ [][Next]_vars

\* asyncio runs what is ready; a network that has stopped failing connects,
\* subscribes and answers.  Nothing obliges the book to change.
FairSpec == /\ Spec
            /\ WF_vars(Client)
            /\ WF_vars(Consume)
            /\ WF_vars(Subscribe)
            /\ WF_vars(Answer)

-----------------------------------------------------------------------------
\* Properties.

\* Types; a socket exists only while the client is inside _stream, requests
\* are only under way while it refreshes, and the wait before a reconnection
\* stays between the base and the maximum, whichever is the larger
\* (market_data_client.py:44-60).
TypeOK ==
  /\ running \in BOOLEAN /\ subscribed \in BOOLEAN
  /\ book \in [Markets -> 1 .. MaxSequence]
  /\ due \in [Markets -> 1 .. MaxSequence]
  /\ latest_snapshot \in [Markets -> 0 .. MaxSequence]
  /\ wire \in Seq(Message) /\ event_queue \in Seq(Event)
  /\ answer \in 0 .. MaxSequence
  /\ client \in [pc : {"connect", "refresh", "listen", "refresh after error",
                       "sleep"},
                 todo : Seq(Markets)]
  /\ socket = "closed" <=> client.pc \notin {"refresh", "listen"}
  /\ subscribed => socket = "open"
  /\ client.todo # << >> <=> client.pc \in {"refresh", "refresh after error"}
  /\ answer > 0 => client.todo # << >>
  /\ backoff \in Nat
  /\ backoff = ReconnectBase \/ backoff <= ReconnectMax
  /\ backoff >= ReconnectBase \/ backoff >= ReconnectMax
  /\ gaps \subseteq Markets /\ failures \in Nat

\* The snapshot of this connection was read under its subscription.
Covered(market) == /\ socket = "open"
                   /\ market \notin Range(client.todo)
                   /\ market \notin gaps

\* What the consumer will hold of a market once it has worked off the queue
\* and the socket.
Eventual(market) ==
  LET events == event_queue \o wire
      coming == {i \in DOMAIN events : Shows(events[i], market)}
  IN  IF coming = {} THEN latest_snapshot[market]
      ELSE events[Max(coming)].sequence

\* Although sequence numbers are ignored and snapshots overtake messages, the
\* order of connecting, subscribing, fetching and only then reading keeps the
\* newest book last in the pipeline: what remains shows no less than the book at
\* the subscription and every change that was pushed as a book since; a change
\* that came as a price_change is never applied, and a book buffered before it
\* may replace a snapshot that shows it (market_data_client.py:62-78, 89-143).
NewestComesLast ==
  \A market \in Markets : Covered(market) => Eventual(market) >= due[market]

\* When the failures stop, the consumer ends up with that book or a newer one of
\* every market whose snapshot was not missed, or the application has ended; a
\* missed one is not fetched again (market_data_client.py:89-143).
CatchesUp ==
  \A market \in Markets :
    <>[](\/ ~running
         \/ market \in gaps
         \/ latest_snapshot[market] >= due[market])

=============================================================================
