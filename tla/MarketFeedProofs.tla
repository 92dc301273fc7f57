-------------------------- MODULE MarketFeedProofs --------------------------
(***************************************************************************)
(* Proofs about MarketFeed, for every list of markets, any number of book  *)
(* changes, however they are pushed, and any number of failures.           *)
(***************************************************************************)
EXTENDS MarketFeed, SequenceTheorems, TLAPS

-----------------------------------------------------------------------------
\* Reading a sequence of messages or of events.

\* Who holds `before` of the market and reads the sequence s holds `after`.
Ends(s, market, before, after) ==
  \/ /\ \A i \in DOMAIN s : ~Shows(s[i], market)
     /\ after = before
  \/ \E i \in DOMAIN s :
       /\ Shows(s[i], market) /\ s[i].sequence = after
       /\ \A j \in DOMAIN s : j > i => ~Shows(s[j], market)

\* Nothing to read changes nothing.
LEMMA EndsEmpty ==
  ASSUME NEW market, NEW held
  PROVE  Ends(<< >>, market, held, held)
BY DEF Ends

\* One more book of the market is what is held in the end.
LEMMA EndsAppendOwn ==
  ASSUME NEW S, NEW s \in Seq(S), NEW e \in S, NEW market, NEW before,
         Shows(e, market)
  PROVE  Ends(Append(s, e), market, before, e.sequence)
<1> DEFINE t == Append(s, e)
<1>1. /\ t \in Seq(S) /\ Len(t) = Len(s) + 1 /\ t[Len(t)] = e
      /\ Len(t) \in DOMAIN t /\ DOMAIN t = 1 .. Len(t)
  BY AppendProperties, LenProperties
<1> HIDE DEF t
<1>2. \A j \in DOMAIN t : ~(j > Len(t))
  BY <1>1
<1> QED
  BY <1>1, <1>2 DEF Ends, t

\* One more item that shows no book of the market does not change what is held.
LEMMA EndsAppendOther ==
  ASSUME NEW S, NEW s \in Seq(S), NEW e \in S, NEW market, NEW before,
         NEW after, ~Shows(e, market), Ends(s, market, before, after)
  PROVE  Ends(Append(s, e), market, before, after)
<1> DEFINE t == Append(s, e)
<1>1. /\ Len(t) = Len(s) + 1 /\ t[Len(s) + 1] = e
      /\ \A i \in 1 .. Len(s) : t[i] = s[i]
      /\ DOMAIN t = 1 .. Len(t) /\ DOMAIN s = 1 .. Len(s) /\ Len(s) \in Nat
  BY AppendProperties, LenProperties
<1> HIDE DEF t
<1>2. CASE \A i \in DOMAIN s : ~Shows(s[i], market)
  <2>1. after = before
    BY <1>2 DEF Ends
  <2>2. \A i \in DOMAIN t : ~Shows(t[i], market)
    <3> SUFFICES ASSUME NEW i \in DOMAIN t PROVE ~Shows(t[i], market)
      OBVIOUS
    <3>1. CASE i = Len(s) + 1
      BY <1>1, <3>1
    <3>2. CASE i # Len(s) + 1
      BY <1>1, <1>2, <3>2
    <3> QED
      BY <3>1, <3>2
  <2> QED
    BY <2>1, <2>2 DEF Ends, t
<1>3. CASE ~ \A i \in DOMAIN s : ~Shows(s[i], market)
  <2>1. PICK i \in DOMAIN s : /\ Shows(s[i], market) /\ s[i].sequence = after
                              /\ \A j \in DOMAIN s : j > i => ~Shows(s[j], market)
    BY <1>3 DEF Ends
  <2>2. i \in DOMAIN t /\ t[i] = s[i]
    BY <1>1
  <2>3. \A j \in DOMAIN t : j > i => ~Shows(t[j], market)
    <3> SUFFICES ASSUME NEW j \in DOMAIN t, j > i PROVE ~Shows(t[j], market)
      OBVIOUS
    <3>1. CASE j = Len(s) + 1
      BY <1>1, <3>1
    <3>2. CASE j # Len(s) + 1
      BY <1>1, <2>1, <3>2
    <3> QED
      BY <3>1, <3>2
  <2> QED
    BY <2>1, <2>2, <2>3 DEF Ends, t
<1> QED
  BY <1>2, <1>3

\* Who has read the head of s holds it, and still ends with the same.
LEMMA EndsTail ==
  ASSUME NEW S, NEW s \in Seq(S), s # << >>, NEW market, NEW before, NEW after,
         Ends(s, market, before, after)
  PROVE  Ends(Tail(s), market,
              IF Shows(Head(s), market) THEN Head(s).sequence ELSE before, after)
<1> DEFINE t == Tail(s)
           held == IF Shows(Head(s), market) THEN Head(s).sequence ELSE before
<1>1. /\ Len(t) = Len(s) - 1 /\ Head(s) = s[1]
      /\ \A i \in 1 .. Len(t) : t[i] = s[i + 1]
      /\ DOMAIN t = 1 .. Len(t) /\ DOMAIN s = 1 .. Len(s) /\ Len(s) \in Nat
      /\ Len(s) > 0
  BY HeadTailProperties, LenProperties, EmptySeq
<1> HIDE DEF t
<1>2. CASE \A i \in DOMAIN s : ~Shows(s[i], market)
  <2>1. after = before
    BY <1>2 DEF Ends
  <2>2. ~Shows(Head(s), market)
    BY <1>1, <1>2
  <2>3. \A i \in DOMAIN t : ~Shows(t[i], market)
    BY <1>1, <1>2
  <2> QED
    BY <2>1, <2>2, <2>3 DEF Ends, t
<1>3. CASE ~ \A i \in DOMAIN s : ~Shows(s[i], market)
  <2>1. PICK i \in DOMAIN s : /\ Shows(s[i], market) /\ s[i].sequence = after
                              /\ \A j \in DOMAIN s : j > i => ~Shows(s[j], market)
    BY <1>3 DEF Ends
  <2>2. CASE i = 1
    <3>1. held = after
      BY <1>1, <2>1, <2>2
    <3>2. \A j \in DOMAIN t : ~Shows(t[j], market)
      BY <1>1, <2>1, <2>2
    <3> QED
      BY <3>1, <3>2 DEF Ends, t
  <2>3. CASE i # 1
    <3>1. i - 1 \in DOMAIN t /\ t[i - 1] = s[i]
      BY <1>1, <2>3
    <3>2. ASSUME NEW j \in DOMAIN t, j > i - 1 PROVE ~Shows(t[j], market)
      <4>1. j + 1 \in DOMAIN s /\ j + 1 > i /\ t[j] = s[j + 1]
        BY <1>1, <3>2
      <4> QED
        BY <2>1, <4>1
    <3> QED
      BY <2>1, <3>1, <3>2 DEF Ends, t
  <2> QED
    BY <2>2, <2>3
<1> QED
  BY <1>2, <1>3

\* What is held in the end is held as well by who held it before.
LEMMA EndsAgain ==
  ASSUME NEW s, NEW market, NEW before, NEW after, Ends(s, market, before, after)
  PROVE  Ends(s, market, after, after)
BY DEF Ends

\* Reading one sequence after the other.
LEMMA EndsConcat ==
  ASSUME NEW S, NEW s \in Seq(S), NEW t \in Seq(S), NEW market,
         NEW before, NEW between, NEW after,
         Ends(s, market, before, between), Ends(t, market, between, after)
  PROVE  Ends(s \o t, market, before, after)
<1> DEFINE st == s \o t
<1>1. /\ Len(st) = Len(s) + Len(t) /\ Len(s) \in Nat /\ Len(t) \in Nat
      /\ \A i \in 1 .. Len(s) : st[i] = s[i]
      /\ \A i \in 1 .. Len(t) : st[Len(s) + i] = t[i]
      /\ DOMAIN st = 1 .. Len(st) /\ DOMAIN s = 1 .. Len(s) /\ DOMAIN t = 1 .. Len(t)
  <2>1. /\ st \in Seq(S) /\ Len(st) = Len(s) + Len(t)
        /\ \A i \in 1 .. Len(s) + Len(t) :
             st[i] = IF i <= Len(s) THEN s[i] ELSE t[i - Len(s)]
    BY ConcatProperties
  <2>2. /\ Len(s) \in Nat /\ Len(t) \in Nat
        /\ DOMAIN st = 1 .. Len(st) /\ DOMAIN s = 1 .. Len(s) /\ DOMAIN t = 1 .. Len(t)
    BY <2>1, LenProperties
  <2> HIDE DEF st
  <2>3. \A i \in 1 .. Len(s) : st[i] = s[i]
    BY <2>1, <2>2
  <2>4. ASSUME NEW i \in 1 .. Len(t) PROVE st[Len(s) + i] = t[i]
    <3>1. /\ Len(s) + i \in 1 .. Len(s) + Len(t) /\ ~(Len(s) + i <= Len(s))
          /\ (Len(s) + i) - Len(s) = i
      BY <2>2
    <3> QED
      BY <2>1, <3>1
  <2> QED
    BY <2>1, <2>2, <2>3, <2>4
<1> HIDE DEF st
<1>2. CASE \E i \in DOMAIN t : /\ Shows(t[i], market) /\ t[i].sequence = after
                               /\ \A j \in DOMAIN t : j > i => ~Shows(t[j], market)
  <2>1. PICK i \in DOMAIN t : /\ Shows(t[i], market) /\ t[i].sequence = after
                              /\ \A j \in DOMAIN t : j > i => ~Shows(t[j], market)
    BY <1>2
  <2>2. Len(s) + i \in DOMAIN st /\ st[Len(s) + i] = t[i]
    BY <1>1
  <2>3. ASSUME NEW j \in DOMAIN st, j > Len(s) + i PROVE ~Shows(st[j], market)
    <3>1. j - Len(s) \in 1 .. Len(t) /\ j - Len(s) > i /\ Len(s) + (j - Len(s)) = j
      BY <1>1, <2>3
    <3> QED
      BY <1>1, <2>1, <3>1
  <2> QED
    BY <2>1, <2>2, <2>3 DEF Ends, st
<1>3. CASE /\ \A i \in DOMAIN t : ~Shows(t[i], market)
           /\ after = between
  <2>1. ASSUME NEW j \in DOMAIN st, j > Len(s) PROVE ~Shows(st[j], market)
    <3>1. j - Len(s) \in 1 .. Len(t) /\ Len(s) + (j - Len(s)) = j
      BY <1>1, <2>1
    <3> QED
      BY <1>1, <1>3, <3>1
  <2>2. CASE /\ \A i \in DOMAIN s : ~Shows(s[i], market)
             /\ between = before
    <3>1. \A j \in DOMAIN st : ~Shows(st[j], market)
      BY <1>1, <2>1, <2>2
    <3> QED
      BY <1>3, <2>2, <3>1 DEF Ends, st
  <2>3. CASE \E i \in DOMAIN s :
               /\ Shows(s[i], market) /\ s[i].sequence = between
               /\ \A j \in DOMAIN s : j > i => ~Shows(s[j], market)
    <3>1. PICK i \in DOMAIN s :
            /\ Shows(s[i], market) /\ s[i].sequence = between
            /\ \A j \in DOMAIN s : j > i => ~Shows(s[j], market)
      BY <2>3
    <3>2. i \in DOMAIN st /\ st[i] = s[i]
      BY <1>1
    <3>3. \A j \in DOMAIN st : j > i => ~Shows(st[j], market)
      BY <1>1, <2>1, <3>1
    <3> QED
      BY <1>3, <3>1, <3>2, <3>3 DEF Ends, st
  <2> QED
    BY <2>2, <2>3 DEF Ends
<1> QED
  BY <1>2, <1>3 DEF Ends

\* Who ends with `after` has it as the sequence number of the last book.
LEMMA EndsMax ==
  ASSUME NEW S, NEW s \in Seq(S), NEW market, NEW before, NEW after,
         Ends(s, market, before, after)
  PROVE  LET coming == {i \in DOMAIN s : Shows(s[i], market)}
         IN  IF coming = {} THEN after = before
             ELSE s[Max(coming)].sequence = after
<1> DEFINE coming == {i \in DOMAIN s : Shows(s[i], market)}
<1>0. DOMAIN s \subseteq Int
  BY LenProperties
<1>1. CASE \A i \in DOMAIN s : ~Shows(s[i], market)
  BY <1>1 DEF Ends
<1>2. CASE ~ \A i \in DOMAIN s : ~Shows(s[i], market)
  <2>1. PICK i \in DOMAIN s : /\ Shows(s[i], market) /\ s[i].sequence = after
                              /\ \A j \in DOMAIN s : j > i => ~Shows(s[j], market)
    BY <1>2 DEF Ends
  <2>2. i \in coming /\ \A j \in coming : i >= j
    BY <1>0, <2>1
  <2> HIDE DEF coming
  <2>3. coming \subseteq Int
    BY <1>0 DEF coming
  <2>4. Max(coming) \in coming /\ \A j \in coming : Max(coming) >= j
    BY <2>2 DEF Max
  <2>5. Max(coming) = i
    BY <2>2, <2>3, <2>4
  <2> QED
    BY <2>1, <2>2, <2>5 DEF coming
<1> QED
  BY <1>1, <1>2

-----------------------------------------------------------------------------
\* The inductive invariant.

\* The socket shows the book that is due last, and nothing without a
\* subscription; the book is no older than the one that is due.
SocketInv ==
  /\ \A m \in Markets : due[m] <= book[m]
  /\ socket = "open" => \A m \in Markets : Ends(wire, m, due[m], due[m])
  /\ ~subscribed /\ socket # "lost" => wire = << >>

\* The socket leads who holds a book to the one that is due, or a newer one.
Reaches(m, held) ==
  \E after \in 0 .. MaxSequence : after >= due[m] /\ Ends(wire, m, held, after)

\* A snapshot that was not missed is one read under the subscription, and the
\* books pushed since then are on the socket.
FetchInv ==
  socket = "open" =>
    /\ \A m \in Markets : m \notin Range(client.todo) \cup gaps => subscribed
    /\ answer > 0 /\ Head(client.todo) \notin gaps =>
         subscribed /\ Reaches(Head(client.todo), answer)

\* From what the consumer holds the queue leads to something from which the
\* socket reaches what is due.
Leads(m) ==
  \E between \in 0 .. MaxSequence :
    Ends(event_queue, m, latest_snapshot[m], between) /\ Reaches(m, between)

\* It does so for the markets whose snapshot of this connection was read.
PipelineInv == \A m \in Markets : Covered(m) => Leads(m)

IInv == TypeOK /\ SocketInv /\ FetchInv /\ PipelineInv

-----------------------------------------------------------------------------
\* Types.

\* The list of markets is one of markets, and names all of them.
LEMMA MarketsOfConfig == /\ MarketIds \in Seq(Markets) /\ MarketIds # << >>
                         /\ Range(MarketIds) = Markets
BY FeedAssumption DEF FeedAssumption, Markets

\* A sequence is its head and its tail.
LEMMA HeadAndTail ==
  ASSUME NEW S, NEW s \in Seq(S), s # << >>
  PROVE  /\ Head(s) \in S /\ Tail(s) \in Seq(S)
         /\ Tail(s) = << >> <=> ~(Len(s) > 1)
         /\ Range(s) = Range(Tail(s)) \cup {Head(s)}
<1> DEFINE t == Tail(s)
<1>1. /\ Head(s) \in S /\ t \in Seq(S) /\ Len(t) = Len(s) - 1
      /\ \A i \in 1 .. Len(t) : t[i] = s[i + 1]
  BY HeadTailProperties
<1>2. /\ Len(s) \in Nat /\ DOMAIN s = 1 .. Len(s) /\ DOMAIN t = 1 .. Len(t)
  BY <1>1, LenProperties
<1>0. Len(s) > 0 /\ Head(s) = s[1]
  BY EmptySeq
<1> HIDE DEF t
<1>3. t = << >> <=> Len(t) = 0
  BY <1>1, EmptySeq
<1>4. t = << >> <=> ~(Len(s) > 1)
  BY <1>1, <1>2, <1>3
<1>5. ASSUME NEW x \in Range(s) PROVE x \in Range(t) \cup {s[1]}
  <2>1. PICK i \in DOMAIN s : x = s[i]
    BY <1>5 DEF Range
  <2>2. CASE i = 1
    BY <2>1, <2>2
  <2>3. CASE i # 1
    <3>1. i - 1 \in DOMAIN t /\ t[i - 1] = x
      BY <1>1, <1>2, <2>1, <2>3
    <3> QED
      BY <3>1 DEF Range
  <2> QED
    BY <2>2, <2>3
<1>6. ASSUME NEW x \in Range(t) \cup {s[1]} PROVE x \in Range(s)
  <2>1. CASE x = s[1]
    <3>1. 1 \in DOMAIN s
      BY <1>0, <1>2
    <3> QED
      BY <2>1, <3>1 DEF Range
  <2>2. CASE x \in Range(t)
    <3>1. PICK i \in DOMAIN t : x = t[i]
      BY <2>2 DEF Range
    <3>2. i + 1 \in DOMAIN s /\ s[i + 1] = x
      BY <1>1, <1>2, <3>1
    <3> QED
      BY <3>2 DEF Range
  <2> QED
    BY <1>6, <2>1, <2>2
<1>7. Range(s) = Range(t) \cup {Head(s)}
  BY <1>0, <1>5, <1>6
<1> QED
  BY <1>1, <1>4, <1>7 DEF t

\* The markets still to be fetched after the next one.
LEMMA FetchedTyped ==
  ASSUME TypeOK, client.todo # << >>
  PROVE  /\ Head(client.todo) \in Markets
         /\ Fetched \in [pc : {"refresh", "listen", "refresh after error", "sleep"},
                         todo : Seq(Markets)]
         /\ Fetched.todo # << >> <=> Fetched.pc \in {"refresh", "refresh after error"}
         /\ Fetched.pc \in {"refresh", "listen"} <=> client.pc \in {"refresh", "listen"}
         /\ Range(client.todo) = Range(Fetched.todo) \cup {Head(client.todo)}
<1> DEFINE todo == client.todo
           rest == Tail(todo)
<1>1. /\ todo \in Seq(Markets) /\ client.pc \in {"refresh", "refresh after error"}
      /\ client = [pc |-> client.pc, todo |-> todo]
  BY DEF TypeOK
<1> HIDE DEF todo
<1>2. /\ Head(todo) \in Markets /\ rest \in Seq(Markets)
      /\ rest = << >> <=> ~(Len(todo) > 1)
      /\ Range(todo) = Range(rest) \cup {Head(todo)}
  <2>1. todo # << >>
    BY DEF todo
  <2> QED
    BY <1>1, <2>1, HeadAndTail
<1> HIDE DEF rest
<1>3. Fetched = [pc |-> IF Len(todo) > 1 THEN client.pc
                        ELSE IF client.pc = "refresh" THEN "listen" ELSE "sleep",
                 todo |-> rest]
  <2>1. CASE Len(todo) > 1
    <3>1. Fetched = [client EXCEPT !.todo = rest]
      BY <2>1 DEF Fetched, todo, rest
    <3> QED
      BY <1>1, <2>1, <3>1
  <2>2. CASE ~(Len(todo) > 1)
    BY <1>2, <2>2 DEF Fetched, At, todo
  <2> QED
    BY <2>1, <2>2
<1> QED
  BY <1>1, <1>2, <1>3 DEF todo

\* TypeOK in three parts: the types of what is passed on,
Values ==
  /\ running \in BOOLEAN /\ subscribed \in BOOLEAN
  /\ book \in [Markets -> 1 .. MaxSequence]
  /\ due \in [Markets -> 1 .. MaxSequence]
  /\ latest_snapshot \in [Markets -> 0 .. MaxSequence]
  /\ wire \in Seq(Message) /\ event_queue \in Seq(Event)
  /\ answer \in 0 .. MaxSequence
  /\ backoff \in Nat
  /\ backoff = ReconnectBase \/ backoff <= ReconnectMax
  /\ backoff >= ReconnectBase \/ backoff >= ReconnectMax
  /\ gaps \subseteq Markets /\ failures \in Nat

\* where the client is,
Position ==
  /\ client \in [pc : {"connect", "refresh", "listen", "refresh after error",
                       "sleep"},
                 todo : Seq(Markets)]
  /\ socket = "closed" <=> client.pc \notin {"refresh", "listen"}
  /\ subscribed => socket = "open"
  /\ client.todo # << >> <=> client.pc \in {"refresh", "refresh after error"}

\* and that an answer is awaited for a market.
Awaiting == answer > 0 => client.todo # << >>

\* The three parts are TypeOK.
LEMMA TypeParts == TypeOK <=> Values /\ Position /\ Awaiting
BY DEF TypeOK, Values, Position, Awaiting

\* The first state has the types.
LEMMA InitTyped == Init => TypeOK
<1> SUFFICES ASSUME Init PROVE Values /\ Position /\ Awaiting
  BY TypeParts
<1>1. /\ << >> \in Seq(Message) /\ << >> \in Seq(Event) /\ << >> \in Seq(Markets)
      /\ MaxSequence \in Nat \ {0}
      /\ ReconnectBase \in Nat /\ ReconnectMax \in Nat
  BY EmptySeq, FeedAssumption DEF FeedAssumption
<1>2. Values
  <2>1. running \in BOOLEAN /\ subscribed \in BOOLEAN
    BY DEF Init
  <2>2. /\ book \in [Markets -> 1 .. MaxSequence] /\ due = book
        /\ latest_snapshot \in [Markets -> 0 .. MaxSequence]
        /\ answer \in 0 .. MaxSequence
    BY <1>1 DEF Init
  <2>3. /\ wire \in Seq(Message) /\ event_queue \in Seq(Event)
        /\ backoff = ReconnectBase
        /\ gaps \subseteq Markets /\ failures \in Nat
    BY <1>1 DEF Init
  <2> QED
    BY <1>1, <2>1, <2>2, <2>3 DEF Values
<1>3. Position
  BY <1>1 DEF Init, Position, At
<1>4. Awaiting
  BY DEF Init, Awaiting
<1> QED
  BY <1>2, <1>3, <1>4

\* What a message is decoded to, and what that shows.
LEMMA Decoded ==
  ASSUME NEW message \in Message, NEW m
  PROVE  /\ DecodeEvent(message) \in Event
         /\ Shows(DecodeEvent(message), m) <=> Shows(message, m)
         /\ DecodeEvent(message).sequence = message.sequence
BY DEF DecodeEvent, Message, Event, Shows

\* Every step keeps the types.
LEMMA StepTyped ==
  ASSUME TypeOK, [Next]_vars
  PROVE  TypeOK'
<1> SUFFICES Values' /\ Position' /\ Awaiting'
  <2>1. TypeOK' <=> Values' /\ Position' /\ Awaiting'
    BY DEF TypeOK, Values, Position, Awaiting
  <2> QED
    BY <2>1
<1>p. Values /\ Position /\ Awaiting
  BY TypeParts
<1>0. /\ << >> \in Seq(Message) /\ << >> \in Seq(Event) /\ << >> \in Seq(Markets)
      /\ MaxSequence \in Nat \ {0}
      /\ ReconnectBase \in Nat /\ ReconnectMax \in Nat
  BY EmptySeq, FeedAssumption DEF FeedAssumption
<1>a. ASSUME Fails PROVE failures' \in Nat
  BY <1>p, <1>0, <1>a DEF Values, Fails
<1>1. CASE Connect
  <2>1. Values'
    BY <1>p, <1>0, <1>1 DEF Values, Connect
  <2>2. Position'
    BY <1>p, <1>0, <1>1, MarketsOfConfig DEF Position, Connect, Fetching
  <2>3. Awaiting'
    BY <1>1, MarketsOfConfig DEF Awaiting, Connect, Fetching
  <2> QED
    BY <2>1, <2>2, <2>3
<1>2. CASE ConnectFails
  <2>1. Values'
    BY <1>p, <1>0, <1>2, <1>a DEF Values, ConnectFails
  <2>2. Position'
    BY <1>p, <1>0, <1>2, MarketsOfConfig DEF Position, ConnectFails, Fetching
  <2>3. Awaiting'
    BY <1>2, MarketsOfConfig DEF Awaiting, ConnectFails, Fetching
  <2> QED
    BY <2>1, <2>2, <2>3
<1>3. CASE SnapshotArrives
  <2> DEFINE event == MarketSnapshot(Head(client.todo), answer)
             f == Fetched
  <2>1. answer > 0
    BY <1>3 DEF SnapshotArrives
  <2>2. client.todo # << >> /\ answer \in 1 .. MaxSequence
    <3>1. answer \in 0 .. MaxSequence
      BY <1>p DEF Values
    <3>2. client.todo # << >>
      BY <1>p, <2>1 DEF Awaiting
    <3> QED
      BY <1>0, <2>1, <3>1, <3>2
  <2>3. /\ f \in [pc : {"refresh", "listen", "refresh after error", "sleep"},
                  todo : Seq(Markets)]
        /\ f.todo # << >> <=> f.pc \in {"refresh", "refresh after error"}
        /\ f.pc \in {"refresh", "listen"} <=> client.pc \in {"refresh", "listen"}
        /\ Head(client.todo) \in Markets
    BY <2>2, FetchedTyped
  <2>4. event \in Event
    BY <2>2, <2>3 DEF Event, MarketSnapshot
  <2>5. client' = f /\ event_queue' = Append(event_queue, event)
    BY <1>3 DEF SnapshotArrives
  <2> HIDE DEF f, event
  <2>6. Values'
    <3>1. event_queue' \in Seq(Event)
      BY <1>p, <1>0, <2>4, <2>5, AppendProperties DEF Values
    <3> QED
      BY <1>p, <1>0, <1>3, <3>1 DEF Values, SnapshotArrives
  <2>7. Position'
    BY <1>p, <1>3, <2>3, <2>5 DEF Position, SnapshotArrives
  <2>8. Awaiting'
    BY <1>3 DEF Awaiting, SnapshotArrives
  <2> QED
    BY <2>6, <2>7, <2>8
<1>4. CASE SnapshotMissing
  <2> DEFINE f == Fetched
  <2>1. client.todo # << >>
    BY <1>4 DEF SnapshotMissing
  <2>2. /\ f \in [pc : {"refresh", "listen", "refresh after error", "sleep"},
                  todo : Seq(Markets)]
        /\ f.todo # << >> <=> f.pc \in {"refresh", "refresh after error"}
        /\ f.pc \in {"refresh", "listen"} <=> client.pc \in {"refresh", "listen"}
        /\ Head(client.todo) \in Markets
    BY <2>1, FetchedTyped
  <2>3. client' = f
    BY <1>4 DEF SnapshotMissing
  <2> HIDE DEF f
  <2>4. Values'
    <3>1. failures' \in Nat
      BY <1>4, <1>a DEF SnapshotMissing
    <3>2. answer' = 0 /\ answer' \in 0 .. MaxSequence
      BY <1>0, <1>4 DEF SnapshotMissing
    <3>3. gaps' \subseteq Markets
      BY <1>p, <1>4, <2>2 DEF Values, SnapshotMissing
    <3> QED
      BY <1>p, <1>4, <3>1, <3>2, <3>3 DEF Values, SnapshotMissing
  <2>5. Position'
    BY <1>p, <1>4, <2>2, <2>3 DEF Position, SnapshotMissing
  <2>6. Awaiting'
    BY <1>4 DEF Awaiting, SnapshotMissing
  <2> QED
    BY <2>4, <2>5, <2>6
<1>5. CASE Receive
  <2>1. wire # << >> /\ wire \in Seq(Message) /\ event_queue \in Seq(Event)
    BY <1>p, <1>0, <1>5 DEF Values, Receive
  <2>2. /\ Append(event_queue, DecodeEvent(Head(wire))) \in Seq(Event)
        /\ Tail(wire) \in Seq(Message)
    <3>1. Head(wire) \in Message /\ Tail(wire) \in Seq(Message)
      BY <2>1, HeadTailProperties
    <3>2. DecodeEvent(Head(wire)) \in Event
      BY <3>1, Decoded
    <3> QED
      BY <2>1, <3>1, <3>2, AppendProperties
  <2>3. Values'
    BY <1>p, <1>0, <1>5, <2>2 DEF Values, Receive
  <2>4. Position'
    BY <1>p, <1>0, <1>5 DEF Position, Receive
  <2>5. Awaiting'
    BY <1>p, <1>5 DEF Awaiting, Receive
  <2> QED
    BY <2>3, <2>4, <2>5
<1>6. CASE StreamEnds \/ StreamFails
  <2>1. Values'
    <3>1. CASE StreamEnds
      <4>1. backoff' = ReconnectBase /\ backoff' \in Nat /\ backoff' >= ReconnectBase
        BY <1>0, <3>1 DEF StreamEnds
      <4>2. wire' \in Seq(Message) /\ subscribed' \in BOOLEAN
        BY <1>0, <3>1 DEF StreamEnds, Closed
      <4>3. UNCHANGED <<running, book, due, latest_snapshot, event_queue, answer,
                        gaps, failures>>
        BY <3>1 DEF StreamEnds
      <4> QED
        BY <1>p, <4>1, <4>2, <4>3 DEF Values
    <3>2. CASE StreamFails
      BY <1>p, <1>0, <3>2 DEF Values, StreamFails, Closed
    <3> QED
      BY <1>6, <3>1, <3>2
  <2>2. Position'
    <3>1. CASE StreamEnds
      BY <1>0, <3>1 DEF Position, StreamEnds, Closed, At
    <3>2. CASE StreamFails
      BY <3>2, MarketsOfConfig DEF Position, StreamFails, Closed, Fetching
    <3> QED
      BY <1>6, <3>1, <3>2
  <2>3. Awaiting'
    <3>1. ~(answer > 0)
      BY <1>p, <1>6 DEF Position, Awaiting, StreamEnds, StreamFails
    <3> QED
      BY <1>6, <3>1 DEF Awaiting, StreamEnds, StreamFails
  <2> QED
    BY <2>1, <2>2, <2>3
<1>8. CASE Wake
  <2>1. /\ backoff' \in Nat /\ backoff' <= ReconnectMax
        /\ backoff' >= ReconnectBase \/ backoff' >= ReconnectMax
    <3> DEFINE both == {backoff * 2, ReconnectMax}
    <3>1. /\ backoff \in Nat
          /\ backoff >= ReconnectBase \/ backoff >= ReconnectMax
      BY <1>p DEF Values
    <3>2. \E x \in both : \A y \in both : x =< y
      BY <1>0, <3>1
    <3>3. Min(both) \in both /\ \A y \in both : Min(both) =< y
      BY <3>2 DEF Min
    <3>4. backoff' = Min(both)
      BY <1>8 DEF Wake
    <3> QED
      BY <1>0, <3>1, <3>3, <3>4
  <2>2. Values'
    BY <1>p, <1>0, <1>8, <2>1 DEF Values, Wake
  <2>3. Position'
    BY <1>p, <1>0, <1>8 DEF Position, Wake, At
  <2>4. Awaiting'
    <3>1. ~(answer > 0)
      BY <1>p, <1>8 DEF Position, Awaiting, Wake
    <3> QED
      BY <1>8, <3>1 DEF Awaiting, Wake
  <2> QED
    BY <2>2, <2>3, <2>4
<1>9. CASE Escapes \/ Subscribe \/ UNCHANGED vars
  <2>1. Values'
    BY <1>p, <1>0, <1>9 DEF Values, Escapes, Subscribe, vars
  <2>2. Position'
    <3>1. CASE Escapes
      BY <1>p, <3>1 DEF Position, Escapes
    <3>2. CASE Subscribe
      BY <1>p, <3>2 DEF Position, Subscribe
    <3>3. CASE UNCHANGED vars
      BY <1>p, <3>3 DEF Position, vars
    <3> QED
      BY <1>9, <3>1, <3>2, <3>3
  <2>3. Awaiting'
    BY <1>p, <1>9 DEF Awaiting, Escapes, Subscribe, vars
  <2> QED
    BY <2>1, <2>2, <2>3
<1>10. CASE Consume
  <2> DEFINE event == Head(event_queue)
  <2>1. event_queue # << >> /\ event_queue \in Seq(Event)
    BY <1>p, <1>0, <1>10 DEF Values, Consume
  <2>2. event \in Event /\ Tail(event_queue) \in Seq(Event)
    BY <2>1, HeadTailProperties
  <2>3. latest_snapshot' = IF event.type = "MarketSnapshot"
          THEN [latest_snapshot EXCEPT ![event.market] = event.sequence]
          ELSE latest_snapshot
    BY <1>10 DEF Consume
  <2> HIDE DEF event
  <2>4. event.sequence \in 0 .. MaxSequence
    BY <1>p, <1>0, <2>2 DEF Event
  <2>5. latest_snapshot' \in [Markets -> 0 .. MaxSequence]
    BY <1>p, <1>0, <2>3, <2>4 DEF Values
  <2>6. Values'
    BY <1>p, <1>0, <1>10, <2>2, <2>5 DEF Values, Consume
  <2>7. Position'
    BY <1>p, <1>0, <1>10 DEF Position, Consume
  <2>8. Awaiting'
    BY <1>p, <1>10 DEF Awaiting, Consume
  <2> QED
    BY <2>6, <2>7, <2>8
<1>11. ASSUME NEW m \in Markets, BookChanges(m) PROVE Values' /\ Position' /\ Awaiting'
  <2>1. /\ book[m] < MaxSequence /\ book[m] \in 1 .. MaxSequence
        /\ book' = [book EXCEPT ![m] = book[m] + 1]
    BY <1>p, <1>0, <1>11 DEF Values, BookChanges
  <2>2. /\ book' \in [Markets -> 1 .. MaxSequence]
        /\ book'[m] \in 1 .. MaxSequence
    BY <1>p, <1>0, <2>1 DEF Values
  <2>3. PICK type \in {"book", "price_change"} :
          /\ wire' = IF subscribed
                       THEN Append(wire, [type |-> type, market |-> m,
                                          sequence |-> book'[m]])
                       ELSE wire
          /\ due' = IF subscribed /\ type = "book"
                      THEN [due EXCEPT ![m] = book'[m]] ELSE due
    BY <1>11 DEF BookChanges
  <2> DEFINE message == [type |-> type, market |-> m, sequence |-> book'[m]]
  <2>a. message \in Message
    BY <2>2 DEF Message
  <2>b. wire' = IF subscribed THEN Append(wire, message) ELSE wire
    BY <2>3
  <2> HIDE DEF message
  <2>4. wire' \in Seq(Message)
    BY <1>p, <2>a, <2>b, AppendProperties DEF Values
  <2>c. due' \in [Markets -> 1 .. MaxSequence]
    BY <1>p, <2>2, <2>3 DEF Values
  <2>5. Values'
    BY <1>p, <1>0, <1>11, <2>2, <2>4, <2>c DEF Values, BookChanges
  <2>6. Position'
    BY <1>p, <1>0, <1>11 DEF Position, BookChanges
  <2>7. Awaiting'
    BY <1>p, <1>11 DEF Awaiting, BookChanges
  <2> QED
    BY <2>5, <2>6, <2>7
<1>13. CASE Answer
  <2>1. client.todo # << >>
    BY <1>13 DEF Answer
  <2>2. Head(client.todo) \in Markets
    BY <2>1, FetchedTyped
  <2>3. answer' \in 0 .. MaxSequence
    <3>1. book[Head(client.todo)] \in 1 .. MaxSequence
      BY <1>p, <1>0, <2>2 DEF Values
    <3> QED
      BY <1>p, <1>0, <1>13, <3>1 DEF Answer
  <2>4. Values'
    BY <1>p, <1>0, <1>13, <2>2, <2>3 DEF Values, Answer
  <2>5. Position'
    BY <1>p, <1>0, <1>13 DEF Position, Answer
  <2>6. Awaiting'
    BY <1>p, <1>13, <2>1 DEF Awaiting, Answer
  <2> QED
    BY <2>4, <2>5, <2>6
<1>14. CASE Drop
  <2>1. PICK n \in 0 .. Len(wire) : wire' = SubSeq(wire, 1, n)
    BY <1>14 DEF Drop
  <2>2. wire' \in Seq(Message)
    <3>1. Len(wire) \in Nat /\ \A i \in 1 .. Len(wire) : wire[i] \in Message
      BY <1>p, <1>0, ElementOfSeq, LenProperties DEF Values
    <3>2. \A i \in 1 .. n : wire[i] \in Message
      BY <3>1
    <3> QED
      BY <2>1, <3>1, <3>2, SubSeqProperties
  <2>3. Values'
    BY <1>p, <1>0, <1>14, <1>a, <2>2 DEF Values, Drop
  <2>4. Position'
    BY <1>p, <1>0, <1>14 DEF Position, Drop
  <2>5. Awaiting'
    BY <1>p, <1>14 DEF Awaiting, Drop
  <2> QED
    BY <2>3, <2>4, <2>5
<1> QED
  BY <1>1, <1>2, <1>3, <1>4, <1>5, <1>6, <1>8, <1>9, <1>10, <1>11, <1>13, <1>14
     DEF Next

-----------------------------------------------------------------------------
\* The socket.

\* A change that is pushed as a book is the last thing on the socket; one that is
\* not, or is another market's, changes nothing for the market.
LEMMA PushedEnds ==
  ASSUME TypeOK, TypeOK', NEW k \in Markets, BookChanges(k), subscribed,
         NEW m \in Markets
  PROVE  \/ \A held : Ends(wire', m, held, due'[m])
         \/ /\ due'[m] = due[m]
            /\ \A held, after :
                 Ends(wire, m, held, after) => Ends(wire', m, held, after)
<1>1. PICK type \in {"book", "price_change"} :
        /\ wire' = Append(wire, [type |-> type, market |-> k,
                                 sequence |-> book'[k]])
        /\ due' = IF type = "book" THEN [due EXCEPT ![k] = book'[k]] ELSE due
  BY DEF BookChanges
<1> DEFINE message == [type |-> type, market |-> k, sequence |-> book'[k]]
<1>2. message \in Message /\ wire \in Seq(Message)
  BY DEF TypeOK, Message
<1>3. wire' = Append(wire, message)
  BY <1>1
<1>4. /\ Shows(message, m) <=> type = "book" /\ m = k
      /\ message.sequence = book'[k]
  BY DEF Shows
<1> HIDE DEF message
<1>5. CASE type = "book" /\ m = k
  <2>1. due'[m] = message.sequence
    BY <1>1, <1>4, <1>5 DEF TypeOK
  <2>2. ASSUME NEW held PROVE Ends(wire', m, held, due'[m])
    BY <1>2, <1>3, <1>4, <1>5, <2>1, EndsAppendOwn
  <2> QED
    BY <2>2
<1>6. CASE ~(type = "book" /\ m = k)
  <2>1. due'[m] = due[m]
    BY <1>1, <1>6 DEF TypeOK
  <2>2. ASSUME NEW held, NEW after, Ends(wire, m, held, after)
        PROVE  Ends(wire', m, held, after)
    BY <1>2, <1>3, <1>4, <1>6, <2>2, EndsAppendOther
  <2> QED
    BY <2>1, <2>2
<1> QED
  BY <1>5, <1>6

\* So the socket reaches what is due from wherever it did.
LEMMA PushedReaches ==
  ASSUME TypeOK, TypeOK', NEW k \in Markets, BookChanges(k), subscribed,
         NEW m \in Markets, NEW held, Reaches(m, held)
  PROVE  Reaches(m, held)'
<1>1. PICK after \in 0 .. MaxSequence :
        after >= due[m] /\ Ends(wire, m, held, after)
  BY DEF Reaches
<1>2. due'[m] \in 0 .. MaxSequence /\ due'[m] >= due'[m]
  <2>1. due'[m] \in 1 .. MaxSequence
    BY DEF TypeOK
  <2> QED
    BY <2>1
<1>3. CASE \A h : Ends(wire', m, h, due'[m])
  <2>1. Ends(wire', m, held, due'[m])
    BY <1>3
  <2> QED
    BY <1>2, <2>1 DEF Reaches
<1>4. CASE /\ due'[m] = due[m]
           /\ \A h, a : Ends(wire, m, h, a) => Ends(wire', m, h, a)
  <2>1. Ends(wire', m, held, after)
    BY <1>1, <1>4
  <2> QED
    BY <1>1, <1>4, <2>1 DEF Reaches
<1> QED
  BY <1>3, <1>4, PushedEnds

\* Every step keeps the socket leading to the book.
LEMMA StepSocket ==
  ASSUME TypeOK, TypeOK', SocketInv, [Next]_vars
  PROVE  SocketInv'
<1>0. Position /\ Values
  BY TypeParts
<1>1. CASE UNCHANGED <<book, due, socket, subscribed, wire>>
  BY <1>1 DEF SocketInv
<1>2. CASE Connect
  <2>1. socket = "closed" /\ ~subscribed
    BY <1>0, <1>2 DEF Position, Connect
  <2>2. wire' = << >> /\ book' = book /\ due' = due
    BY <1>2, <2>1 DEF SocketInv, Connect
  <2>3. \A m \in Markets : Ends(wire', m, due'[m], due'[m])
    BY <2>2, EndsEmpty
  <2> QED
    BY <2>2, <2>3 DEF SocketInv
<1>3. CASE Receive
  <2>1. wire \in Seq(Message) /\ wire # << >> /\ wire' = Tail(wire)
    BY <1>0, <1>3 DEF Values, Receive
  <2>2. ASSUME NEW m \in Markets, socket = "open"
        PROVE  Ends(wire', m, due[m], due[m])
    <3>1. Ends(wire, m, due[m], due[m])
      BY <2>2 DEF SocketInv
    <3> DEFINE held == IF Shows(Head(wire), m) THEN Head(wire).sequence ELSE due[m]
    <3>2. Ends(Tail(wire), m, held, due[m])
      BY <2>1, <3>1, EndsTail
    <3> QED
      BY <2>1, <3>2, EndsAgain
  <2>3. ~(~subscribed /\ socket # "lost")
    BY <2>1 DEF SocketInv
  <2>4. /\ book' = book /\ due' = due /\ socket' = socket
        /\ subscribed' = subscribed
    BY <1>3 DEF Receive
  <2> QED
    BY <2>2, <2>3, <2>4 DEF SocketInv
<1>4. CASE StreamEnds \/ StreamFails
  BY <1>4 DEF SocketInv, StreamEnds, StreamFails, Closed
<1>5. ASSUME NEW k \in Markets, BookChanges(k) PROVE SocketInv'
  <2>0. ASSUME NEW m \in Markets PROVE due'[m] <= book'[m]
    <3>1. /\ due[m] \in Nat /\ book[m] \in Nat /\ due[m] <= book[m]
          /\ book' = [book EXCEPT ![k] = book[k] + 1]
      BY <1>0, <1>5 DEF Values, SocketInv, BookChanges
    <3>2. book'[m] = IF m = k THEN book[m] + 1 ELSE book[m]
      BY <1>0, <3>1 DEF Values
    <3>3. due' = due \/ due' = [due EXCEPT ![k] = book'[k]]
      BY <1>5 DEF BookChanges
    <3>4. due'[m] = due[m] \/ due'[m] = book'[m]
      BY <1>0, <3>3 DEF Values
    <3> QED
      BY <3>1, <3>2, <3>4
  <2>1. CASE subscribed
    <3>1. \A m \in Markets : Ends(wire, m, due[m], due[m])
      BY <1>0, <2>1 DEF Position, SocketInv
    <3>2. ASSUME NEW m \in Markets PROVE Ends(wire', m, due'[m], due'[m])
      <4>1. CASE \A held : Ends(wire', m, held, due'[m])
        BY <4>1
      <4>2. CASE /\ due'[m] = due[m]
                 /\ \A held, after :
                      Ends(wire, m, held, after) => Ends(wire', m, held, after)
        BY <3>1, <4>2
      <4> QED
        BY <1>5, <2>1, <4>1, <4>2, PushedEnds
    <3>3. subscribed'
      BY <1>5, <2>1 DEF BookChanges
    <3> QED
      BY <2>0, <3>2, <3>3 DEF SocketInv
  <2>2. CASE ~subscribed
    <3>1. wire' = wire /\ socket' = socket /\ subscribed' = subscribed
      BY <1>5, <2>2 DEF BookChanges
    <3>2. socket = "open" => \A m \in Markets : Ends(wire', m, due'[m], due'[m])
      BY <2>2, <3>1, EndsEmpty DEF SocketInv
    <3> QED
      BY <2>0, <3>1, <3>2 DEF SocketInv
  <2> QED
    BY <2>1, <2>2
<1>6. CASE Subscribe
  <2>1. /\ book' = book /\ due' = book /\ socket' = socket /\ wire' = wire
        /\ subscribed' /\ ~subscribed /\ socket = "open"
    BY <1>6 DEF Subscribe
  <2>2. \A m \in Markets : Ends(wire', m, due'[m], due'[m])
    BY <2>1, EndsEmpty DEF SocketInv
  <2>3. \A m \in Markets : due'[m] <= book'[m]
    <3>1. \A m \in Markets : book[m] \in Nat
      BY <1>0 DEF Values
    <3> QED
      BY <2>1, <3>1
  <2> QED
    BY <2>1, <2>2, <2>3 DEF SocketInv
<1>7. CASE Drop
  BY <1>7 DEF SocketInv, Drop
<1>8. CASE \/ ConnectFails \/ SnapshotArrives \/ SnapshotMissing \/ Wake
           \/ Escapes \/ Consume \/ Answer \/ UNCHANGED vars
  BY <1>1, <1>8 DEF ConnectFails, SnapshotArrives, SnapshotMissing, Wake, Escapes,
                    Consume, Answer, vars
<1> QED
  BY <1>2, <1>3, <1>4, <1>5, <1>6, <1>7, <1>8 DEF Next

-----------------------------------------------------------------------------
\* The snapshots of this connection.

\* Outside _refresh_snapshots no answer is held.
LEMMA NoAnswer ==
  ASSUME TypeOK, client.todo = << >>
  PROVE  ~(answer > 0)
BY DEF TypeOK

\* Every step keeps what an answer and a fetched snapshot stand for.
LEMMA StepFetch ==
  ASSUME TypeOK, TypeOK', SocketInv, FetchInv, [Next]_vars
  PROVE  FetchInv'
<1>0. Position /\ Position'
  <2>1. Position
    BY TypeParts
  <2>2. Position'
    BY DEF TypeOK, Position
  <2> QED
    BY <2>1, <2>2
<1>1. CASE socket' # "open"
  BY <1>1 DEF FetchInv
<1>2. CASE Connect
  <2>1. client.todo = << >>
    BY <1>0, <1>2 DEF Position, Connect
  <2>2. ~(answer' > 0)
    BY <1>2, <2>1, NoAnswer DEF Connect
  <2>3. Range(client'.todo) = Markets
    BY <1>2, MarketsOfConfig DEF Connect, Fetching
  <2> QED
    BY <2>2, <2>3 DEF FetchInv
<1>3. CASE SnapshotArrives
  <2>1. /\ answer > 0 /\ answer' = 0 /\ client' = Fetched /\ gaps' = gaps
        /\ socket' = socket
    BY <1>3 DEF SnapshotArrives
  <2>2. Range(client.todo) = Range(client'.todo) \cup {Head(client.todo)}
    BY <2>1, FetchedTyped DEF TypeOK
  <2>3. ASSUME NEW m \in Markets, m \notin Range(client'.todo) \cup gaps',
               socket' = "open"
        PROVE  subscribed
    <3>1. CASE m \in Range(client.todo)
      BY <2>1, <2>2, <2>3, <3>1 DEF FetchInv
    <3>2. CASE m \notin Range(client.todo)
      BY <2>1, <2>3, <3>2 DEF FetchInv
    <3> QED
      BY <3>1, <3>2
  <2>4. ~(answer' > 0) /\ subscribed' = subscribed
    BY <1>3 DEF SnapshotArrives
  <2> QED
    BY <2>3, <2>4 DEF FetchInv
<1>4. CASE SnapshotMissing
  <2>1. /\ client.todo # << >> /\ answer' = 0 /\ client' = Fetched
        /\ gaps' = gaps \cup {Head(client.todo)} /\ socket' = socket
    BY <1>4 DEF SnapshotMissing
  <2>2. Range(client.todo) = Range(client'.todo) \cup {Head(client.todo)}
    BY <2>1, FetchedTyped
  <2>3. ASSUME NEW m \in Markets, m \notin Range(client'.todo) \cup gaps',
               socket' = "open"
        PROVE  subscribed
    BY <2>1, <2>2, <2>3 DEF FetchInv
  <2>4. ~(answer' > 0) /\ subscribed' = subscribed
    BY <1>4 DEF SnapshotMissing
  <2> QED
    BY <2>3, <2>4 DEF FetchInv
<1>5. CASE Receive
  <2>1. client.todo = << >>
    BY <1>0, <1>5 DEF Position, Receive
  <2>2. ~(answer' > 0)
    BY <1>5, <2>1, NoAnswer DEF Receive
  <2>3. /\ socket' = socket /\ subscribed' = subscribed
        /\ client' = client /\ gaps' = gaps
    BY <1>5 DEF Receive
  <2> QED
    BY <2>2, <2>3 DEF FetchInv
<1>6. ASSUME NEW k \in Markets, BookChanges(k) PROVE FetchInv'
  <2>1. /\ socket' = socket /\ subscribed' = subscribed /\ client' = client
        /\ gaps' = gaps /\ answer' = answer
    BY <1>6 DEF BookChanges
  <2>2. ASSUME socket = "open", answer > 0, Head(client.todo) \notin gaps
        PROVE  subscribed /\ Reaches(Head(client.todo), answer)'
    <3>1. subscribed /\ Reaches(Head(client.todo), answer)
      BY <2>2 DEF FetchInv
    <3>2. client.todo # << >>
      BY <2>2 DEF TypeOK
    <3>3. PICK m \in Markets : m = Head(client.todo)
      BY <3>2, FetchedTyped
    <3>4. PICK held : held = answer
      OBVIOUS
    <3>5. Reaches(m, held)
      BY <3>1, <3>3, <3>4
    <3>6. Reaches(m, held)'
      BY <1>6, <3>1, <3>5, PushedReaches
    <3> QED
      BY <2>1, <3>1, <3>3, <3>4, <3>6 DEF Reaches
  <2> QED
    BY <2>1, <2>2 DEF FetchInv
<1>7. CASE Subscribe
  <2>1. /\ ~subscribed /\ subscribed' /\ socket' = socket /\ client' = client
        /\ gaps' = gaps /\ answer' = answer
    BY <1>7 DEF Subscribe
  <2> QED
    BY <2>1 DEF FetchInv
<1>8. CASE Answer
  <2>1. PICK h \in Markets : h = Head(client.todo)
    BY <1>8, FetchedTyped DEF Answer
  <2>2. /\ answer' = book[h]
        /\ gaps' = IF subscribed THEN gaps ELSE gaps \cup {h}
        /\ client' = client /\ socket' = socket /\ wire' = wire /\ due' = due
        /\ subscribed' = subscribed
    BY <1>8, <2>1 DEF Answer
  <2>3. ASSUME socket = "open" PROVE Reaches(h, book[h])
    <3>1. Ends(wire, h, due[h], due[h]) /\ due[h] <= book[h]
      BY <2>3 DEF SocketInv
    <3>2. book[h] \in 1 .. MaxSequence /\ due[h] \in 1 .. MaxSequence
      BY DEF TypeOK
    <3>3. Ends(wire, h, book[h], book[h]) \/ Ends(wire, h, book[h], due[h])
      BY <3>1 DEF Ends
    <3>4. /\ book[h] \in 0 .. MaxSequence /\ due[h] \in 0 .. MaxSequence
          /\ book[h] >= due[h] /\ due[h] >= due[h]
      BY <3>1, <3>2
    <3> QED
      BY <3>3, <3>4 DEF Reaches
  <2>4. gaps \subseteq gaps' /\ (h \notin gaps' => subscribed)
    BY <2>2
  <2>5. ASSUME socket = "open" PROVE Reaches(Head(client.todo), answer)'
    <3>1. PICK held : held = book[h]
      OBVIOUS
    <3>2. Reaches(h, held)
      BY <2>3, <2>5, <3>1
    <3>3. Reaches(h, held)'
      BY <2>2, <3>2 DEF Reaches
    <3> QED
      BY <2>1, <2>2, <3>1, <3>3 DEF Reaches
  <2> QED
    BY <2>1, <2>2, <2>4, <2>5 DEF FetchInv
<1>9. CASE Wake \/ ConnectFails \/ StreamEnds \/ StreamFails \/ Drop
  <2>1. socket' # "open"
    BY <1>0, <1>9 DEF Position, Wake, ConnectFails, StreamEnds, StreamFails,
                      Closed, Drop
  <2> QED
    BY <1>1, <2>1
<1>10. CASE Escapes \/ Consume \/ UNCHANGED vars
  <2>1. UNCHANGED <<socket, subscribed, client, gaps, answer, wire, due>>
    BY <1>10 DEF Escapes, Consume, vars
  <2> QED
    BY <2>1 DEF FetchInv, Reaches
<1> QED
  BY <1>2, <1>3, <1>4, <1>5, <1>6, <1>7, <1>8, <1>9, <1>10 DEF Next

-----------------------------------------------------------------------------
\* The pipeline.

\* A market is covered only by the arrival of its snapshot.
LEMMA CoveredBefore ==
  ASSUME TypeOK, [Next]_vars, NEW m \in Markets, Covered(m)'
  PROVE  \/ Covered(m)
         \/ /\ SnapshotArrives /\ socket = "open"
            /\ m = Head(client.todo) /\ m \notin gaps
<1>0. Position
  BY TypeParts
<1>1. /\ socket' = "open" /\ m \notin Range(client'.todo) /\ m \notin gaps'
  BY DEF Covered
<1>2. CASE Connect
  BY <1>1, <1>2, MarketsOfConfig DEF Connect, Fetching
<1>3. CASE SnapshotArrives
  <2>1. /\ answer > 0 /\ client' = Fetched /\ gaps' = gaps /\ socket' = socket
    BY <1>3 DEF SnapshotArrives
  <2>2. Range(client.todo) = Range(client'.todo) \cup {Head(client.todo)}
    BY <2>1, FetchedTyped DEF TypeOK
  <2> QED
    BY <1>1, <1>3, <2>1, <2>2 DEF Covered
<1>4. CASE SnapshotMissing
  <2>1. /\ client.todo # << >> /\ client' = Fetched
        /\ gaps' = gaps \cup {Head(client.todo)} /\ socket' = socket
    BY <1>4 DEF SnapshotMissing
  <2>2. Range(client.todo) = Range(client'.todo) \cup {Head(client.todo)}
    BY <2>1, FetchedTyped
  <2> QED
    BY <1>1, <2>1, <2>2 DEF Covered
<1>5. CASE Wake \/ ConnectFails \/ StreamEnds \/ StreamFails \/ Drop
  BY <1>0, <1>1, <1>5 DEF Position, Wake, ConnectFails, StreamEnds, StreamFails,
                          Closed, Drop
<1>6. CASE \/ Receive \/ Subscribe \/ Escapes \/ Consume \/ UNCHANGED vars
           \/ \E k \in Markets : BookChanges(k)
  <2>1. socket' = socket /\ client' = client /\ gaps' = gaps
    BY <1>6 DEF Receive, Subscribe, Escapes, Consume, BookChanges, vars
  <2> QED
    BY <1>1, <2>1 DEF Covered
<1>7. CASE Answer
  <2>1. socket' = socket /\ client' = client /\ gaps \subseteq gaps'
    BY <1>7 DEF Answer
  <2> QED
    BY <1>1, <2>1 DEF Covered
<1> QED
  BY <1>2, <1>3, <1>4, <1>5, <1>6, <1>7 DEF Next

\* Every step keeps the way of a covered market from the consumer to what is due.
LEMMA StepPipeline ==
  ASSUME TypeOK, TypeOK', FetchInv, PipelineInv, [Next]_vars
  PROVE  PipelineInv'
<1> SUFFICES ASSUME NEW m \in Markets, Covered(m)' PROVE Leads(m)'
  BY DEF PipelineInv
<1>0. Values /\ Values' /\ Position
  <2>1. Values /\ Position
    BY TypeParts
  <2>2. Values'
    BY DEF TypeOK, Values
  <2> QED
    BY <2>1, <2>2
<1>1. ASSUME SnapshotArrives, socket = "open", m = Head(client.todo), m \notin gaps
      PROVE  Leads(m)'
  <2>0. PICK held : held = answer
    OBVIOUS
  <2> DEFINE event == MarketSnapshot(m, held)
  <2>1. /\ answer > 0 /\ event_queue' = Append(event_queue, event)
        /\ wire' = wire /\ due' = due /\ latest_snapshot' = latest_snapshot
    BY <1>1, <2>0 DEF SnapshotArrives
  <2>2. Reaches(m, held)
    BY <1>1, <2>0, <2>1 DEF FetchInv
  <2>3. answer \in 0 .. MaxSequence /\ MaxSequence \in Nat
    BY <1>0, FeedAssumption DEF Values, FeedAssumption
  <2>4. event \in Event /\ Shows(event, m) /\ event.sequence = held
    BY <2>0, <2>1, <2>3 DEF Event, MarketSnapshot, Shows
  <2>5. event_queue \in Seq(Event)
    BY <1>0 DEF Values
  <2> HIDE DEF event
  <2>6. Ends(event_queue', m, latest_snapshot'[m], held)
    BY <2>1, <2>4, <2>5, EndsAppendOwn
  <2>7. Reaches(m, held)'
    BY <2>1, <2>2 DEF Reaches
  <2> QED
    BY <2>0, <2>3, <2>6, <2>7 DEF Leads
<1>2. ASSUME ~(SnapshotArrives /\ socket = "open" /\ m = Head(client.todo)
               /\ m \notin gaps)
      PROVE  Covered(m)
  BY <1>2, CoveredBefore
<1>3. ASSUME Covered(m) PROVE Leads(m)
  BY <1>3 DEF PipelineInv
<1>4. CASE SnapshotArrives
  <2>1. CASE socket = "open" /\ m = Head(client.todo) /\ m \notin gaps
    BY <1>1, <1>4, <2>1
  <2>2. CASE ~(socket = "open" /\ m = Head(client.todo) /\ m \notin gaps)
    <3>1. Covered(m) /\ m # Head(client.todo)
      BY <1>2, <2>2 DEF Covered
    <3>2. PICK between \in 0 .. MaxSequence :
            Ends(event_queue, m, latest_snapshot[m], between) /\ Reaches(m, between)
      BY <1>3, <3>1 DEF Leads
    <3> DEFINE event == MarketSnapshot(Head(client.todo), answer)
    <3>3. /\ answer > 0 /\ event_queue' = Append(event_queue, event)
          /\ wire' = wire /\ due' = due /\ latest_snapshot' = latest_snapshot
      BY <1>4 DEF SnapshotArrives
    <3>4. client.todo # << >>
      BY <3>3 DEF TypeOK
    <3>5. answer \in 1 .. MaxSequence
      <4>1. answer \in 0 .. MaxSequence /\ MaxSequence \in Nat
        BY <1>0, FeedAssumption DEF Values, FeedAssumption
      <4> QED
        BY <3>3, <4>1
    <3>6. event \in Event /\ ~Shows(event, m)
      BY <3>1, <3>4, <3>5, FetchedTyped DEF Event, MarketSnapshot, Shows
    <3>7. event_queue \in Seq(Event)
      BY <1>0 DEF Values
    <3> HIDE DEF event
    <3>8. Ends(event_queue', m, latest_snapshot'[m], between)
      BY <3>2, <3>3, <3>6, <3>7, EndsAppendOther
    <3>9. Reaches(m, between)'
      BY <3>2, <3>3 DEF Reaches
    <3> QED
      BY <3>8, <3>9 DEF Leads
  <2> QED
    BY <2>1, <2>2
<1>5. CASE ~SnapshotArrives
  <2>1. Covered(m) /\ socket = "open" /\ m \notin Range(client.todo) \cup gaps
    BY <1>2, <1>5 DEF Covered
  <2>2. PICK between \in 0 .. MaxSequence :
          Ends(event_queue, m, latest_snapshot[m], between) /\ Reaches(m, between)
    BY <1>3, <2>1 DEF Leads
  <2>3. /\ event_queue \in Seq(Event) /\ wire \in Seq(Message)
    BY <1>0 DEF Values
  <2>4. CASE Receive
    <3> DEFINE message == Head(wire)
               event == DecodeEvent(message)
    <3>1. /\ wire # << >> /\ event_queue' = Append(event_queue, event)
          /\ wire' = Tail(wire) /\ due' = due
          /\ latest_snapshot' = latest_snapshot
      BY <2>4 DEF Receive
    <3>2. message \in Message
      BY <2>3, <3>1, HeadTailProperties
    <3> HIDE DEF message
    <3>3. /\ event \in Event /\ event.sequence = message.sequence
          /\ Shows(event, m) <=> Shows(message, m)
      BY <3>2, Decoded
    <3> HIDE DEF event
    <3>4. PICK after \in 0 .. MaxSequence :
            after >= due[m] /\ Ends(wire, m, between, after)
      BY <2>2 DEF Reaches
    <3>5. PICK next : next = IF Shows(event, m) THEN event.sequence ELSE between
      OBVIOUS
    <3>6. Ends(wire', m, next, after)
      <4>1. Ends(Tail(wire), m,
                 IF Shows(Head(wire), m) THEN Head(wire).sequence ELSE between, after)
        BY <2>3, <3>1, <3>4, EndsTail
      <4> QED
        BY <3>1, <3>3, <3>5, <4>1 DEF message
    <3>7. next \in 0 .. MaxSequence
      <4>1. event.sequence \in 1 .. MaxSequence
        BY <3>3 DEF Event
      <4> QED
        BY <3>5, <4>1
    <3>8. Ends(event_queue', m, latest_snapshot'[m], next)
      <4>1. CASE Shows(event, m)
        BY <2>3, <3>1, <3>3, <3>5, <4>1, EndsAppendOwn
      <4>2. CASE ~Shows(event, m)
        BY <2>2, <2>3, <3>1, <3>3, <3>5, <4>2, EndsAppendOther
      <4> QED
        BY <4>1, <4>2
    <3>9. Reaches(m, next)'
      BY <3>1, <3>4, <3>6 DEF Reaches
    <3> QED
      BY <3>7, <3>8, <3>9 DEF Leads
  <2>5. CASE Consume
    <3> DEFINE event == Head(event_queue)
    <3>1. /\ event_queue # << >> /\ event_queue' = Tail(event_queue)
          /\ wire' = wire /\ due' = due
          /\ latest_snapshot' =
               IF event.type = "MarketSnapshot"
                 THEN [latest_snapshot EXCEPT ![event.market] = event.sequence]
                 ELSE latest_snapshot
      BY <2>5 DEF Consume
    <3>2. event \in Event
      BY <2>3, <3>1, HeadTailProperties
    <3>3. Ends(event_queue', m,
               IF Shows(event, m) THEN event.sequence ELSE latest_snapshot[m],
               between)
      BY <2>2, <2>3, <3>1, EndsTail
    <3> HIDE DEF event
    <3>4. Shows(event, m) <=> event.type = "MarketSnapshot" /\ event.market = m
      BY <3>2 DEF Shows, Event
    <3>5. latest_snapshot'[m]
            = IF Shows(event, m) THEN event.sequence ELSE latest_snapshot[m]
      <4>1. event.market \in Markets /\ latest_snapshot \in [Markets -> 0 .. MaxSequence]
        BY <1>0, <3>2 DEF Values, Event
      <4> QED
        BY <3>1, <3>4, <4>1
    <3>6. Ends(event_queue', m, latest_snapshot'[m], between)
      BY <3>3, <3>5
    <3>7. Reaches(m, between)'
      BY <2>2, <3>1 DEF Reaches
    <3> QED
      BY <3>6, <3>7 DEF Leads
  <2>6. ASSUME NEW k \in Markets, BookChanges(k) PROVE Leads(m)'
    <3>1. subscribed
      BY <2>1 DEF FetchInv
    <3>2. Reaches(m, between)'
      BY <2>2, <2>6, <3>1, PushedReaches
    <3>3. event_queue' = event_queue /\ latest_snapshot' = latest_snapshot
      BY <2>6 DEF BookChanges
    <3> QED
      BY <2>2, <3>2, <3>3 DEF Leads
  <2>7. CASE StreamEnds \/ StreamFails \/ Drop
    BY <2>7 DEF Covered, StreamEnds, StreamFails, Closed, Drop
  <2>8. CASE \/ Connect \/ ConnectFails \/ SnapshotMissing \/ Wake \/ Escapes
             \/ Answer \/ UNCHANGED vars
    <3>1. UNCHANGED <<event_queue, latest_snapshot, wire, due>>
      BY <2>8 DEF Connect, ConnectFails, SnapshotMissing, Wake, Escapes, Answer, vars
    <3>2. Reaches(m, between)'
      BY <2>2, <3>1 DEF Reaches
    <3> QED
      BY <2>2, <3>1, <3>2 DEF Leads
  <2>9. CASE Subscribe
    BY <2>1, <2>9 DEF FetchInv, Subscribe
  <2> QED
    BY <1>5, <2>4, <2>5, <2>6, <2>7, <2>8, <2>9 DEF Next
<1> QED
  BY <1>4, <1>5

-----------------------------------------------------------------------------
\* The theorems.

\* The invariant holds throughout.
THEOREM FeedIsSound == Spec => []IInv
<1>1. Init => IInv
  <2> SUFFICES ASSUME Init PROVE IInv
    OBVIOUS
  <2>1. socket = "closed" /\ wire = << >> /\ due = book
    BY DEF Init
  <2>2. \A m \in Markets : due[m] <= book[m]
    <3>1. \A m \in Markets : book[m] = 1
      BY DEF Init
    <3> QED
      BY <2>1, <3>1
  <2> QED
    BY <2>1, <2>2, InitTyped DEF IInv, SocketInv, FetchInv, PipelineInv, Covered
<1>2. IInv /\ [Next]_vars => IInv'
  <2> SUFFICES ASSUME IInv, [Next]_vars PROVE IInv'
    OBVIOUS
  <2>1. TypeOK /\ SocketInv /\ FetchInv /\ PipelineInv
    BY DEF IInv
  <2>2. TypeOK'
    BY <2>1, StepTyped
  <2> QED
    BY <2>1, <2>2, StepSocket, StepFetch, StepPipeline DEF IInv
<1> QED
  BY <1>1, <1>2, PTL DEF Spec

\* Types, and a socket exists only inside _stream
\* (market_data_client.py:44-60).
THEOREM TypeCorrect == Spec => []TypeOK
<1>1. IInv => TypeOK
  BY DEF IInv
<1> QED
  BY <1>1, FeedIsSound, PTL

\* However messages, snapshots and failures fall, the last book in the pipeline
\* of a market whose snapshot was not missed is the one that is due, or newer
\* (market_data_client.py:62-78, 89-143).
THEOREM NewestIsLast == Spec => []NewestComesLast
<1>1. ASSUME IInv, NEW m \in Markets, Covered(m) PROVE Eventual(m) >= due[m]
  <2>1. PICK between \in 0 .. MaxSequence :
          Ends(event_queue, m, latest_snapshot[m], between) /\ Reaches(m, between)
    BY <1>1 DEF IInv, PipelineInv, Leads
  <2>2. PICK after \in 0 .. MaxSequence :
          after >= due[m] /\ Ends(wire, m, between, after)
    BY <2>1 DEF Reaches
  <2> DEFINE Items == Event \cup Message
             events == event_queue \o wire
             coming == {i \in DOMAIN events : Shows(events[i], m)}
  <2>3. event_queue \in Seq(Items) /\ wire \in Seq(Items)
    <3>1. event_queue \in Seq(Event) /\ wire \in Seq(Message)
      BY <1>1 DEF IInv, TypeOK
    <3>2. /\ \A i \in 1 .. Len(event_queue) : event_queue[i] \in Items
          /\ \A i \in 1 .. Len(wire) : wire[i] \in Items
      BY <3>1, ElementOfSeq
    <3> HIDE DEF Items
    <3> QED
      BY <3>1, <3>2
  <2> HIDE DEF Items
  <2>4. Ends(events, m, latest_snapshot[m], after)
    BY <2>1, <2>2, <2>3, EndsConcat
  <2>5. events \in Seq(Items)
    BY <2>3, ConcatProperties
  <2>6. IF coming = {} THEN after = latest_snapshot[m]
        ELSE events[Max(coming)].sequence = after
    BY <2>4, <2>5, EndsMax
  <2> QED
    BY <2>2, <2>6 DEF Eventual
<1>2. IInv => NewestComesLast
  BY <1>1 DEF NewestComesLast
<1> QED
  BY <1>2, FeedIsSound, PTL

=============================================================================
