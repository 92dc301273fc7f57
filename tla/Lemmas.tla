------------------------------- MODULE Lemmas -------------------------------
(***************************************************************************)
(* The facts about operators that the proofs of several modules share.     *)
(*                                                                         *)
(* Logs of times, from which the rate limits of OrderGate and RiskEngine   *)
(* follow: a log is a sequence of times in clock order; its window at a is *)
(* the set of entries stamped between a and a + w.                         *)
(*                                                                         *)
(* Exact fractions, folds and sums, and what they make of a fill and of a  *)
(* valuation, for PortfolioProofs and ExecutionEngineProofs, and of a      *)
(* reference price, for SignalEngineProofs: two fractions are compared     *)
(* over a common denominator (Worth), and are equal when they are in       *)
(* lowest terms and worth the same; a fold over a finite set is known by   *)
(* the equations it satisfies on every subset.                             *)
(***************************************************************************)
EXTENDS PositionManager, FiniteSetTheorems, SequenceTheorems,
        WellFoundedInduction, TLAPS

-----------------------------------------------------------------------------
\* Logs and windows.

\* A log of times that have come by t, oldest first.
LogBy(log, t) ==
  /\ log \in Seq(Nat)
  /\ \A i \in DOMAIN log : log[i] <= t
  /\ \A i, j \in DOMAIN log : i <= j => log[i] <= log[j]

InWindow(log, a, w) == {j \in DOMAIN log : log[j] \in a .. (a + w)}

\* The entries no older than w at t.
Young(log, t, w) == {j \in DOMAIN log : t - log[j] <= w}

\* queue holds the entries of the log but for some of the first ones, all of
\* them older than w at t: a deque that is evicted from the left.
Keeps(queue, log, t, w) ==
  /\ queue \in Seq(Nat)
  /\ \E d \in 0 .. Len(log) :
       /\ Len(queue) = Len(log) - d
       /\ \A i \in 1 .. Len(queue) : queue[i] = log[d + i]
       /\ \A i \in 1 .. d : t - log[i] > w

-----------------------------------------------------------------------------
\* A set of positions of a sequence is finite.
LEMMA PositionsFinite ==
  ASSUME NEW log \in Seq(Nat), NEW S, S \subseteq DOMAIN log
  PROVE  /\ IsFiniteSet(S)
         /\ Cardinality(S) \in Nat
<1>1. DOMAIN log = 1 .. Len(log) /\ Len(log) \in Nat
  BY LenProperties
<1>2. IsFiniteSet(1 .. Len(log))
  BY <1>1, FS_Interval
<1>3. IsFiniteSet(S)
  BY <1>1, <1>2, FS_Subset
<1> QED
  BY <1>3, FS_CardinalityType

\* A larger set of positions has no smaller cardinality.
LEMMA PositionsMonotonic ==
  ASSUME NEW log \in Seq(Nat), NEW S, NEW T,
         S \subseteq T, T \subseteq DOMAIN log
  PROVE  Cardinality(S) <= Cardinality(T)
<1>1. IsFiniteSet(T)
  BY PositionsFinite
<1> QED
  BY <1>1, FS_Subset

\* The clock may advance past the end of a log.
LEMMA LogLater ==
  ASSUME NEW log, NEW t \in Nat, LogBy(log, t)
  PROVE  LogBy(log, t + 1)
<1>1. \A i \in DOMAIN log : log[i] \in Nat
  BY ElementOfSeq, LenProperties DEF LogBy
<1> QED
  BY <1>1 DEF LogBy

\* A log stays a log when the present time is appended.
LEMMA LogAppend ==
  ASSUME NEW log, NEW t \in Nat, LogBy(log, t)
  PROVE  /\ LogBy(Append(log, t), t)
         /\ DOMAIN Append(log, t) = DOMAIN log \cup {Len(log) + 1}
         /\ Len(log) + 1 \notin DOMAIN log
         /\ Append(log, t)[Len(log) + 1] = t
         /\ \A i \in DOMAIN log : Append(log, t)[i] = log[i]
<1>1. log \in Seq(Nat) /\ Len(log) \in Nat /\ DOMAIN log = 1 .. Len(log)
  BY LenProperties DEF LogBy
<1>2. /\ Append(log, t) \in Seq(Nat)
      /\ Len(Append(log, t)) = Len(log) + 1
      /\ \A i \in 1 .. Len(log) : Append(log, t)[i] = log[i]
      /\ Append(log, t)[Len(log) + 1] = t
  BY <1>1, AppendProperties
<1>3. DOMAIN Append(log, t) = 1 .. (Len(log) + 1)
  BY <1>2, LenProperties
<1>4. \A i \in 1 .. Len(log) : log[i] \in Nat /\ log[i] <= t
  BY <1>1, ElementOfSeq DEF LogBy
<1>5. \A i, j \in 1 .. Len(log) : i <= j => log[i] <= log[j]
  BY <1>1 DEF LogBy
<1>6. LogBy(Append(log, t), t)
  BY <1>1, <1>2, <1>3, <1>4, <1>5 DEF LogBy
<1> QED
  BY <1>1, <1>2, <1>3, <1>6

\* Appending the present time makes one more entry young.
LEMMA YoungAppend ==
  ASSUME NEW log, NEW t \in Nat, NEW w \in Nat, LogBy(log, t)
  PROVE  Cardinality(Young(Append(log, t), t, w))
           = Cardinality(Young(log, t, w)) + 1
<1>1. Young(Append(log, t), t, w) = Young(log, t, w) \cup {Len(log) + 1}
  BY LogAppend DEF Young
<1>2. Len(log) + 1 \notin Young(log, t, w)
  BY LogAppend DEF Young
<1>3. IsFiniteSet(Young(log, t, w))
  BY PositionsFinite DEF LogBy, Young
<1> QED
  BY <1>1, <1>2, <1>3, FS_AddElement

\* Appending the present time either leaves the window of an entry as it was
\* or the window holds young entries only.
LEMMA WindowAppend ==
  ASSUME NEW log, NEW t \in Nat, NEW w \in Nat, LogBy(log, t),
         NEW i \in DOMAIN Append(log, t)
  PROVE  \/ /\ i \in DOMAIN log
            /\ InWindow(Append(log, t), Append(log, t)[i], w)
                 = InWindow(log, log[i], w)
         \/ InWindow(Append(log, t), Append(log, t)[i], w)
              \subseteq Young(Append(log, t), t, w)
<1> DEFINE log2 == Append(log, t)
<1>1. \A j \in DOMAIN log : log[j] \in Nat /\ log2[j] = log[j]
  BY LogAppend, ElementOfSeq, LenProperties DEF LogBy
<1>2. \A j \in DOMAIN log2 : log2[j] \in Nat
  BY LogAppend, ElementOfSeq, LenProperties DEF LogBy
<1>3. DOMAIN log2 = DOMAIN log \cup {Len(log) + 1} /\ log2[Len(log) + 1] = t
  BY LogAppend
<1>4. CASE log2[i] + w < t
  <2>1. i \in DOMAIN log
    BY <1>2, <1>3, <1>4
  <2>2. Len(log) + 1 \notin InWindow(log2, log2[i], w)
    BY <1>2, <1>3, <1>4 DEF InWindow
  <2>3. InWindow(log2, log2[i], w) = InWindow(log, log[i], w)
    BY <1>1, <1>3, <2>1, <2>2, LogAppend DEF InWindow
  <2> QED
    BY <2>1, <2>3
<1>5. CASE ~(log2[i] + w < t)
  BY <1>2, <1>5 DEF InWindow, Young
<1> QED
  BY <1>4, <1>5

\* If at most n entries are young once the present time is appended, then no
\* window of the longer log exceeds n unless one of the shorter log did.
LEMMA RateAppend ==
  ASSUME NEW log, NEW t \in Nat, NEW w \in Nat, NEW n \in Nat, LogBy(log, t),
         \A i \in DOMAIN log : Cardinality(InWindow(log, log[i], w)) <= n,
         Cardinality(Young(Append(log, t), t, w)) <= n
  PROVE  \A i \in DOMAIN Append(log, t) :
           Cardinality(InWindow(Append(log, t), Append(log, t)[i], w)) <= n
<1> DEFINE log2 == Append(log, t)
<1>1. log2 \in Seq(Nat)
  BY LogAppend DEF LogBy
<1> SUFFICES ASSUME NEW i \in DOMAIN log2
             PROVE  Cardinality(InWindow(log2, log2[i], w)) <= n
  OBVIOUS
<1>2. CASE i \in DOMAIN log /\ InWindow(log2, log2[i], w)
                                 = InWindow(log, log[i], w)
  BY <1>2
<1>3. CASE InWindow(log2, log2[i], w) \subseteq Young(log2, t, w)
  <2>1. Young(log2, t, w) \subseteq DOMAIN log2
    BY DEF Young
  <2>2. Cardinality(InWindow(log2, log2[i], w))
          <= Cardinality(Young(log2, t, w))
    BY <1>1, <1>3, <2>1, PositionsMonotonic
  <2>3. /\ Cardinality(InWindow(log2, log2[i], w)) \in Nat
        /\ Cardinality(Young(log2, t, w)) \in Nat
    BY <1>1, PositionsFinite DEF InWindow, Young
  <2> QED
    BY <2>2, <2>3
<1> QED
  BY <1>2, <1>3, WindowAppend

-----------------------------------------------------------------------------
\* A non-empty set of naturals has a least element.
LEMMA LeastNatural ==
  ASSUME NEW T, T \subseteq Nat, T # {}
  PROVE  \E x \in T : \A y \in T : x <= y
<1>1. \E x \in T : \A y \in T : ~ (<<y, x>> \in OpToRel(<, Nat))
  BY WFMin, NatLessThanWellFounded
<1>2. PICK x \in T : \A y \in T : ~ (<<y, x>> \in OpToRel(<, Nat))
  BY <1>1
<1>3. ASSUME NEW y \in T PROVE x <= y
  <2>1. SUFFICES ASSUME y < x PROVE FALSE
    OBVIOUS
  <2>2. <<y, x>> \in OpToRel(<, Nat)
    BY <2>1, Zenon DEF OpToRel
  <2> QED
    BY <1>2, <2>2, Zenon
<1> QED
  BY <1>3

\* What is kept at a time is kept later: old entries stay old.
LEMMA KeepsLater ==
  ASSUME NEW queue, NEW log \in Seq(Nat), NEW t \in Nat, NEW w \in Nat,
         Keeps(queue, log, t, w)
  PROVE  Keeps(queue, log, t + 1, w)
<1>1. \A i \in 1 .. Len(log) : log[i] \in Nat
  BY ElementOfSeq
<1>2. Len(log) \in Nat
  BY LenProperties
<1>3. PICK d \in 0 .. Len(log) :
        /\ Len(queue) = Len(log) - d
        /\ \A i \in 1 .. Len(queue) : queue[i] = log[d + i]
        /\ \A i \in 1 .. d : t - log[i] > w
  BY DEF Keeps
<1>4. \A i \in 1 .. d : (t + 1) - log[i] > w
  <2> TAKE i \in 1 .. d
  <2>1. i \in 1 .. Len(log)
    BY <1>2
  <2>2. t - log[i] > w /\ log[i] \in Nat
    BY <1>1, <1>3, <2>1
  <2> QED
    BY <2>2
<1> QED
  BY <1>3, <1>4 DEF Keeps

\* Appending to the log and to the queue keeps what was kept.
LEMMA KeepsAppend ==
  ASSUME NEW queue, NEW log \in Seq(Nat), NEW t \in Nat, NEW w \in Nat,
         Keeps(queue, log, t, w)
  PROVE  Keeps(Append(queue, t), Append(log, t), t, w)
<1> DEFINE queue2 == Append(queue, t)
           log2 == Append(log, t)
<1>0. queue \in Seq(Nat) /\ Len(queue) \in Nat /\ Len(log) \in Nat
  BY LenProperties DEF Keeps
<1>1. PICK d \in 0 .. Len(log) :
        /\ Len(queue) = Len(log) - d
        /\ \A i \in 1 .. Len(queue) : queue[i] = log[d + i]
        /\ \A i \in 1 .. d : t - log[i] > w
  BY DEF Keeps
<1>2. /\ queue2 \in Seq(Nat) /\ Len(queue2) = Len(queue) + 1
      /\ \A i \in 1 .. Len(queue) : queue2[i] = queue[i]
      /\ queue2[Len(queue) + 1] = t
  BY <1>0, AppendProperties
<1>3. /\ Len(log2) = Len(log) + 1
      /\ \A i \in 1 .. Len(log) : log2[i] = log[i]
      /\ log2[Len(log) + 1] = t
  BY AppendProperties
<1> HIDE DEF queue2, log2
<1>4. d \in 0 .. Len(log2) /\ Len(queue2) = Len(log2) - d
  BY <1>0, <1>1, <1>2, <1>3
<1>5. \A i \in 1 .. Len(queue2) : queue2[i] = log2[d + i]
  <2> TAKE i \in 1 .. Len(queue2)
  <2>1. CASE i = Len(queue) + 1
    BY <1>0, <1>1, <1>2, <1>3, <2>1
  <2>2. CASE i \in 1 .. Len(queue)
    <3>1. d + i \in 1 .. Len(log)
      BY <1>0, <1>1, <2>2
    <3> QED
      BY <1>1, <1>2, <1>3, <2>2, <3>1
  <2> QED
    BY <1>0, <1>2, <2>1, <2>2
<1>6. \A i \in 1 .. d : t - log2[i] > w
  <2> TAKE i \in 1 .. d
  <2>1. i \in 1 .. Len(log)
    BY <1>0
  <2> QED
    BY <1>1, <1>3, <2>1
<1>7. Keeps(queue2, log2, t, w)
  BY <1>2, <1>4, <1>5, <1>6 DEF Keeps
<1> QED
  BY <1>7 DEF queue2, log2

\* Dropping old entries from the left keeps what must be kept.
LEMMA KeepsDrop ==
  ASSUME NEW queue, NEW log \in Seq(Nat), NEW t \in Nat, NEW w \in Nat,
         Keeps(queue, log, t, w),
         NEW k \in 1 .. (Len(queue) + 1),
         \A i \in 1 .. (k - 1) : t - queue[i] > w
  PROVE  Keeps(SubSeq(queue, k, Len(queue)), log, t, w)
<1> DEFINE rest == SubSeq(queue, k, Len(queue))
<1>0. queue \in Seq(Nat) /\ Len(queue) \in Nat /\ Len(log) \in Nat
  BY LenProperties DEF Keeps
<1>1. PICK d \in 0 .. Len(log) :
        /\ Len(queue) = Len(log) - d
        /\ \A i \in 1 .. Len(queue) : queue[i] = log[d + i]
        /\ \A i \in 1 .. d : t - log[i] > w
  BY DEF Keeps
<1>2. \A i \in k .. Len(queue) : queue[i] \in Nat
  BY <1>0, ElementOfSeq
<1>3. /\ rest \in Seq(Nat)
      /\ Len(rest) = Len(queue) - k + 1
      /\ \A i \in 1 .. (Len(queue) - k + 1) : rest[i] = queue[k + i - 1]
  BY <1>0, <1>2, SubSeqProperties
<1> HIDE DEF rest
<1> DEFINE e == d + k - 1
<1>4. e \in 0 .. Len(log) /\ Len(rest) = Len(log) - e
  BY <1>0, <1>1, <1>3
<1>5. \A i \in 1 .. Len(rest) : rest[i] = log[e + i]
  <2> TAKE i \in 1 .. Len(rest)
  <2>1. k + i - 1 \in 1 .. Len(queue) /\ d + (k + i - 1) = e + i
    BY <1>0, <1>3
  <2>2. queue[k + i - 1] = log[d + (k + i - 1)]
    BY <1>1, <2>1
  <2>3. i \in 1 .. (Len(queue) - k + 1)
    BY <1>0, <1>3
  <2>4. rest[i] = queue[k + i - 1]
    BY <1>3, <2>3
  <2> QED
    BY <2>1, <2>2, <2>4
<1>6. \A i \in 1 .. e : t - log[i] > w
  <2> TAKE i \in 1 .. e
  <2>1. CASE i \in 1 .. d
    BY <1>1, <2>1
  <2>2. CASE i \notin 1 .. d
    <3>1. i - d \in 1 .. (k - 1) /\ i - d \in 1 .. Len(queue) /\ d + (i - d) = i
      BY <1>0, <1>1, <2>2
    <3>2. queue[i - d] = log[i]
      BY <1>1, <3>1
    <3>3. t - queue[i - d] > w
      BY <3>1
    <3> QED
      BY <3>2, <3>3
  <2> QED
    BY <2>1, <2>2
<1>7. Keeps(rest, log, t, w)
  BY <1>3, <1>4, <1>5, <1>6 DEF Keeps
<1> QED
  BY <1>7 DEF rest

\* The queue is long enough to count every young entry.
LEMMA KeepsCount ==
  ASSUME NEW queue, NEW log \in Seq(Nat), NEW t \in Nat, NEW w \in Nat,
         Keeps(queue, log, t, w)
  PROVE  /\ Len(queue) \in Nat
         /\ Cardinality(Young(log, t, w)) \in Nat
         /\ Cardinality(Young(log, t, w)) <= Len(queue)
<1>0. Len(queue) \in Nat /\ Len(log) \in Nat /\ DOMAIN log = 1 .. Len(log)
  BY LenProperties DEF Keeps
<1>1. PICK d \in 0 .. Len(log) :
        /\ Len(queue) = Len(log) - d
        /\ \A i \in 1 .. d : t - log[i] > w
  BY DEF Keeps
<1>2. \A i \in DOMAIN log : log[i] \in Nat
  BY <1>0, ElementOfSeq
<1>3. Young(log, t, w) \subseteq (d + 1) .. Len(log)
  BY <1>0, <1>1, <1>2 DEF Young
<1>4. /\ IsFiniteSet((d + 1) .. Len(log))
      /\ Cardinality((d + 1) .. Len(log)) = Len(queue)
  <2>1. d + 1 \in Int /\ Len(log) \in Int
    BY <1>0
  <2>2. /\ IsFiniteSet((d + 1) .. Len(log))
        /\ Cardinality((d + 1) .. Len(log))
             = IF d + 1 > Len(log) THEN 0 ELSE Len(log) - (d + 1) + 1
    BY <2>1, FS_Interval
  <2> QED
    BY <1>0, <1>1, <2>2
<1>5. Cardinality(Young(log, t, w)) <= Len(queue)
  BY <1>3, <1>4, FS_Subset
<1> QED
  BY <1>0, <1>5, PositionsFinite DEF Young

-----------------------------------------------------------------------------
\* Money.

\* a = b as numbers.
Same(a, b) == a.num * b.den = b.num * a.den

\* a is in lowest terms.
Reduced(a) == \A k \in 1 .. a.den : a.num % k = 0 /\ a.den % k = 0 => k = 1

\* A non-empty set of numbers between 1 and d has a greatest element.
LEMMA GreatestBelow ==
  ASSUME NEW d \in Nat, NEW T, T \subseteq 1 .. d, T # {}
  PROVE  Max(T) \in T /\ \A y \in T : Max(T) >= y
<1> DEFINE U == {d - k : k \in T}
<1>1. U \subseteq Nat /\ U # {}
  <2>1. \A k \in T : d - k \in Nat
    OBVIOUS
  <2>2. PICK k \in T : TRUE
    OBVIOUS
  <2>3. d - k \in U
    BY <2>2
  <2> QED
    BY <2>1, <2>3
<1>2. PICK u \in U : \A v \in U : u <= v
  BY <1>1, LeastNatural
<1>3. PICK x \in T : u = d - x
  OBVIOUS
<1>4. \A y \in T : x >= y
  <2> TAKE y \in T
  <2>1. d - y \in U
    OBVIOUS
  <2>2. d - x <= d - y /\ x \in Int /\ y \in Int
    BY <1>2, <1>3, <2>1
  <2> QED
    BY <2>2
<1>5. \E z \in T : \A y \in T : z >= y
  BY <1>4
<1> QED
  BY <1>5, Zenon DEF Max

\* A multiple leaves no rest, and a factor can be cancelled.
LEMMA MultipleRest ==
  ASSUME NEW i \in Int, NEW m \in Nat \ {0}
  PROVE  (i * m) % m = 0
OBVIOUS

\* A factor that is not zero can be cancelled.
LEMMA Cancelled ==
  ASSUME NEW a \in Int, NEW b \in Int, NEW k \in Int, k # 0, a * k = b * k
  PROVE  a = b
OBVIOUS

\* What Over divides out is the greatest common divisor.
LEMMA OverParts ==
  ASSUME NEW n \in Int, NEW d \in Nat \ {0}
  PROVE  /\ Over(n, d) \in Fraction
         /\ \E g \in 1 .. d : /\ n = Over(n, d).num * g
                              /\ d = Over(n, d).den * g
                              /\ \A k \in 1 .. d :
                                   n % k = 0 /\ d % k = 0 => k <= g
<1> DEFINE T == {k \in 1 .. d : n % k = 0 /\ d % k = 0}
           g == Max(T)
<1>1. 1 \in T
  OBVIOUS
<1>2. g \in T /\ \A y \in T : g >= y
  <2>1. T \subseteq 1 .. d /\ T # {}
    BY <1>1
  <2> QED
    BY <2>1, GreatestBelow
<1> HIDE DEF g
<1>3. g \in 1 .. d /\ n % g = 0 /\ d % g = 0
  BY <1>2
<1>4. /\ n \div g \in Int /\ d \div g \in Int
      /\ n = (n \div g) * g
      /\ d = (d \div g) * g
  BY <1>3
<1>5. d \div g > 0
  BY <1>3, <1>4
<1>6. Over(n, d) = [num |-> n \div g, den |-> d \div g]
  BY DEF Over, g
<1>7. Over(n, d) \in Fraction
  BY <1>4, <1>5, <1>6 DEF Fraction
<1>8. \A k \in 1 .. d : n % k = 0 /\ d % k = 0 => k <= g
  BY <1>2
<1>9. Over(n, d).num = n \div g /\ Over(n, d).den = d \div g
  BY <1>6
<1> QED
  BY <1>3, <1>4, <1>7, <1>8, <1>9

\* Dividing out the common factor leaves the number as it was.
LEMMA OverSame ==
  ASSUME NEW n \in Int, NEW d \in Nat \ {0}
  PROVE  /\ Over(n, d) \in Fraction
         /\ Over(n, d).num * d = n * Over(n, d).den
<1>1. Over(n, d) \in Fraction
  BY OverParts
<1>2. Over(n, d).num \in Int /\ Over(n, d).den \in Int
  BY <1>1 DEF Fraction
<1>3. PICK g \in 1 .. d : n = Over(n, d).num * g /\ d = Over(n, d).den * g
  BY OverParts
<1> DEFINE p == Over(n, d).num
           q == Over(n, d).den
<1>4. p * (q * g) = (p * g) * q
  BY <1>2
<1> QED
  BY <1>1, <1>3, <1>4

\* What Over returns is in lowest terms.
LEMMA OverReduced ==
  ASSUME NEW n \in Int, NEW d \in Nat \ {0}
  PROVE  Reduced(Over(n, d))
<1> DEFINE p == Over(n, d).num
           q == Over(n, d).den
<1>1. p \in Int /\ q \in Nat \ {0}
  BY OverParts DEF Fraction
<1>2. PICK g \in 1 .. d : /\ n = p * g /\ d = q * g
                          /\ \A k \in 1 .. d : n % k = 0 /\ d % k = 0 => k <= g
  BY OverParts
<1> SUFFICES ASSUME NEW k \in 1 .. q, p % k = 0, q % k = 0 PROVE k = 1
  BY DEF Reduced
<1> HIDE DEF p, q
<1>3. PICK i \in Int : p = i * k
  <2>1. p = (p \div k) * k /\ p \div k \in Int
    BY <1>1
  <2> QED
    BY <2>1
<1>4. PICK j \in Int : q = j * k
  <2>1. q = (q \div k) * k /\ q \div k \in Int
    BY <1>1
  <2> QED
    BY <2>1
<1>5. k * g \in Nat \ {0} /\ k \in Nat \ {0} /\ g \in Nat \ {0}
  BY <1>1
<1>6. n = i * (k * g) /\ d = j * (k * g)
  BY <1>2, <1>3, <1>4
<1>7. n % (k * g) = 0 /\ d % (k * g) = 0
  BY <1>5, <1>6, MultipleRest
<1>8. k * g <= d
  <2>1. k <= q
    BY <1>1
  <2> QED
    BY <1>1, <1>2, <1>5, <2>1
<1>9. k * g <= g
  BY <1>2, <1>5, <1>7, <1>8
<1> QED
  BY <1>5, <1>9

\* A fraction in lowest terms: 1 is a combination of its parts.
LEMMA Bezout ==
  ASSUME NEW a \in Fraction, Reduced(a)
  PROVE  \E x, y \in Int : x * a.num + y * a.den = 1
<1> DEFINE n == a.num
           d == a.den
           Combined(z) == \E x, y \in Int : z = x * n + y * d
           S == {z \in Nat \ {0} : Combined(z)}
<1>1. n \in Int /\ d \in Nat \ {0}
  BY DEF Fraction
<1> HIDE DEF n, d
<1>2. Combined(n) /\ Combined(d)
  <2>1. n = 1 * n + 0 * d /\ d = 0 * n + 1 * d
    BY <1>1
  <2> QED
    BY <2>1
<1>3. PICK g \in S : \A z \in S : g <= z
  <2>1. S \subseteq Nat /\ d \in S
    BY <1>1, <1>2
  <2> HIDE DEF S
  <2> QED
    BY <2>1, LeastNatural
<1>4. PICK x \in Int, y \in Int : g = x * n + y * d
  BY <1>3
<1>5. g \in Nat \ {0}
  BY <1>3
<1>6. ASSUME NEW m \in Int, Combined(m)
      PROVE  m % g = 0
  <2> DEFINE r == m % g
             q == m \div g
  <2>1. PICK u \in Int, v \in Int : m = u * n + v * d
    BY <1>6
  <2>2. r \in 0 .. (g - 1) /\ q \in Int /\ m = q * g + r
    BY <1>5
  <2> HIDE DEF r, q
  <2>3. r = (u - q * x) * n + (v - q * y) * d
    BY <1>1, <1>4, <1>5, <2>1, <2>2
  <2>4. u - q * x \in Int /\ v - q * y \in Int
    BY <2>2
  <2>5. Combined(r)
    BY <2>3, <2>4
  <2>6. r # 0 => r \in S
    BY <2>2, <2>5
  <2>7. r = 0
    BY <1>3, <1>5, <2>2, <2>6
  <2> QED
    BY <2>7 DEF r
<1>7. n % g = 0 /\ d % g = 0
  <2> HIDE DEF Combined
  <2> QED
    BY <1>1, <1>2, <1>6
<1>8. g <= d
  BY <1>1, <1>2, <1>3
<1>9. g = 1
  BY <1>1, <1>5, <1>7, <1>8 DEF Reduced, n, d
<1> QED
  BY <1>4, <1>9 DEF n, d

\* Equal numbers in lowest terms are equal records.
LEMMA Canonical ==
  ASSUME NEW a \in Fraction, NEW b \in Fraction,
         Reduced(a), Reduced(b), Same(a, b)
  PROVE  a = b
<1>1. /\ a.num \in Int /\ a.den \in Nat \ {0} /\ b.num \in Int /\ b.den \in Nat \ {0}
      /\ a = [num |-> a.num, den |-> a.den] /\ b = [num |-> b.num, den |-> b.den]
  BY DEF Fraction
<1>2. ASSUME NEW c \in Fraction, NEW e \in Fraction, Reduced(c), Same(c, e)
      PROVE  c.den <= e.den
  <2> DEFINE n == c.num
             d == c.den
             p == e.num
             q == e.den
  <2>1. n \in Int /\ d \in Nat \ {0} /\ p \in Int /\ q \in Nat \ {0}
    BY DEF Fraction
  <2>2. PICK x \in Int, y \in Int : x * n + y * d = 1
    BY <1>2, Bezout
  <2>3. n * q = p * d
    BY <1>2 DEF Same
  <2> HIDE DEF n, d, p, q
  <2>4. q = (x * p + y * q) * d
    <3>1. q = (x * n + y * d) * q
      BY <2>1, <2>2
    <3>2. (x * n + y * d) * q = x * (n * q) + (y * q) * d
      BY <2>1
    <3>3. x * (p * d) + (y * q) * d = (x * p + y * q) * d
      BY <2>1
    <3> QED
      BY <2>3, <3>1, <3>2, <3>3
  <2> DEFINE t == x * p + y * q
  <2>5. t \in Int
    BY <2>1
  <2> HIDE DEF t
  <2>6. q = t * d
    BY <2>4 DEF t
  <2>7. t > 0
    BY <2>1, <2>5, <2>6
  <2>8. d <= q
    BY <2>1, <2>5, <2>6, <2>7
  <2> QED
    BY <2>8 DEF d, q
<1>3. Same(b, a)
  BY DEF Same
<1>4. a.den <= b.den /\ b.den <= a.den
  BY <1>2, <1>3
<1>5. a.den = b.den
  BY <1>1, <1>4
<1>6. a.num = b.num
  <2>1. a.num * a.den = b.num * a.den
    BY <1>5 DEF Same
  <2> QED
    BY <1>1, <2>1, Cancelled
<1> QED
  BY <1>1, <1>5, <1>6

-----------------------------------------------------------------------------
\* a = n / d, for d > 0: fractions over a common denominator add up as their
\* numerators do.
Worth(a, n, d) == a.num * d = n * a.den

\* Numerator and denominator of a fraction.
LEMMA FractionParts ==
  ASSUME NEW a \in Fraction
  PROVE  a.num \in Int /\ a.den \in Nat \ {0}
BY DEF Fraction

\* Over(n, d) is worth n / d, in lowest terms.
LEMMA WorthOver ==
  ASSUME NEW n \in Int, NEW d \in Nat \ {0}
  PROVE  /\ Over(n, d) \in Fraction /\ Reduced(Over(n, d))
         /\ Worth(Over(n, d), n, d)
BY OverSame, OverReduced DEF Worth

\* What is worth n / d is worth n2 / d2 when these are equal.
LEMMA WorthEqual ==
  ASSUME NEW a \in Fraction, NEW n \in Int, NEW d \in Nat \ {0},
         NEW n2 \in Int, NEW d2 \in Nat \ {0}, n * d2 = n2 * d, Worth(a, n, d)
  PROVE  Worth(a, n2, d2)
<1> DEFINE p == a.num
           q == a.den
<1>1. p \in Int /\ q \in Nat \ {0} /\ p * d = n * q
  BY FractionParts DEF Worth
<1> HIDE DEF p, q
<1>2. (p * d2) * d = (p * d) * d2
  BY <1>1
<1>3. (n * q) * d2 = (n * d2) * q
  BY <1>1
<1>4. (n2 * d) * q = (n2 * q) * d
  BY <1>1
<1>5. (p * d2) * d = (n2 * q) * d
  BY <1>1, <1>2, <1>3, <1>4
<1>6. p * d2 \in Int /\ n2 * q \in Int /\ d \in Int /\ d # 0
  BY <1>1
<1>7. p * d2 = n2 * q
  BY <1>5, <1>6, Cancelled
<1> QED
  BY <1>7 DEF p, q, Worth

\* A fraction is worth n * k over d * k when it is worth n over d.
LEMMA WorthScaled ==
  ASSUME NEW a \in Fraction, NEW n \in Int, NEW d \in Nat \ {0},
         NEW k \in Nat \ {0}, Worth(a, n, d)
  PROVE  /\ n * k \in Int /\ d * k \in Nat \ {0}
         /\ Worth(a, n * k, d * k)
<1>1. n * k \in Int /\ d * k \in Nat \ {0} /\ n * (d * k) = (n * k) * d
  OBVIOUS
<1> QED
  BY <1>1, WorthEqual

\* Two fractions have a common denominator.
LEMMA CommonDenominator ==
  ASSUME NEW a \in Fraction, NEW b \in Fraction
  PROVE  \E d \in Nat \ {0} : \E n, m \in Int : Worth(a, n, d) /\ Worth(b, m, d)
<1>1. a.num \in Int /\ a.den \in Nat \ {0} /\ b.num \in Int /\ b.den \in Nat \ {0}
  BY FractionParts
<1>2. Worth(a, a.num, a.den) /\ Worth(b, b.num, b.den)
  BY DEF Worth
<1>3. Worth(a, a.num * b.den, a.den * b.den)
  BY <1>1, <1>2, WorthScaled
<1>4. Worth(b, b.num * a.den, b.den * a.den)
  BY <1>1, <1>2, WorthScaled
<1>5. /\ b.den * a.den = a.den * b.den /\ a.den * b.den \in Nat \ {0}
      /\ a.num * b.den \in Int /\ b.num * a.den \in Int
  BY <1>1
<1> QED
  BY <1>3, <1>4, <1>5

\* A whole number over any denominator.
LEMMA WorthWhole ==
  ASSUME NEW k \in Int, NEW d \in Nat \ {0}
  PROVE  /\ Whole(k) \in Fraction /\ Reduced(Whole(k))
         /\ Worth(Whole(k), k * d, d)
BY DEF Whole, Fraction, Reduced, Worth

\* Over a common denominator Plus adds the numerators.
LEMMA WorthPlus ==
  ASSUME NEW a \in Fraction, NEW b \in Fraction, NEW d \in Nat \ {0},
         NEW n \in Int, NEW m \in Int, Worth(a, n, d), Worth(b, m, d)
  PROVE  /\ Plus(a, b) \in Fraction /\ Reduced(Plus(a, b))
         /\ Worth(Plus(a, b), n + m, d)
<1> DEFINE p == a.num
           q == a.den
           r == b.num
           s == b.den
<1>1. /\ p \in Int /\ q \in Nat \ {0} /\ r \in Int /\ s \in Nat \ {0}
      /\ p * d = n * q /\ r * d = m * s
  BY FractionParts DEF Worth
<1>2. Plus(a, b) = Over(p * s + r * q, q * s)
  BY DEF Plus
<1> HIDE DEF p, q, r, s
<1>3. p * s + r * q \in Int /\ q * s \in Nat \ {0}
  BY <1>1
<1>4. /\ Plus(a, b) \in Fraction /\ Reduced(Plus(a, b))
      /\ Worth(Plus(a, b), p * s + r * q, q * s)
  BY <1>2, <1>3, WorthOver
<1>5. (p * s + r * q) * d = (n + m) * (q * s)
  <2>1. (p * s + r * q) * d = (p * d) * s + (r * d) * q
    BY <1>1
  <2>2. (n * q) * s + (m * s) * q = (n + m) * (q * s)
    BY <1>1
  <2> QED
    BY <1>1, <2>1, <2>2
<1> QED
  BY <1>3, <1>4, <1>5, WorthEqual

\* Times multiplies the numerator.
LEMMA WorthTimes ==
  ASSUME NEW k \in Int, NEW a \in Fraction, NEW d \in Nat \ {0}, NEW n \in Int,
         Worth(a, n, d)
  PROVE  /\ Times(k, a) \in Fraction /\ Reduced(Times(k, a))
         /\ Worth(Times(k, a), k * n, d)
<1> DEFINE p == a.num
           q == a.den
<1>1. p \in Int /\ q \in Nat \ {0} /\ p * d = n * q
  BY FractionParts DEF Worth
<1>2. Times(k, a) = Over(k * p, q)
  BY DEF Times
<1> HIDE DEF p, q
<1>3. k * p \in Int /\ k * n \in Int
  BY <1>1
<1>4. /\ Times(k, a) \in Fraction /\ Reduced(Times(k, a))
      /\ Worth(Times(k, a), k * p, q)
  BY <1>1, <1>2, <1>3, WorthOver
<1>5. (k * p) * d = (k * n) * q
  <2>1. (k * p) * d = k * (p * d) /\ (k * n) * q = k * (n * q)
    BY <1>1
  <2> QED
    BY <1>1, <2>1
<1> QED
  BY <1>1, <1>3, <1>4, <1>5, WorthEqual

\* Over a common denominator Minus subtracts the numerators.
LEMMA WorthMinus ==
  ASSUME NEW a \in Fraction, NEW b \in Fraction, NEW d \in Nat \ {0},
         NEW n \in Int, NEW m \in Int, Worth(a, n, d), Worth(b, m, d)
  PROVE  /\ Minus(a, b) \in Fraction /\ Reduced(Minus(a, b))
         /\ Worth(Minus(a, b), n - m, d)
<1>1. Times(-1, b) \in Fraction /\ Worth(Times(-1, b), (-1) * m, d)
  BY WorthTimes
<1>2. (-1) * m \in Int /\ n + (-1) * m = n - m
  OBVIOUS
<1> QED
  BY <1>1, <1>2, WorthPlus DEF Minus

\* Divided multiplies the denominator.
LEMMA WorthDivided ==
  ASSUME NEW a \in Fraction, NEW k \in Nat \ {0}, NEW d \in Nat \ {0},
         NEW n \in Int, Worth(a, n, d)
  PROVE  /\ Divided(a, k) \in Fraction /\ Reduced(Divided(a, k))
         /\ Worth(Divided(a, k), n, d * k)
<1> DEFINE p == a.num
           q == a.den
<1>1. p \in Int /\ q \in Nat \ {0} /\ p * d = n * q
  BY FractionParts DEF Worth
<1>2. Divided(a, k) = Over(p, q * k)
  BY DEF Divided
<1> HIDE DEF p, q
<1>3. q * k \in Nat \ {0} /\ d * k \in Nat \ {0}
  BY <1>1
<1>4. /\ Divided(a, k) \in Fraction /\ Reduced(Divided(a, k))
      /\ Worth(Divided(a, k), p, q * k)
  BY <1>1, <1>2, <1>3, WorthOver
<1>5. p * (d * k) = n * (q * k)
  <2>1. p * (d * k) = (p * d) * k /\ n * (q * k) = (n * q) * k
    BY <1>1
  <2> QED
    BY <1>1, <2>1
<1> QED
  BY <1>1, <1>3, <1>4, <1>5, WorthEqual

\* Fractions in lowest terms that are worth the same are equal.
LEMMA WorthUnique ==
  ASSUME NEW a \in Fraction, NEW b \in Fraction, Reduced(a), Reduced(b),
         NEW n \in Int, NEW d \in Nat \ {0}, Worth(a, n, d), Worth(b, n, d)
  PROVE  a = b
<1>1. a.num \in Int /\ a.den \in Nat \ {0} /\ b.num \in Int /\ b.den \in Nat \ {0}
  BY FractionParts
<1>2. n * b.den = b.num * d
  BY DEF Worth
<1>3. Worth(a, b.num, b.den)
  BY <1>1, <1>2, WorthEqual
<1> QED
  BY <1>3, Canonical DEF Worth, Same

\* Comparing with a whole number compares numerators.
LEMMA WorthAtMost ==
  ASSUME NEW a \in Fraction, NEW k \in Int, NEW n \in Int, NEW d \in Nat \ {0},
         Worth(a, n, d)
  PROVE  AtMost(a, Whole(k)) <=> n <= k * d
<1> DEFINE p == a.num
           q == a.den
<1>1. p \in Int /\ q \in Nat \ {0} /\ p * d = n * q
  BY FractionParts DEF Worth
<1>2. AtMost(a, Whole(k)) <=> p <= k * q
  BY <1>1 DEF AtMost, Whole
<1> HIDE DEF p, q
<1>3. p <= k * q <=> p * d <= (k * q) * d
  BY <1>1
<1>4. n <= k * d <=> n * q <= (k * d) * q
  BY <1>1
<1>5. (k * q) * d = (k * d) * q
  BY <1>1
<1> QED
  BY <1>1, <1>2, <1>3, <1>4, <1>5

\* Rounding up changes no comparison with a whole number.
LEMMA CeilingAtMost ==
  ASSUME NEW a \in Fraction, NEW k \in Int
  PROVE  Ceiling(a) \in Int /\ (Ceiling(a) <= k <=> AtMost(a, Whole(k)))
<1> DEFINE p == a.num
           q == a.den
           f == (-p) \div q
           r == (-p) % q
<1>1. p \in Int /\ q \in Nat \ {0}
  BY FractionParts
<1>2. Ceiling(a) = -f /\ (AtMost(a, Whole(k)) <=> p <= k * q)
  BY <1>1 DEF Ceiling, AtMost, Whole
<1> HIDE DEF p, q
<1>3. f \in Int /\ r \in 0 .. (q - 1) /\ -p = f * q + r
  BY <1>1
<1> HIDE DEF f, r
<1>4. ASSUME -f <= k PROVE p <= k * q
  <2>1. (-f) * q <= k * q
    BY <1>1, <1>3, <1>4
  <2> QED
    BY <1>1, <1>3, <2>1
<1>5. ASSUME ~(-f <= k) PROVE ~(p <= k * q)
  <2>1. -f >= k + 1
    BY <1>3, <1>5
  <2>2. (-f) * q >= (k + 1) * q
    BY <1>1, <1>3, <2>1
  <2>3. (k + 1) * q = k * q + q /\ k * q \in Int
    BY <1>1
  <2>4. (-f) * q = p + r
    BY <1>1, <1>3
  <2> QED
    BY <1>1, <1>3, <2>2, <2>3, <2>4
<1> QED
  BY <1>2, <1>3, <1>4, <1>5

\* A denominator leaves one numerator.
LEMMA WorthNumber ==
  ASSUME NEW a \in Fraction, NEW n \in Int, NEW m \in Int, NEW d \in Nat \ {0},
         Worth(a, n, d), Worth(a, m, d)
  PROVE  n = m
<1> DEFINE q == a.den
<1>1. q \in Nat \ {0} /\ n * q = m * q
  BY FractionParts DEF Worth
<1> HIDE DEF q
<1> QED
  BY <1>1, Cancelled

\* Three and four fractions have a common denominator too.
LEMMA CommonToThree ==
  ASSUME NEW a \in Fraction, NEW b \in Fraction, NEW c \in Fraction
  PROVE  \E d \in Nat \ {0} : \E n, m, k \in Int :
           Worth(a, n, d) /\ Worth(b, m, d) /\ Worth(c, k, d)
<1>1. PICK e \in Nat \ {0} : \E n, m \in Int : Worth(a, n, e) /\ Worth(b, m, e)
  BY CommonDenominator
<1>2. PICK n \in Int, m \in Int : Worth(a, n, e) /\ Worth(b, m, e)
  BY <1>1
<1> DEFINE p == c.num
           q == c.den
<1>3. p \in Int /\ q \in Nat \ {0} /\ Worth(c, p, q)
  BY FractionParts DEF Worth
<1> HIDE DEF p, q
<1>4. /\ n * q \in Int /\ e * q \in Nat \ {0}
      /\ Worth(a, n * q, e * q) /\ Worth(b, m * q, e * q)
  BY <1>2, <1>3, WorthScaled
<1>5. Worth(c, p * e, q * e)
  BY <1>3, WorthScaled
<1>6. m * q \in Int /\ p * e \in Int /\ q * e = e * q
  BY <1>3
<1> QED
  BY <1>4, <1>5, <1>6

\* The same for four fractions: positions, prices and two partial sums.
LEMMA CommonToFour ==
  ASSUME NEW a \in Fraction, NEW b \in Fraction, NEW c \in Fraction,
         NEW w \in Fraction
  PROVE  \E d \in Nat \ {0} : \E n, m, k, i \in Int :
           Worth(a, n, d) /\ Worth(b, m, d) /\ Worth(c, k, d) /\ Worth(w, i, d)
<1>1. PICK e \in Nat \ {0} : \E n, m, k \in Int :
        Worth(a, n, e) /\ Worth(b, m, e) /\ Worth(c, k, e)
  BY CommonToThree
<1>2. PICK n \in Int, m \in Int, k \in Int :
        Worth(a, n, e) /\ Worth(b, m, e) /\ Worth(c, k, e)
  BY <1>1
<1> DEFINE p == w.num
           q == w.den
<1>3. p \in Int /\ q \in Nat \ {0} /\ Worth(w, p, q)
  BY FractionParts DEF Worth
<1> HIDE DEF p, q
<1>4. /\ n * q \in Int /\ e * q \in Nat \ {0}
      /\ Worth(a, n * q, e * q) /\ Worth(b, m * q, e * q) /\ Worth(c, k * q, e * q)
  BY <1>2, <1>3, WorthScaled
<1>5. Worth(w, p * e, q * e)
  BY <1>3, WorthScaled
<1>6. m * q \in Int /\ k * q \in Int /\ p * e \in Int /\ q * e = e * q
  BY <1>3
<1> QED
  BY <1>4, <1>5, <1>6

\* The magnitude of a fraction that is not negative is the fraction.
LEMMA MagnitudeOfNatural ==
  ASSUME NEW a \in Fraction, NEW n \in Nat, NEW d \in Nat \ {0}, Worth(a, n, d)
  PROVE  Magnitude(a) = a
<1> DEFINE p == a.num
           q == a.den
<1>1. /\ p \in Int /\ q \in Nat \ {0} /\ p * d = n * q
      /\ a = [num |-> p, den |-> q]
  BY FractionParts DEF Worth, Fraction
<1> HIDE DEF p, q
<1>2. n * q >= 0
  BY <1>1
<1>3. p >= 0
  BY <1>1, <1>2
<1>4. AbsInt(p) = p
  BY <1>1, <1>3 DEF AbsInt
<1> QED
  BY <1>1, <1>4 DEF Magnitude

\* A magnitude is a fraction that is not negative.
LEMMA MagnitudeTyped ==
  ASSUME NEW a \in Fraction
  PROVE  Magnitude(a) \in Fraction /\ Magnitude(a).num >= 0
BY DEF Magnitude, AbsInt, Fraction

-----------------------------------------------------------------------------
\* The element a fold takes off a set.
Pick(s) == CHOOSE x \in s : TRUE

\* The element a fold takes off a set is one of the set.
LEMMA PickIn ==
  ASSUME NEW s, s # {}
  PROVE  Pick(s) \in s
BY DEF Pick

\* Of the subsets of a finite set that are bad there is a smallest.
LEMMA SmallestSubset ==
  ASSUME NEW S, IsFiniteSet(S), NEW B \in SUBSET (SUBSET S), B # {}
  PROVE  \E s \in B : \A r \in SUBSET s : r # s => r \notin B
<1> DEFINE Sizes == {Cardinality(s) : s \in B}
<1>1. \A s \in SUBSET S : IsFiniteSet(s) /\ Cardinality(s) \in Nat
  BY FS_Subset, FS_CardinalityType
<1>2. Sizes \subseteq Nat /\ Sizes # {}
  BY <1>1
<1>3. PICK n \in Sizes : \A m \in Sizes : n <= m
  BY <1>2, LeastNatural
<1>4. PICK s \in B : n = Cardinality(s)
  BY <1>3
<1>5. ASSUME NEW r \in SUBSET s, r # s, r \in B PROVE FALSE
  <2>1. Cardinality(r) <= Cardinality(s) /\ Cardinality(s) # Cardinality(r)
    BY <1>1, <1>5, FS_Subset
  <2>2. Cardinality(s) <= Cardinality(r)
    BY <1>3, <1>4, <1>5
  <2>3. Cardinality(s) \in Nat /\ Cardinality(r) \in Nat
    BY <1>1
  <2> QED
    BY <2>1, <2>2, <2>3
<1> QED
  BY <1>5

\* The recursion of a fold whose step is the function G.
Follows(f, base, G, D) ==
  \A s \in D : f[s] = IF s = {} THEN base ELSE G[<<Pick(s), f[s \ {Pick(s)}]>>]

\* Taking an element off a finite set leaves a smaller one.
LEMMA Smaller ==
  ASSUME NEW s, IsFiniteSet(s), NEW x \in s
  PROVE  /\ IsFiniteSet(s \ {x})
         /\ Cardinality(s) \in Nat
         /\ Cardinality(s \ {x}) = Cardinality(s) - 1
BY FS_RemoveElement, FS_CardinalityType

\* That recursion has a solution on the subsets of a finite set.
LEMMA FoldDefined ==
  ASSUME NEW S, IsFiniteSet(S), NEW V, NEW base \in V, NEW G \in [S \X V -> V]
  PROVE  \E f \in [SUBSET S -> V] : Follows(f, base, G, SUBSET S)
<1> DEFINE UpTo(n) == {s \in SUBSET S : Cardinality(s) <= n}
           Solved(n) == \E f \in [UpTo(n) -> V] : Follows(f, base, G, UpTo(n))
           Bad == {n \in Nat : ~Solved(n)}
<1>1. \A s \in SUBSET S : IsFiniteSet(s) /\ Cardinality(s) \in Nat
                          /\ Cardinality(s) <= Cardinality(S)
  BY FS_Subset, FS_CardinalityType
<1>2. Solved(0)
  <2> DEFINE f == [s \in UpTo(0) |-> base]
  <2>1. \A s \in UpTo(0) : s = {}
    BY <1>1, FS_EmptySet
  <2>2. f \in [UpTo(0) -> V] /\ Follows(f, base, G, UpTo(0))
    BY <2>1 DEF Follows
  <2> QED
    BY <2>2
<1>3. ASSUME NEW n \in Nat, Solved(n) PROVE Solved(n + 1)
  <2>1. PICK f \in [UpTo(n) -> V] : Follows(f, base, G, UpTo(n))
    BY <1>3
  <2> DEFINE Value(s) == IF s = {} THEN base
                         ELSE G[<<Pick(s), f[s \ {Pick(s)}]>>]
             g == [s \in UpTo(n + 1) |-> Value(s)]
  <2>2. ASSUME NEW s \in UpTo(n + 1), s # {}
        PROVE  /\ Pick(s) \in S
               /\ s \ {Pick(s)} \in UpTo(n) /\ s \ {Pick(s)} \in UpTo(n + 1)
               /\ f[s \ {Pick(s)}] \in V
               /\ g[s \ {Pick(s)}] = f[s \ {Pick(s)}]
    <3>1. s \in SUBSET S /\ Pick(s) \in s
      BY <2>2, PickIn
    <3>2. s \ {Pick(s)} \in UpTo(n)
      BY <1>1, <3>1, Smaller
    <3>3. s \ {Pick(s)} \in UpTo(n + 1)
      BY <1>1, <3>2
    <3>4. g[s \ {Pick(s)}] = Value(s \ {Pick(s)})
      BY <3>3
    <3>5. f[s \ {Pick(s)}] = Value(s \ {Pick(s)})
      BY <2>1, <3>2 DEF Follows
    <3> QED
      BY <3>1, <3>2, <3>3, <3>4, <3>5
  <2>3. \A s \in UpTo(n + 1) : Value(s) \in V
    BY <2>2
  <2>4. g \in [UpTo(n + 1) -> V]
    BY <2>3
  <2>5. Follows(g, base, G, UpTo(n + 1))
    <3> SUFFICES ASSUME NEW s \in UpTo(n + 1)
                 PROVE  g[s] = IF s = {} THEN base
                               ELSE G[<<Pick(s), g[s \ {Pick(s)}]>>]
      BY DEF Follows
    <3>1. g[s] = Value(s)
      OBVIOUS
    <3> QED
      BY <2>2, <3>1
  <2> QED
    BY <2>4, <2>5
<1>4. Bad = {}
  <2> SUFFICES ASSUME Bad # {} PROVE FALSE
    OBVIOUS
  <2>1. PICK n \in Bad : \A m \in Bad : n <= m
    <3> HIDE DEF Solved
    <3>1. Bad \subseteq Nat
      OBVIOUS
    <3> QED
      BY <3>1, LeastNatural
  <2> HIDE DEF Solved
  <2>2. n # 0 /\ n - 1 \in Nat /\ n - 1 \notin Bad
    BY <1>2, <2>1
  <2>3. Solved((n - 1) + 1)
    BY <1>3, <2>2
  <2>4. (n - 1) + 1 = n
    BY <2>1
  <2> QED
    BY <2>1, <2>3, <2>4
<1>5. UpTo(Cardinality(S)) = SUBSET S
  BY <1>1
<1>6. Cardinality(S) \in Nat
  BY FS_CardinalityType
<1>7. Solved(Cardinality(S))
  <2> HIDE DEF Solved
  <2> QED
    BY <1>4, <1>6
<1> QED
  BY <1>5, <1>7

\* f is the fold of t with Plus on S and on each of its subsets.
IsPlusFold(f, base, t, S) ==
  /\ f \in [SUBSET S -> Fraction]
  /\ f[{}] = base
  /\ \A s \in SUBSET S :
       s # {} => f[s] = Plus(t[Pick(s)], f[s \ {Pick(s)}])

\* A fold of Plus is the last value of a function that adds one term at a time.
LEMMA PlusFold ==
  ASSUME NEW S, IsFiniteSet(S), NEW base \in Fraction, NEW t,
         \A x \in S : t[x] \in Fraction
  PROVE  \E f : /\ IsPlusFold(f, base, t, S)
                /\ f[S] = FoldFunctionOnSet(Plus, base, t, S)
<1> DEFINE G == [p \in S \X Fraction |-> Plus(t[p[1]], p[2])]
           Step(f) == [s \in SUBSET S |->
                         IF s = {} THEN base
                         ELSE Plus(t[Pick(s)], f[s \ {Pick(s)}])]
           it == CHOOSE f : f = Step(f)
<1>1. \A a, b \in Fraction : Plus(a, b) \in Fraction
  BY CommonDenominator, WorthPlus
<1>2. G \in [S \X Fraction -> Fraction]
  BY <1>1
<1>3. PICK f \in [SUBSET S -> Fraction] : Follows(f, base, G, SUBSET S)
  <2> HIDE DEF G
  <2> QED
    BY <1>2, FoldDefined
<1>4. ASSUME NEW s \in SUBSET S, s # {}
      PROVE  /\ Pick(s) \in S /\ s \ {Pick(s)} \in SUBSET S
             /\ f[s \ {Pick(s)}] \in Fraction
             /\ G[<<Pick(s), f[s \ {Pick(s)}]>>]
                  = Plus(t[Pick(s)], f[s \ {Pick(s)}])
  <2>1. Pick(s) \in S /\ s \ {Pick(s)} \in SUBSET S
    BY <1>4, PickIn
  <2>2. f[s \ {Pick(s)}] \in Fraction
    BY <2>1
  <2>3. <<Pick(s), f[s \ {Pick(s)}]>> \in S \X Fraction
    BY <2>1, <2>2
  <2> QED
    BY <2>1, <2>2, <2>3
<1>5. f = Step(f)
  <2>1. \A s \in SUBSET S : f[s] = Step(f)[s]
    <3> HIDE DEF G
    <3> QED
      BY <1>3, <1>4 DEF Follows
  <2> QED
    BY <2>1
<1>6. it = Step(it)
  BY <1>5
<1>7. it[S] = FoldFunctionOnSet(Plus, base, t, S)
  BY DEF FoldFunctionOnSet, MapThenFoldSet, Pick
<1> HIDE DEF it
<1>8. \A s \in SUBSET S :
        it[s] = IF s = {} THEN base ELSE Plus(t[Pick(s)], it[s \ {Pick(s)}])
  BY <1>6
<1>9. \A s \in SUBSET S : it[s] \in Fraction
  <2> DEFINE B == {s \in SUBSET S : it[s] \notin Fraction}
  <2> SUFFICES ASSUME B # {} PROVE FALSE
    OBVIOUS
  <2>0. B \in SUBSET (SUBSET S)
    OBVIOUS
  <2>1. PICK s \in B : \A r \in SUBSET s : r # s => r \notin B
    <3> HIDE DEF B
    <3> QED
      BY <2>0, SmallestSubset
  <2>2. s # {}
    <3>1. it[{}] \in Fraction
      BY <1>8
    <3> QED
      BY <2>1, <3>1
  <2>3. Pick(s) \in s /\ s \ {Pick(s)} \in SUBSET S
    BY <2>1, <2>2, PickIn
  <2>4. s \ {Pick(s)} \notin B
    BY <2>1, <2>3
  <2>5. it[s \ {Pick(s)}] \in Fraction /\ t[Pick(s)] \in Fraction
    BY <2>3, <2>4
  <2>6. s \in SUBSET S /\ it[s] \notin Fraction
    BY <2>1
  <2>7. it[s] = Plus(t[Pick(s)], it[s \ {Pick(s)}])
    BY <1>8, <2>2, <2>6
  <2> QED
    BY <1>1, <2>5, <2>6, <2>7
<1>10. it \in [SUBSET S -> Fraction]
  BY <1>6, <1>9
<1>11. IsPlusFold(it, base, t, S)
  BY <1>8, <1>10 DEF IsPlusFold
<1> QED
  BY <1>7, <1>11

\* f is the sum of t on S and on each of its subsets.
IsSum(f, t, S) ==
  /\ f \in [SUBSET S -> Int]
  /\ f[{}] = 0
  /\ \A s \in SUBSET S :
       s # {} => f[s] = t[Pick(s)] + f[s \ {Pick(s)}]

\* So is a sum.
LEMMA SumFold ==
  ASSUME NEW S, IsFiniteSet(S), NEW t, \A x \in S : t[x] \in Int
  PROVE  \E f : IsSum(f, t, S) /\ f[S] = SumFunctionOnSet(t, S)
<1> DEFINE G == [p \in S \X Int |-> t[p[1]] + p[2]]
           Step(f) == [s \in SUBSET S |->
                         IF s = {} THEN 0
                         ELSE t[Pick(s)] + f[s \ {Pick(s)}]]
           it == CHOOSE f : f = Step(f)
<1>2. G \in [S \X Int -> Int]
  OBVIOUS
<1>3. PICK f \in [SUBSET S -> Int] : Follows(f, 0, G, SUBSET S)
  <2> HIDE DEF G
  <2>1. 0 \in Int
    OBVIOUS
  <2> QED
    BY <1>2, <2>1, FoldDefined
<1>4. ASSUME NEW s \in SUBSET S, s # {}
      PROVE  /\ Pick(s) \in S /\ s \ {Pick(s)} \in SUBSET S
             /\ f[s \ {Pick(s)}] \in Int
             /\ G[<<Pick(s), f[s \ {Pick(s)}]>>]
                  = t[Pick(s)] + f[s \ {Pick(s)}]
  <2>1. Pick(s) \in S /\ s \ {Pick(s)} \in SUBSET S
    BY <1>4, PickIn
  <2>2. f[s \ {Pick(s)}] \in Int
    BY <2>1
  <2>3. <<Pick(s), f[s \ {Pick(s)}]>> \in S \X Int
    BY <2>1, <2>2
  <2> QED
    BY <2>1, <2>2, <2>3
<1>5. f = Step(f)
  <2>1. \A s \in SUBSET S : f[s] = Step(f)[s]
    <3> HIDE DEF G
    <3> QED
      BY <1>3, <1>4 DEF Follows
  <2> QED
    BY <2>1
<1>6. it = Step(it)
  BY <1>5
<1>7. it[S] = SumFunctionOnSet(t, S)
  BY DEF SumFunctionOnSet, FoldFunctionOnSet, MapThenFoldSet, Pick
<1> HIDE DEF it
<1>8. \A s \in SUBSET S :
        it[s] = IF s = {} THEN 0 ELSE t[Pick(s)] + it[s \ {Pick(s)}]
  BY <1>6
<1>9. \A s \in SUBSET S : it[s] \in Int
  <2> DEFINE B == {s \in SUBSET S : it[s] \notin Int}
  <2> SUFFICES ASSUME B # {} PROVE FALSE
    OBVIOUS
  <2>0. B \in SUBSET (SUBSET S)
    OBVIOUS
  <2>1. PICK s \in B : \A r \in SUBSET s : r # s => r \notin B
    <3> HIDE DEF B
    <3> QED
      BY <2>0, SmallestSubset
  <2>2. s # {}
    <3>1. {} \in SUBSET S /\ 0 \in Int
      OBVIOUS
    <3>2. it[{}] = 0
      BY <1>8, <3>1, Zenon
    <3>3. it[{}] \in Int
      BY <3>1, <3>2
    <3>4. s \in SUBSET S /\ it[s] \notin Int
      BY <2>1
    <3> QED
      BY <3>3, <3>4, Zenon
  <2>3. Pick(s) \in s /\ s \ {Pick(s)} \in SUBSET S
    BY <2>1, <2>2, PickIn
  <2>4. s \ {Pick(s)} \notin B
    BY <2>1, <2>3
  <2>5. it[s \ {Pick(s)}] \in Int /\ t[Pick(s)] \in Int
    BY <2>3, <2>4
  <2>6. s \in SUBSET S /\ it[s] \notin Int
    BY <2>1
  <2>7. it[s] = t[Pick(s)] + it[s \ {Pick(s)}]
    BY <1>8, <2>2, <2>6
  <2> QED
    BY <2>5, <2>6, <2>7
<1>10. it \in [SUBSET S -> Int]
  BY <1>6, <1>9
<1>11. IsSum(it, t, S)
  BY <1>8, <1>10 DEF IsSum
<1> QED
  BY <1>7, <1>11

\* In a sum any element may be taken off, not the picked one only.
LEMMA SumAny ==
  ASSUME NEW S, IsFiniteSet(S), NEW t, \A x \in S : t[x] \in Int,
         NEW f, IsSum(f, t, S)
  PROVE  \A s \in SUBSET S : \A z \in s : f[s] = t[z] + f[s \ {z}]
<1> DEFINE Good(s) == \A z \in s : f[s] = t[z] + f[s \ {z}]
           B == {s \in SUBSET S : ~Good(s)}
<1> SUFFICES ASSUME B # {} PROVE FALSE
  OBVIOUS
<1>0. B \in SUBSET (SUBSET S)
  OBVIOUS
<1>1. PICK s \in B : \A r \in SUBSET s : r # s => r \notin B
  <2> HIDE DEF B
  <2> QED
    BY <1>0, SmallestSubset
<1>2. PICK z \in s : f[s] # t[z] + f[s \ {z}]
  BY <1>1
<1> DEFINE y == Pick(s)
<1>3. y \in s
  BY <1>2, PickIn
<1>4. f[s] = t[y] + f[s \ {y}]
  BY <1>1, <1>2 DEF IsSum
<1> HIDE DEF y
<1>5. y # z
  BY <1>2, <1>4
<1>6. /\ s \ {y} \in SUBSET S /\ z \in s \ {y} /\ s \ {y} # s
      /\ s \ {z} \in SUBSET S /\ y \in s \ {z} /\ s \ {z} # s
  BY <1>1, <1>2, <1>3, <1>5
<1>7. f[s \ {y}] = t[z] + f[(s \ {y}) \ {z}]
  BY <1>1, <1>6
<1>8. f[s \ {z}] = t[y] + f[(s \ {z}) \ {y}]
  BY <1>1, <1>6
<1>9. (s \ {y}) \ {z} = (s \ {z}) \ {y} /\ (s \ {z}) \ {y} \in SUBSET S
  BY <1>1
<1>10. t[y] \in Int /\ t[z] \in Int /\ f[(s \ {z}) \ {y}] \in Int
  BY <1>1, <1>2, <1>3, <1>9 DEF IsSum
<1>11. f[s \ {y}] = t[z] + f[(s \ {z}) \ {y}]
  BY <1>7, <1>9
<1>12. f[s] = t[y] + (t[z] + f[(s \ {z}) \ {y}])
  BY <1>4, <1>11
<1>13. f[s] = t[z] + (t[y] + f[(s \ {z}) \ {y}])
  BY <1>10, <1>12
<1> QED
  BY <1>2, <1>8, <1>13

\* Sums of functions that agree are equal, and an element adds its value.
LEMMA SumAgrees ==
  ASSUME NEW S, IsFiniteSet(S), NEW T \in SUBSET S, NEW t, NEW u,
         \A x \in S : t[x] \in Int, \A x \in T : u[x] = t[x],
         NEW f, IsSum(f, t, S), NEW g, IsSum(g, u, T)
  PROVE  \A s \in SUBSET T : f[s] = g[s]
<1> DEFINE B == {s \in SUBSET T : f[s] # g[s]}
<1> SUFFICES ASSUME B # {} PROVE FALSE
  OBVIOUS
<1>1. IsFiniteSet(T)
  BY FS_Subset
<1>0. B \in SUBSET (SUBSET T)
  OBVIOUS
<1>2. PICK s \in B : \A r \in SUBSET s : r # s => r \notin B
  <2> HIDE DEF B
  <2> QED
    BY <1>0, <1>1, SmallestSubset
<1>3. s # {}
  BY <1>2 DEF IsSum
<1>4. Pick(s) \in s /\ s \in SUBSET S
  BY <1>2, <1>3, PickIn
<1>5. f[s \ {Pick(s)}] = g[s \ {Pick(s)}]
  BY <1>2, <1>4
<1>6. u[Pick(s)] = t[Pick(s)]
  BY <1>2, <1>4
<1> QED
  BY <1>2, <1>3, <1>4, <1>5, <1>6 DEF IsSum

\* The sum of a function depends on its values on the set only.
LEMMA SumSame ==
  ASSUME NEW S, IsFiniteSet(S), NEW t, NEW u,
         \A x \in S : t[x] \in Int /\ u[x] = t[x]
  PROVE  SumFunctionOnSet(u, S) = SumFunctionOnSet(t, S)
<1>1. PICK f : IsSum(f, t, S) /\ f[S] = SumFunctionOnSet(t, S)
  BY SumFold
<1>2. PICK g : IsSum(g, u, S) /\ g[S] = SumFunctionOnSet(u, S)
  BY SumFold
<1>3. \A s \in SUBSET S : f[s] = g[s]
  BY <1>1, <1>2, SumAgrees
<1> QED
  BY <1>1, <1>2, <1>3

\* A sum over one more element is larger by the value of that element.
LEMMA SumAdd ==
  ASSUME NEW S, IsFiniteSet(S), NEW x, x \notin S, NEW t, NEW u,
         \A y \in S : t[y] \in Int /\ u[y] = t[y], u[x] \in Int,
         NEW T, T = S \cup {x}
  PROVE  SumFunctionOnSet(u, T) = SumFunctionOnSet(t, S) + u[x]
<1> DEFINE S2 == S \cup {x}
<1> SUFFICES SumFunctionOnSet(u, S2) = SumFunctionOnSet(t, S) + u[x]
  OBVIOUS
<1>1. IsFiniteSet(S2)
  BY FS_AddElement
<1>2. S \in SUBSET S2 /\ x \in S2 /\ S2 \ {x} = S
  OBVIOUS
<1>3. \A y \in S2 : u[y] \in Int
  OBVIOUS
<1>4. \A y \in S : t[y] = u[y]
  OBVIOUS
<1>5. PICK f : IsSum(f, u, S2) /\ f[S2] = SumFunctionOnSet(u, S2)
  <2> HIDE DEF S2
  <2> QED
    BY <1>1, <1>3, SumFold
<1>6. PICK g : IsSum(g, t, S) /\ g[S] = SumFunctionOnSet(t, S)
  BY SumFold
<1> HIDE DEF S2
<1>7. S2 \in SUBSET S2 /\ IsSum(f, u, S2) /\ IsSum(g, t, S)
  BY <1>5, <1>6
<1>8. f[S2] = u[x] + f[S2 \ {x}]
  BY <1>1, <1>2, <1>3, <1>7, SumAny, SMT
<1>9. f[S2] = u[x] + f[S]
  BY <1>2, <1>8
<1>10. f[S] = g[S]
  BY <1>1, <1>2, <1>3, <1>4, <1>7, SumAgrees, SMT
<1>11. f[S] \in Int
  BY <1>2, <1>5 DEF IsSum
<1> QED
  BY <1>5, <1>6, <1>9, <1>10, <1>11 DEF S2

\* The sum over no element is zero.
LEMMA SumEmpty ==
  ASSUME NEW t
  PROVE  SumFunctionOnSet(t, {}) = 0
<1>1. PICK f : IsSum(f, t, {}) /\ f[{}] = SumFunctionOnSet(t, {})
  BY SumFold, FS_EmptySet
<1> QED
  BY <1>1 DEF IsSum

-----------------------------------------------------------------------------
\* Positions.

\* The bookkeeping of one market whose fills brought in c.
Kept(p, c, lot) ==
  /\ p \in Position
  /\ c \in Int
  /\ p.quantity % lot = 0
  /\ p.quantity = 0 => p.average_price = Whole(0)
  /\ p.realized_pnl = Plus(Whole(c), Times(p.quantity, p.average_price))

\* With the average price a / d, the realized profit is (c * d + q * a) / d.
LEMMA KeptWorth ==
  ASSUME NEW q \in Int, NEW c \in Int, NEW avg \in Fraction, NEW R \in Fraction,
         NEW d \in Nat \ {0}, NEW a \in Int, Worth(avg, a, d)
  PROVE  R = Plus(Whole(c), Times(q, avg))
           <=> Reduced(R) /\ Worth(R, c * d + q * a, d)
<1>1. /\ Whole(c) \in Fraction /\ Worth(Whole(c), c * d, d)
      /\ Times(q, avg) \in Fraction /\ Worth(Times(q, avg), q * a, d)
  BY WorthWhole, WorthTimes
<1>2. c * d \in Int /\ q * a \in Int /\ c * d + q * a \in Int
  OBVIOUS
<1> DEFINE S == Plus(Whole(c), Times(q, avg))
<1>3. S \in Fraction /\ Reduced(S) /\ Worth(S, c * d + q * a, d)
  BY <1>1, <1>2, WorthPlus
<1> HIDE DEF S
<1>4. Reduced(R) /\ Worth(R, c * d + q * a, d) => R = S
  BY <1>2, <1>3, WorthUnique
<1> QED
  BY <1>3, <1>4 DEF S

\* A lot is the least quantity that is not zero.
LEMMA LotIsLeast ==
  ASSUME NEW lot \in Nat \ {0}, NEW q \in Int, q % lot = 0, q # 0
  PROVE  AbsInt(q) >= lot
<1>1. lot \in Nat \ {0}
  OBVIOUS
<1>2. q = (q \div lot) * lot /\ q \div lot \in Int
  BY <1>1
<1> DEFINE k == q \div lot
<1> HIDE DEF k
<1>3. q = k * lot /\ k \in Int
  BY <1>2 DEF k
<1>4. k # 0
  BY <1>1, <1>3
<1>5. k > 0 => q >= lot
  BY <1>1, <1>3
<1>6. k < 0 => -q >= lot
  BY <1>1, <1>3
<1> QED
  BY <1>1, <1>3, <1>4, <1>5, <1>6 DEF AbsInt

\* A multiple of a lot stays one when a lot is added or taken off.
LEMMA LotsAdd ==
  ASSUME NEW m \in Nat \ {0}, NEW q \in Int, q % m = 0, NEW s \in {m, -m}
  PROVE  (q + s) % m = 0
<1> DEFINE k == q \div m
<1>1. q = k * m /\ k \in Int
  OBVIOUS
<1> HIDE DEF k
<1>2. \/ q + s = (k + 1) * m
      \/ q + s = (k - 1) * m
  BY <1>1
<1>3. k + 1 \in Int /\ k - 1 \in Int
  BY <1>1
<1> QED
  BY <1>2, <1>3, MultipleRest

\* Nothing filled moves a quantity by nothing.
LEMMA SignedZero ==
  ASSUME NEW side
  PROVE  Signed(side, 0) = 0
<1>1. ASSUME NEW k \in Int PROVE Signed(side, k) \in {k, 0 - k}
  BY DEF Signed
<1>2. 0 \in Int
  OBVIOUS
<1>3. Signed(side, 0) \in {0, 0 - 0}
  BY <1>1, <1>2
<1> QED
  BY <1>3

\* Signed lots move a quantity by a lot.
LEMMA SignedLot ==
  ASSUME NEW lot \in Nat \ {0}, NEW side, NEW q \in Int, q % lot = 0
  PROVE  LET s == Signed(side, lot)
         IN  /\ s \in Int /\ s # 0 /\ AbsInt(s) = lot
             /\ s = lot \/ s = -lot
             /\ (q + s) % lot = 0
<1>1. lot \in Nat \ {0}
  OBVIOUS
<1> DEFINE s == Signed(side, lot)
<1>2. s = lot \/ s = -lot
  BY DEF Signed
<1> HIDE DEF s
<1>3. s \in Int /\ s # 0 /\ AbsInt(s) = lot
  BY <1>1, <1>2 DEF AbsInt
<1>4. (q + s) % lot = 0
  BY <1>1, <1>2, LotsAdd
<1> QED
  BY <1>2, <1>3, <1>4 DEF s

\* What an opening fill makes of a position, with the average price a / d.
LEMMA OpenedWorth ==
  ASSUME NEW p \in Position, NEW price \in Int, NEW s \in Int, s # 0,
         NEW d \in Nat \ {0}, NEW a \in Int, Worth(p.average_price, a, d)
  PROVE  LET n == Opened(p, s, price)
             K == AbsInt(p.quantity) + AbsInt(s)
             N == AbsInt(p.quantity) * a + (price * AbsInt(s)) * d
         IN  /\ n \in Position
             /\ n.quantity = p.quantity + s
             /\ n.realized_pnl = p.realized_pnl
             /\ K \in Nat \ {0} /\ N \in Int
             /\ Worth(n.average_price, N, d * K)
<1> DEFINE q == p.quantity
           avg == p.average_price
           K == AbsInt(q) + AbsInt(s)
           N == AbsInt(q) * a + (price * AbsInt(s)) * d
           new == Divided(Plus(Times(AbsInt(q), avg), Whole(price * AbsInt(s))),
                          AbsInt(q) + AbsInt(s))
           n == Opened(p, s, price)
<1>1. q \in Int /\ avg \in Fraction
  BY DEF Position
<1>2. AbsInt(q) \in Nat /\ AbsInt(s) \in Nat \ {0} /\ K \in Nat \ {0}
  BY <1>1 DEF AbsInt
<1>3. n = [p EXCEPT !.average_price = new, !.quantity = q + s]
  BY DEF Opened
<1> HIDE DEF q, avg
<1>4. N \in Int /\ new \in Fraction /\ Worth(new, N, d * K)
  <2>1. /\ Times(AbsInt(q), avg) \in Fraction
        /\ Worth(Times(AbsInt(q), avg), AbsInt(q) * a, d)
    BY <1>1, <1>2, WorthTimes DEF avg
  <2>2. price * AbsInt(s) \in Int
    BY <1>2
  <2>3. /\ Whole(price * AbsInt(s)) \in Fraction
        /\ Worth(Whole(price * AbsInt(s)), (price * AbsInt(s)) * d, d)
    BY <2>2, WorthWhole
  <2>4. AbsInt(q) * a \in Int /\ (price * AbsInt(s)) * d \in Int
    BY <1>2
  <2> DEFINE P == Plus(Times(AbsInt(q), avg), Whole(price * AbsInt(s)))
  <2>5. P \in Fraction /\ Worth(P, N, d)
    BY <2>1, <2>3, <2>4, WorthPlus
  <2> HIDE DEF P
  <2>6. N \in Int
    BY <2>4
  <2> HIDE DEF N, K
  <2>7. Divided(P, K) \in Fraction /\ Worth(Divided(P, K), N, d * K)
    BY <1>2, <2>5, <2>6, WorthDivided
  <2> QED
    BY <2>6, <2>7 DEF P, K
<1>5. q + s \in Int
  BY <1>1
<1> HIDE DEF new, N, K, n
<1>6. /\ n \in Position
      /\ n.quantity = q + s /\ n.average_price = new
      /\ n.realized_pnl = p.realized_pnl
  BY <1>3, <1>4, <1>5 DEF Position
<1>7. Worth(n.average_price, N, d * K)
  BY <1>4, <1>6
<1> QED
  BY <1>2, <1>4, <1>6, <1>7 DEF q, N, K, n

\* Opening and adding: the cost of what is held grows by the fill's.
LEMMA OpenedKept ==
  ASSUME NEW lot \in Nat \ {0}, NEW p, NEW c, Kept(p, c, lot), NEW price \in Int,
         NEW s \in {lot, -lot}, p.quantity = 0 \/ p.quantity * s > 0
  PROVE  Kept(Opened(p, s, price), c - s * price, lot)
<1> DEFINE q == p.quantity
           avg == p.average_price
           R == p.realized_pnl
           n == Opened(p, s, price)
           K == AbsInt(q) + AbsInt(s)
<1>1. /\ q \in Int /\ avg \in Fraction /\ R \in Fraction /\ c \in Int
      /\ q % lot = 0 /\ R = Plus(Whole(c), Times(q, avg)) /\ p \in Position
  BY DEF Kept, Position
<1>2. s \in Int /\ AbsInt(s) = lot /\ s # 0
  BY DEF AbsInt
<1>3. AbsInt(q) \in Nat
  BY <1>1 DEF AbsInt
<1>4. PICK d \in Nat \ {0} : \E a, b \in Int : Worth(avg, a, d) /\ Worth(avg, b, d)
  BY <1>1, CommonDenominator
<1>5. PICK a \in Int : Worth(avg, a, d)
  BY <1>4
<1> DEFINE N == AbsInt(q) * a + (price * AbsInt(s)) * d
<1>6. /\ n \in Position /\ n.quantity = q + s /\ n.realized_pnl = R
      /\ K \in Nat \ {0} /\ N \in Int /\ Worth(n.average_price, N, d * K)
  BY <1>1, <1>2, <1>5, OpenedWorth
<1>7. \E e \in {1, -1} : q = e * AbsInt(q) /\ s = e * AbsInt(s)
  <2>1. CASE s = lot
    <3>1. q >= 0
      <4>1. q # 0 => q * lot > 0
        BY <2>1
      <4> HIDE DEF q
      <4> QED
        BY <1>1, <4>1
    <3> HIDE DEF q
    <3> QED
      BY <1>1, <1>2, <2>1, <3>1 DEF AbsInt
  <2>2. CASE s = -lot
    <3>1. q <= 0
      <4>1. q # 0 => q * (-lot) > 0
        BY <2>2
      <4> HIDE DEF q
      <4> QED
        BY <1>1, <4>1
    <3> HIDE DEF q
    <3> QED
      BY <1>1, <1>2, <2>2, <3>1 DEF AbsInt
  <2> QED
    BY <2>1, <2>2
<1> HIDE DEF q, avg, R, n
<1>8. Reduced(R) /\ Worth(R, c * d + q * a, d)
  BY <1>1, <1>5, KeptWorth
<1>9. (c * d + q * a) * K = (c - s * price) * (d * K) + (q + s) * N
  <2>1. PICK e \in {1, -1} : q = e * AbsInt(q) /\ s = e * AbsInt(s)
    BY <1>7
  <2> DEFINE u == AbsInt(q)
             v == AbsInt(s)
  <2>2. u \in Int /\ v \in Int /\ q = e * u /\ s = e * v /\ e \in Int
    BY <1>2, <1>3, <2>1
  <2> HIDE DEF u, v
  <2>3. (c * d + (e * u) * a) * (u + v)
          = (c - (e * v) * price) * (d * (u + v))
            + (e * u + e * v) * (u * a + (price * v) * d)
    <3>1. (e * u + e * v) * (u * a + (price * v) * d)
            = (e * (u + v)) * (u * a) + (e * (u + v)) * ((price * v) * d)
      BY <1>1, <2>2
    <3>2. (e * (u + v)) * ((price * v) * d) = ((e * v) * price) * (d * (u + v))
      BY <2>2
    <3>3. (e * (u + v)) * (u * a) = ((e * u) * a) * (u + v)
      BY <2>2
    <3>4. (c * d + (e * u) * a) * (u + v)
            = c * (d * (u + v)) + ((e * u) * a) * (u + v)
      BY <1>1, <2>2
    <3>5. (c - (e * v) * price) * (d * (u + v))
            = c * (d * (u + v)) - ((e * v) * price) * (d * (u + v))
      BY <1>1, <2>2
    <3>6. /\ c * (d * (u + v)) \in Int /\ ((e * u) * a) * (u + v) \in Int
          /\ ((e * v) * price) * (d * (u + v)) \in Int
      BY <1>1, <2>2
    <3> QED
      BY <3>1, <3>2, <3>3, <3>4, <3>5, <3>6
  <2> QED
    BY <2>2, <2>3 DEF u, v
<1>10. Worth(R, (c - s * price) * (d * K) + (q + s) * N, d * K)
  <2>1. c * d + q * a \in Int
    BY <1>1
  <2>2. Worth(R, (c * d + q * a) * K, d * K)
    BY <1>1, <1>6, <1>8, <2>1, WorthScaled
  <2> QED
    BY <1>9, <2>2
<1>11. d * K \in Nat \ {0} /\ c - s * price \in Int /\ q + s \in Int
  BY <1>1, <1>2, <1>6
<1>12. n.average_price \in Fraction
  BY <1>6 DEF Position
<1>13. R = Plus(Whole(c - s * price), Times(q + s, n.average_price))
  <2> HIDE DEF N, K
  <2> QED
    BY <1>1, <1>6, <1>8, <1>10, <1>11, <1>12, KeptWorth
<1>14. q + s # 0 /\ (q + s) % lot = 0
  <2>1. q + s # 0
    BY <1>2, <1>3, <1>7
  <2> QED
    BY <1>1, <2>1, LotsAdd
<1> QED
  BY <1>6, <1>11, <1>13, <1>14 DEF Kept, n

\* Closing: what is closed is realized at the fill's price.
LEMMA ClosedKept ==
  ASSUME NEW lot \in Nat \ {0}, NEW p, NEW c, Kept(p, c, lot), NEW price \in Int,
         NEW s \in {lot, -lot}, p.quantity # 0, ~(p.quantity * s > 0)
  PROVE  Kept(Closed(p, s, price), c - s * price, lot)
<1> DEFINE q == p.quantity
           avg == p.average_price
           R == p.realized_pnl
           closing == IF AbsInt(s) < AbsInt(q) THEN AbsInt(s) ELSE AbsInt(q)
           e == IF q > 0 THEN 1 ELSE -1
           new == IF AbsInt(q) = AbsInt(s) THEN Whole(0) ELSE avg
           R2 == Plus(R, Times(closing * e, Minus(Whole(price), avg)))
<1>1. /\ q \in Int /\ avg \in Fraction /\ R \in Fraction /\ c \in Int
      /\ q % lot = 0 /\ R = Plus(Whole(c), Times(q, avg))
  BY DEF Kept, Position
<1>2. lot \in Nat \ {0} /\ s \in Int /\ AbsInt(s) = lot /\ s # 0
  BY DEF AbsInt
<1>3. AbsInt(q) >= lot /\ AbsInt(q) \in Nat
  BY <1>1, LotIsLeast DEF AbsInt
<1>4. closing = lot
  BY <1>2, <1>3
<1>5. e \in {1, -1} /\ s = -(e * lot) /\ q = e * AbsInt(q)
  <2>1. CASE q > 0
    <3>1. s # lot
      <4>1. s = lot => q * s > 0
        BY <1>1, <1>2, <2>1
      <4> QED
        BY <4>1
    <3> QED
      BY <1>1, <1>2, <2>1, <3>1 DEF AbsInt
  <2>2. CASE q < 0
    <3>1. s # -lot
      <4>1. s = -lot => q * s > 0
        BY <1>1, <1>2, <2>2
      <4> QED
        BY <4>1
    <3> QED
      BY <1>1, <1>2, <2>2, <3>1 DEF AbsInt
  <2> QED
    BY <1>1, <2>1, <2>2
<1>6. Closed(p, s, price)
        = [p EXCEPT !.realized_pnl = R2, !.average_price = new, !.quantity = q + s]
  BY DEF Closed
<1>7. PICK d \in Nat \ {0} : \E a, b \in Int : Worth(avg, a, d) /\ Worth(avg, b, d)
  BY <1>1, CommonDenominator
<1>8. PICK a \in Int : Worth(avg, a, d)
  BY <1>7
<1> HIDE DEF q, avg, R, closing, e
<1>9. Reduced(R) /\ Worth(R, c * d + q * a, d)
  BY <1>1, <1>8, KeptWorth
<1>10. /\ c * d \in Int /\ q * a \in Int /\ price * d \in Int
       /\ e * lot \in Int /\ c - s * price \in Int /\ q + s \in Int
  BY <1>1, <1>2, <1>5
<1>11. /\ R2 \in Fraction /\ Reduced(R2)
       /\ Worth(R2, (c * d + q * a) + (lot * e) * (price * d - a), d)
  <2>1. Whole(price) \in Fraction /\ Worth(Whole(price), price * d, d)
    BY WorthWhole
  <2> DEFINE M == Minus(Whole(price), avg)
  <2>2. M \in Fraction /\ Worth(M, price * d - a, d)
    BY <1>1, <1>8, <1>10, <2>1, WorthMinus
  <2> HIDE DEF M
  <2>3. price * d - a \in Int /\ closing * e \in Int /\ closing * e = lot * e
    BY <1>2, <1>4, <1>5, <1>10
  <2> DEFINE G == Times(closing * e, M)
  <2>4. G \in Fraction /\ Worth(G, (lot * e) * (price * d - a), d)
    BY <2>2, <2>3, WorthTimes
  <2>5. (lot * e) * (price * d - a) \in Int /\ c * d + q * a \in Int
    BY <1>10, <2>3
  <2>6. R2 = Plus(R, G)
    BY DEF G, M
  <2> HIDE DEF G, R2
  <2> QED
    BY <1>1, <1>9, <2>4, <2>5, <2>6, WorthPlus
<1>12. (c * d + q * a) + (lot * e) * (price * d - a)
         = (c - s * price) * d + (q + s) * a
  <2>1. s = -(e * lot)
    BY <1>5
  <2>2. e \in Int /\ lot \in Int
    BY <1>2, <1>5
  <2>3. (c * d + q * a) + (lot * e) * (price * d - a)
          = (c - (-(e * lot)) * price) * d + (q + -(e * lot)) * a
    BY <1>1, <2>2
  <2> QED
    BY <2>1, <2>3
<1>13. /\ new \in Fraction
       /\ (q + s) * a = IF AbsInt(q) = AbsInt(s) THEN 0 ELSE (q + s) * a
       /\ q + s = 0 => new = Whole(0)
  <2>1. AbsInt(q) = AbsInt(s) <=> q + s = 0
    BY <1>1, <1>2, <1>3, <1>5
  <2>2. Whole(0) \in Fraction
    BY DEF Whole, Fraction
  <2>3. q + s = 0 => (q + s) * a = 0
    BY <1>10
  <2> QED
    BY <1>1, <2>1, <2>2, <2>3
<1>14. R2 = Plus(Whole(c - s * price), Times(q + s, new))
  <2>1. CASE AbsInt(q) = AbsInt(s)
    <3>1. new = Whole(0) /\ Worth(Whole(0), 0 * d, d) /\ 0 * d \in Int
      BY <2>1, WorthWhole
    <3>2. (q + s) * (0 * d) = 0 /\ (q + s) * a = 0
      BY <1>10, <1>13, <2>1
    <3>3. Worth(R2, (c - s * price) * d + (q + s) * (0 * d), d)
      BY <1>11, <1>12, <3>2
    <3> HIDE DEF R2, new
    <3> QED
      BY <1>10, <1>11, <1>13, <3>1, <3>3, KeptWorth
  <2>2. CASE AbsInt(q) # AbsInt(s)
    <3>1. new = avg
      BY <2>2
    <3>2. Worth(R2, (c - s * price) * d + (q + s) * a, d)
      BY <1>11, <1>12
    <3> HIDE DEF R2, new
    <3> QED
      BY <1>1, <1>8, <1>10, <1>11, <3>1, <3>2, KeptWorth
  <2> QED
    BY <2>1, <2>2
<1>15. (q + s) % lot = 0
  BY <1>1, <1>2, LotsAdd
<1> DEFINE n == Closed(p, s, price)
<1> HIDE DEF new, R2
<1>16. /\ n \in Position
       /\ n.quantity = q + s /\ n.average_price = new /\ n.realized_pnl = R2
  <2>1. p \in Position /\ n = [p EXCEPT !.realized_pnl = R2, !.average_price = new,
                                 !.quantity = q + s]
    BY <1>6 DEF Kept
  <2>2. q + s \in Int /\ new \in Fraction /\ R2 \in Fraction
    BY <1>10, <1>11, <1>13
  <2> HIDE DEF n
  <2> QED
    BY <2>1, <2>2 DEF Position
<1> HIDE DEF n
<1> QED
  BY <1>10, <1>13, <1>14, <1>15, <1>16 DEF Kept, n

\* A fill keeps the books of its market.
LEMMA FillKept ==
  ASSUME NEW lot \in Nat \ {0}, NEW p, NEW c, Kept(p, c, lot), NEW side,
         NEW price \in Int
  PROVE  Kept(ApplyFill(p, side, lot, price), c - Signed(side, lot) * price, lot)
<1>1. Signed(side, lot) \in {lot, -lot}
  BY DEF Signed
<1> QED
  BY <1>1, OpenedKept, ClosedKept DEF ApplyFill

-----------------------------------------------------------------------------
\* The exposure of a long position.

\* What is held long was not bought below zero.
LongCost(p) == p.quantity > 0 => p.average_price.num >= 0

\* A long position is exposed by no more than limit.
Within(p, limit) ==
  p.quantity > 0 => AtMost(MarketExposureNotional(p), Whole(limit))

\* A fraction has the sign of its numerator over any denominator.
LEMMA WorthSign ==
  ASSUME NEW a \in Fraction, NEW n \in Int, NEW d \in Nat \ {0}, Worth(a, n, d)
  PROVE  a.num >= 0 <=> n >= 0
<1> DEFINE p == a.num
           q == a.den
<1>1. p \in Int /\ q \in Nat \ {0} /\ p * d = n * q
  BY FractionParts DEF Worth
<1> HIDE DEF p, q
<1>2. p >= 0 <=> p * d >= 0
  BY <1>1
<1>3. n >= 0 <=> n * q >= 0
  BY <1>1
<1> QED
  BY <1>1, <1>2, <1>3 DEF p

\* The exposure of a long position is its quantity times its average price.
LEMMA ExposureWorth ==
  ASSUME NEW p \in Position, p.quantity >= 0, p.average_price.num >= 0,
         NEW d \in Nat \ {0}, NEW a \in Int, Worth(p.average_price, a, d)
  PROVE  /\ a >= 0
         /\ MarketExposureNotional(p) \in Fraction
         /\ Worth(MarketExposureNotional(p), p.quantity * a, d)
<1> DEFINE q == p.quantity
           avg == p.average_price
           E == Times(q, avg)
<1>1. q \in Int /\ q >= 0 /\ avg \in Fraction
  BY DEF Position
<1>2. a >= 0
  BY <1>1, WorthSign
<1> HIDE DEF q, avg
<1>3. E \in Fraction /\ Worth(E, q * a, d)
  BY <1>1, WorthTimes DEF avg
<1>4. q * a \in Nat
  BY <1>1, <1>2
<1> HIDE DEF E
<1>5. Magnitude(E) = E
  BY <1>3, <1>4, MagnitudeOfNatural
<1>6. MarketExposureNotional(p) = E
  BY <1>5 DEF MarketExposureNotional, E, q, avg
<1> QED
  BY <1>2, <1>3, <1>6 DEF q

\* When a fill leaves a position long: it was bought, or it was reduced.
LEMMA LongAfterFill ==
  ASSUME NEW lot \in Nat \ {0}, NEW p, NEW c, Kept(p, c, lot), NEW side,
         NEW price \in Int, ApplyFill(p, side, lot, price).quantity > 0
  PROVE  \/ /\ side = "buy" /\ p.quantity >= 0
            /\ ApplyFill(p, side, lot, price) = Opened(p, lot, price)
         \/ /\ side # "buy" /\ p.quantity > lot
            /\ ApplyFill(p, side, lot, price) \in Position
            /\ ApplyFill(p, side, lot, price).quantity = p.quantity - lot
            /\ ApplyFill(p, side, lot, price).average_price = p.average_price
<1> DEFINE q == p.quantity
           s == Signed(side, lot)
           n == ApplyFill(p, side, lot, price)
<1>1. p \in Position /\ q \in Int /\ q % lot = 0
  BY DEF Kept, Position
<1>2. s \in {lot, -lot} /\ (s = lot <=> side = "buy") /\ s # 0 /\ AbsInt(s) = lot
  BY DEF Signed, AbsInt
<1>3. n \in Position
  BY FillKept DEF Kept
<1>4. CASE q = 0 \/ q * s > 0
  <2>1. n = Opened(p, s, price)
    BY <1>4 DEF ApplyFill
  <2>2. PICK d \in Nat \ {0} : \E a, b \in Int :
          Worth(p.average_price, a, d) /\ Worth(p.average_price, b, d)
    BY <1>1, CommonDenominator DEF Position
  <2>3. n.quantity = q + s
    <3> HIDE DEF n
    <3> QED
      BY <1>1, <1>2, <2>1, <2>2, OpenedWorth
  <2>4. q + s > 0
    BY <2>3
  <2> HIDE DEF q, s, n
  <2>5. s = lot
    <3>1. s = -lot => ~(q * s > 0) \/ q < 0
      BY <1>1
    <3> QED
      BY <1>1, <1>2, <1>4, <2>4, <3>1
  <2>6. q >= 0
    <3>1. q * lot > 0 => q > 0
      BY <1>1
    <3> QED
      BY <1>1, <1>4, <2>5, <3>1
  <2> QED
    BY <1>2, <2>1, <2>5, <2>6 DEF q, n
<1>5. CASE ~(q = 0 \/ q * s > 0)
  <2>1. n = Closed(p, s, price)
    BY <1>5 DEF ApplyFill
  <2>2. /\ n.quantity = q + s
        /\ n.average_price = IF AbsInt(q) = AbsInt(s) THEN Whole(0)
                             ELSE p.average_price
    BY <1>1, <2>1 DEF Closed, Position
  <2>3. q + s > 0
    BY <2>2
  <2>4. AbsInt(q) >= lot
    BY <1>1, <1>5, LotIsLeast
  <2> HIDE DEF q, s, n
  <2>5. q > 0
    <3>1. q < 0 => q + s <= 0
      BY <1>1, <1>2, <2>4 DEF AbsInt
    <3> QED
      BY <1>1, <1>2, <1>5, <2>3, <3>1
  <2>6. s = -lot
    <3>1. s = lot => q * s > 0
      BY <1>1, <2>5
    <3> QED
      BY <1>2, <1>5, <3>1
  <2>7. AbsInt(q) = q /\ q # lot
    BY <1>1, <2>3, <2>5, <2>6 DEF AbsInt
  <2>8. n.average_price = p.average_price
    BY <1>2, <2>2, <2>7
  <2>9. q > lot /\ side # "buy" /\ q + s = q - lot
    BY <1>1, <1>2, <2>3, <2>6
  <2> QED
    BY <1>3, <2>2, <2>8, <2>9 DEF q, n
<1> QED
  BY <1>4, <1>5

\* A long position never has a negative cost, as only purchases make one and their
\* prices are not negative.
LEMMA FillLongCost ==
  ASSUME NEW lot \in Nat \ {0}, NEW p, NEW c, Kept(p, c, lot), LongCost(p),
         NEW side, NEW price \in Int, side = "buy" => price >= 0
  PROVE  LongCost(ApplyFill(p, side, lot, price))
<1> DEFINE n == ApplyFill(p, side, lot, price)
<1> SUFFICES ASSUME n.quantity > 0 PROVE n.average_price.num >= 0
  BY DEF LongCost
<1>1. p \in Position /\ p.quantity \in Int /\ p.average_price \in Fraction
  BY DEF Kept, Position
<1>2. p.quantity >= 0 => p.average_price.num >= 0
  BY <1>1 DEF LongCost, Kept, Whole
<1>3. CASE side # "buy"
  BY <1>2, <1>3, LongAfterFill, <1>1
<1>4. CASE side = "buy"
  <2>1. p.quantity >= 0 /\ n = Opened(p, lot, price)
    BY <1>4, LongAfterFill
  <2>2. PICK d \in Nat \ {0} : \E a, b \in Int :
          Worth(p.average_price, a, d) /\ Worth(p.average_price, b, d)
    BY <1>1, CommonDenominator
  <2>3. PICK a \in Int : Worth(p.average_price, a, d)
    BY <2>2
  <2> DEFINE K == AbsInt(p.quantity) + AbsInt(lot)
             N == AbsInt(p.quantity) * a + (price * AbsInt(lot)) * d
  <2> HIDE DEF n
  <2>4. /\ n \in Position /\ K \in Nat \ {0} /\ N \in Int
        /\ Worth(n.average_price, N, d * K)
    BY <1>1, <2>1, <2>3, OpenedWorth
  <2>5. a >= 0
    BY <1>1, <1>2, <2>1, <2>3, WorthSign
  <2>6. AbsInt(p.quantity) \in Nat /\ AbsInt(lot) \in Nat /\ price >= 0
    BY <1>1, <1>4 DEF AbsInt
  <2>7. N >= 0
    BY <2>5, <2>6
  <2>8. d * K \in Nat \ {0} /\ n.average_price \in Fraction
    BY <2>4 DEF Position
  <2> HIDE DEF N, K
  <2> QED
    BY <2>4, <2>7, <2>8, WorthSign
<1> QED
  BY <1>3, <1>4

\* Selling exposes a long position less.
LEMMA SellWithin ==
  ASSUME NEW lot \in Nat \ {0}, NEW p, NEW c, Kept(p, c, lot), LongCost(p),
         NEW side, side # "buy", NEW price \in Int, NEW limit \in Int,
         Within(p, limit)
  PROVE  Within(ApplyFill(p, side, lot, price), limit)
<1> DEFINE n == ApplyFill(p, side, lot, price)
           E == MarketExposureNotional(p)
           F == MarketExposureNotional(n)
<1> SUFFICES ASSUME n.quantity > 0 PROVE AtMost(F, Whole(limit))
  BY DEF Within
<1>1. p \in Position /\ p.quantity \in Int /\ p.average_price \in Fraction
  BY DEF Kept, Position
<1>2. /\ p.quantity > lot /\ n \in Position
      /\ n.quantity = p.quantity - lot /\ n.average_price = p.average_price
  BY LongAfterFill
<1>3. p.quantity > 0 /\ p.average_price.num >= 0 /\ AtMost(E, Whole(limit))
  BY <1>1, <1>2 DEF LongCost, Within
<1>4. PICK d \in Nat \ {0} : \E a, b \in Int :
        Worth(p.average_price, a, d) /\ Worth(p.average_price, b, d)
  BY <1>1, CommonDenominator
<1>5. PICK a \in Int : Worth(p.average_price, a, d)
  BY <1>4
<1> HIDE DEF n
<1>6. a >= 0 /\ E \in Fraction /\ Worth(E, p.quantity * a, d)
  BY <1>1, <1>3, <1>5, ExposureWorth
<1>7. F \in Fraction /\ Worth(F, n.quantity * a, d)
  <2>1. n.quantity >= 0 /\ n.average_price.num >= 0
    BY <1>1, <1>2, <1>3
  <2>2. Worth(n.average_price, a, d)
    BY <1>2, <1>5
  <2> QED
    BY <1>2, <2>1, <2>2, ExposureWorth
<1> HIDE DEF E, F
<1>8. p.quantity * a \in Int /\ n.quantity * a \in Int /\ n.quantity \in Int
  BY <1>1, <1>2
<1>9. p.quantity * a <= limit * d
  BY <1>3, <1>6, <1>8, WorthAtMost
<1>10. n.quantity * a <= p.quantity * a
  BY <1>1, <1>2, <1>6, <1>8
<1>11. n.quantity * a <= limit * d
  <2>1. limit * d \in Int
    OBVIOUS
  <2> QED
    BY <1>8, <1>9, <1>10, <2>1
<1> QED
  BY <1>7, <1>8, <1>11, WorthAtMost

\* A buy that was checked at a price not below the fill's stays within the
\* limit it was checked against.
LEMMA BuyWithin ==
  ASSUME NEW lot \in Nat \ {0}, NEW p, NEW c, Kept(p, c, lot), LongCost(p),
         NEW price \in Nat, NEW limit \in Int, NEW ask \in Int, price <= ask,
         Ceiling(MarketExposureNotional(p)) + lot * ask <= limit
  PROVE  Within(ApplyFill(p, "buy", lot, price), limit)
<1> DEFINE n == ApplyFill(p, "buy", lot, price)
           E == MarketExposureNotional(p)
           F == MarketExposureNotional(n)
           q == p.quantity
<1> SUFFICES ASSUME n.quantity > 0 PROVE AtMost(F, Whole(limit))
  BY DEF Within
<1>1. p \in Position /\ q \in Int /\ p.average_price \in Fraction
  BY DEF Kept, Position
<1>2. q >= 0 /\ n = Opened(p, lot, price)
  BY LongAfterFill
<1>3. p.average_price.num >= 0
  BY <1>1, <1>2 DEF LongCost, Kept, Whole
<1>4. n.average_price.num >= 0
  BY FillLongCost DEF LongCost
<1>5. PICK d \in Nat \ {0} : \E a, b \in Int :
        Worth(p.average_price, a, d) /\ Worth(p.average_price, b, d)
  BY <1>1, CommonDenominator
<1>6. PICK a \in Int : Worth(p.average_price, a, d)
  BY <1>5
<1> HIDE DEF n
<1>7. a >= 0 /\ E \in Fraction /\ Worth(E, q * a, d)
  BY <1>1, <1>2, <1>3, <1>6, ExposureWorth
<1> DEFINE K == q + lot
           N == q * a + (price * lot) * d
<1>8. /\ n \in Position /\ n.quantity = q + lot
      /\ K \in Nat \ {0} /\ N \in Int
      /\ Worth(n.average_price, N, d * K)
  <2>1. AbsInt(q) = q /\ AbsInt(lot) = lot
    BY <1>1, <1>2 DEF AbsInt
  <2> QED
    BY <1>1, <1>2, <1>6, <2>1, OpenedWorth
<1>9. d * K \in Nat \ {0}
  BY <1>8
<1>10. F \in Fraction /\ Worth(F, n.quantity * N, d * K)
  <2>1. n.quantity >= 0
    BY <1>1, <1>2, <1>8
  <2> HIDE DEF K, N, q
  <2> QED
    BY <1>4, <1>8, <1>9, <2>1, ExposureWorth
<1> HIDE DEF E, F, q
<1>11. q * a + (price * lot) * d <= limit * d
  <2>1. Ceiling(E) \in Int
    BY <1>7, CeilingAtMost
  <2>2. lot * ask \in Int /\ limit - lot * ask \in Int
    OBVIOUS
  <2>3. Ceiling(E) <= limit - lot * ask
    BY <2>1, <2>2 DEF E
  <2>4. AtMost(E, Whole(limit - lot * ask))
    BY <1>7, <2>2, <2>3, CeilingAtMost
  <2>5. q * a \in Int
    BY <1>1
  <2>6. q * a <= (limit - lot * ask) * d
    BY <1>7, <2>2, <2>4, <2>5, WorthAtMost
  <2>7. (limit - lot * ask) * d = limit * d - (lot * ask) * d
    BY <2>2
  <2>8. price * lot <= lot * ask
    OBVIOUS
  <2>9. (price * lot) * d <= (lot * ask) * d
    BY <2>8, <2>2
  <2>10. limit * d \in Int /\ (lot * ask) * d \in Int /\ (price * lot) * d \in Int
    BY <2>2
  <2> QED
    BY <2>5, <2>6, <2>7, <2>9, <2>10
<1>12. (q + lot) * N <= limit * (d * K)
  <2>1. N <= limit * d /\ limit * d \in Int
    BY <1>11
  <2>2. N * K <= (limit * d) * K
    <3> HIDE DEF N, K
    <3> QED
      BY <1>8, <2>1
  <2>3. (limit * d) * K = limit * (d * K) /\ (q + lot) * N = N * K
    BY <1>1, <1>8
  <2> QED
    BY <2>2, <2>3
<1>13. n.quantity * N <= limit * (d * K) /\ n.quantity * N \in Int
  BY <1>8, <1>12
<1> HIDE DEF N, K
<1> QED
  BY <1>9, <1>10, <1>13, WorthAtMost

-----------------------------------------------------------------------------
\* Valuing the book.

\* What a position has gained when its market is at mid.
Gain(p, mid) == Times(p.quantity, Minus(Whole(mid), p.average_price))

\* The gain of a position over the denominator of its average price.
LEMMA GainWorth ==
  ASSUME NEW p \in Position, NEW mid \in Int, NEW d \in Nat \ {0},
         NEW a \in Int, Worth(p.average_price, a, d)
  PROVE  /\ Gain(p, mid) \in Fraction /\ Reduced(Gain(p, mid))
         /\ Worth(Gain(p, mid), p.quantity * (mid * d - a), d)
<1>1. p.quantity \in Int /\ p.average_price \in Fraction
  BY DEF Position
<1>2. Whole(mid) \in Fraction /\ Worth(Whole(mid), mid * d, d)
  BY WorthWhole
<1>3. mid * d \in Int /\ mid * d - a \in Int
  OBVIOUS
<1> DEFINE M == Minus(Whole(mid), p.average_price)
<1>4. M \in Fraction /\ Worth(M, mid * d - a, d)
  BY <1>1, <1>2, <1>3, WorthMinus
<1> HIDE DEF M
<1> QED
  BY <1>1, <1>3, <1>4, WorthTimes DEF Gain, M

\* The gain of a position is a fraction.
LEMMA GainTyped ==
  ASSUME NEW p \in Position, NEW mid \in Int
  PROVE  Gain(p, mid) \in Fraction
<1>1. p.average_price \in Fraction
  BY DEF Position
<1>2. PICK d \in Nat \ {0} : \E a, b \in Int :
        Worth(p.average_price, a, d) /\ Worth(p.average_price, b, d)
  BY <1>1, CommonDenominator
<1> QED
  BY <1>2, GainWorth

\* mark_to_market sums the gains of the quoted markets.
LEMMA MarkIsFold ==
  ASSUME NEW book, NEW mids
  PROVE  MarkToMarket(book, mids)
           = FoldFunctionOnSet(Plus, Whole(0),
                               [m \in DOMAIN mids |-> Gain(book[m], mids[m])],
                               DOMAIN mids)
BY DEF MarkToMarket, FoldFunction, Gain

\* The value of a book of positions is a fraction.
LEMMA MarkTyped ==
  ASSUME NEW book, NEW mids, IsFiniteSet(DOMAIN mids),
         \A m \in DOMAIN mids : book[m] \in Position /\ mids[m] \in Int
  PROVE  MarkToMarket(book, mids) \in Fraction
<1> DEFINE S == DOMAIN mids
           t == [m \in S |-> Gain(book[m], mids[m])]
<1>1. \A m \in S : t[m] \in Fraction
  BY GainTyped
<1>2. Whole(0) \in Fraction
  BY DEF Whole, Fraction
<1>3. MarkToMarket(book, mids) = FoldFunctionOnSet(Plus, Whole(0), t, S)
  BY MarkIsFold
<1> HIDE DEF S, t
<1>4. PICK f : /\ IsPlusFold(f, Whole(0), t, S)
               /\ f[S] = FoldFunctionOnSet(Plus, Whole(0), t, S)
  BY <1>1, <1>2, PlusFold DEF S
<1> QED
  BY <1>3, <1>4 DEF IsPlusFold

\* A fold whose terms are zero stays where it began.
LEMMA FoldOfZeros ==
  ASSUME NEW S, IsFiniteSet(S), NEW t, \A x \in S : t[x] = Whole(0)
  PROVE  FoldFunctionOnSet(Plus, Whole(0), t, S) = Whole(0)
<1>1. Whole(0) \in Fraction /\ Plus(Whole(0), Whole(0)) = Whole(0)
  <2>1. /\ Whole(0) \in Fraction /\ Reduced(Whole(0)) /\ Worth(Whole(0), 0 * 1, 1)
        /\ 1 \in Nat \ {0} /\ 0 * 1 = 0 /\ 0 \in Int /\ 0 + 0 = 0
    BY WorthWhole
  <2>2. Worth(Whole(0), 0, 1)
    BY <2>1
  <2> DEFINE P == Plus(Whole(0), Whole(0))
  <2>3. P \in Fraction /\ Reduced(P) /\ Worth(P, 0 + 0, 1)
    BY <2>1, <2>2, WorthPlus
  <2> HIDE DEF P
  <2>4. P = Whole(0)
    BY <2>1, <2>2, <2>3, WorthUnique
  <2> QED
    BY <2>1, <2>4 DEF P
<1>2. PICK f : /\ IsPlusFold(f, Whole(0), t, S)
               /\ f[S] = FoldFunctionOnSet(Plus, Whole(0), t, S)
  BY <1>1, PlusFold
<1> DEFINE B == {s \in SUBSET S : f[s] # Whole(0)}
<1>3. B = {}
  <2> SUFFICES ASSUME B # {} PROVE FALSE
    OBVIOUS
  <2>1. B \in SUBSET (SUBSET S)
    OBVIOUS
  <2>2. PICK s \in B : \A r \in SUBSET s : r # s => r \notin B
    <3> HIDE DEF B
    <3> QED
      BY <2>1, SmallestSubset
  <2>3. s \in SUBSET S /\ s # {}
    BY <1>2, <2>2 DEF IsPlusFold
  <2>4. Pick(s) \in s /\ t[Pick(s)] = Whole(0)
    BY <2>3, PickIn
  <2>5. s \ {Pick(s)} \in SUBSET S /\ s \ {Pick(s)} \notin B
    BY <2>2, <2>3, <2>4
  <2>6. f[s \ {Pick(s)}] = Whole(0)
    BY <2>5
  <2>7. f[s] = Plus(t[Pick(s)], f[s \ {Pick(s)}])
    BY <1>2, <2>3 DEF IsPlusFold
  <2> QED
    BY <1>1, <2>2, <2>4, <2>6, <2>7
<1>4. S \in SUBSET S
  OBVIOUS
<1> QED
  BY <1>2, <1>3, <1>4

\* A flat book is worth nothing.
LEMMA MarkOfFlat ==
  ASSUME NEW book, NEW mids, IsFiniteSet(DOMAIN mids),
         \A m \in DOMAIN mids : book[m] = NoPosition /\ mids[m] \in Int
  PROVE  MarkToMarket(book, mids) = Whole(0)
<1>1. NoPosition \in Position /\ NoPosition.quantity = 0
      /\ NoPosition.average_price = Whole(0)
  BY DEF NoPosition, Position, Whole, Fraction
<1>2. \A mid \in Int : Gain(NoPosition, mid) = Whole(0)
  <2> SUFFICES ASSUME NEW mid \in Int PROVE Gain(NoPosition, mid) = Whole(0)
    OBVIOUS
  <2>1. /\ Whole(0) \in Fraction /\ Reduced(Whole(0)) /\ Worth(Whole(0), 0, 1)
        /\ 1 \in Nat \ {0} /\ 0 \in Int
    BY WorthWhole DEF Worth, Whole
  <2>2. /\ Gain(NoPosition, mid) \in Fraction /\ Reduced(Gain(NoPosition, mid))
        /\ Worth(Gain(NoPosition, mid), 0 * (mid * 1 - 0), 1)
    BY <1>1, <2>1, GainWorth
  <2>3. 0 * (mid * 1 - 0) = 0
    OBVIOUS
  <2>4. Worth(Gain(NoPosition, mid), 0, 1)
    BY <2>2, <2>3
  <2> QED
    BY <2>1, <2>2, <2>4, WorthUnique
<1> DEFINE t == [m \in DOMAIN mids |-> Gain(book[m], mids[m])]
<1>3. \A m \in DOMAIN mids : t[m] = Whole(0)
  BY <1>2
<1>4. MarkToMarket(book, mids) = FoldFunctionOnSet(Plus, Whole(0), t, DOMAIN mids)
  BY MarkIsFold
<1> HIDE DEF t
<1> QED
  BY <1>3, <1>4, FoldOfZeros

\* The bookkeeping of the markets of S.
AllKept(book, flow, S, lot) ==
  /\ book \in [S -> Position]
  /\ flow \in [S -> Int]
  /\ \A m \in S : Kept(book[m], flow[m], lot)

\* Unrealized and realized profit are the cash and the value of the holdings:
\* on every part of the markets what the fold of realized profits adds to
\* start is what the fold of gains lacks to it.
LEMMA FoldsAddUp ==
  ASSUME NEW Markets, IsFiniteSet(Markets), NEW lot, NEW book, NEW flow,
         AllKept(book, flow, Markets, lot), NEW mids \in [Markets -> Int]
  PROVE  FoldFunction(Plus, MarkToMarket(book, mids),
                      [m \in Markets |-> book[m].realized_pnl])
           = Whole(SumFunction([m \in Markets |->
                                  flow[m] + book[m].quantity * mids[m]]))
<1> DEFINE S == Markets
           t == [m \in S |-> Gain(book[m], mids[m])]
           u == [m \in S |-> book[m].realized_pnl]
           v == [m \in S |-> flow[m] + book[m].quantity * mids[m]]
           L == MarkToMarket(book, mids)
<1>1. IsFiniteSet(S) /\ S \in SUBSET S
  OBVIOUS
<1>2. \A m \in S : /\ book[m] \in Position /\ mids[m] \in Int
                   /\ flow[m] \in Int /\ book[m].quantity \in Int
                   /\ book[m].average_price \in Fraction
                   /\ book[m].realized_pnl \in Fraction
  BY DEF Position, AllKept
<1>3. /\ \A m \in S : t[m] = Gain(book[m], mids[m]) /\ t[m] \in Fraction
      /\ \A m \in S : u[m] = book[m].realized_pnl /\ u[m] \in Fraction
      /\ \A m \in S : v[m] = flow[m] + book[m].quantity * mids[m] /\ v[m] \in Int
  BY <1>2, GainTyped
<1>4. L = FoldFunctionOnSet(Plus, Whole(0), t, S)
  BY MarkIsFold
<1>5. FoldFunction(Plus, L, u) = FoldFunctionOnSet(Plus, L, u, S)
  BY DEF FoldFunction
<1>6. SumFunction(v) = SumFunctionOnSet(v, S)
  BY DEF SumFunction
<1> HIDE DEF S, t, u, v, L
<1>7. Whole(0) \in Fraction /\ Reduced(Whole(0))
  BY WorthWhole
<1>8. PICK f : IsPlusFold(f, Whole(0), t, S) /\ f[S] = L
  <2>1. \A x \in S : t[x] \in Fraction
    BY <1>3
  <2> QED
    BY <1>1, <1>4, <1>7, <2>1, PlusFold
<1>9. f[S] \in Fraction
  BY <1>1, <1>8 DEF IsPlusFold
<1>10. PICK g : IsPlusFold(g, L, u, S) /\ g[S] = FoldFunctionOnSet(Plus, L, u, S)
  <2>1. \A x \in S : u[x] \in Fraction
    BY <1>3
  <2> QED
    BY <1>1, <1>8, <1>9, <2>1, PlusFold
<1>11. PICK h : IsSum(h, v, S) /\ h[S] = SumFunctionOnSet(v, S)
  <2>1. \A x \in S : v[x] \in Int
    BY <1>3
  <2> QED
    BY <1>1, <2>1, SumFold
<1> DEFINE Level(s) == Plus(g[s], f[s]) = Plus(L, Whole(h[s]))
           B == {s \in SUBSET S : ~Level(s)}
<1>12. \A s \in SUBSET S : f[s] \in Fraction /\ g[s] \in Fraction /\ h[s] \in Int
  BY <1>8, <1>10, <1>11 DEF IsPlusFold, IsSum
<1>13. Level({})
  BY <1>8, <1>10, <1>11 DEF IsPlusFold, IsSum
<1>14. ASSUME NEW s \in SUBSET S, NEW x \in s, x = Pick(s), Level(s \ {x})
       PROVE  Level(s)
  <2> DEFINE r == s \ {x}
             q == book[x].quantity
             avg == book[x].average_price
  <2>1. s # {} /\ x \in S /\ r \in SUBSET S
    OBVIOUS
  <2>2. f[s] = Plus(t[x], f[r]) /\ g[s] = Plus(u[x], g[r]) /\ h[s] = v[x] + h[r]
    BY <1>8, <1>10, <1>11, <1>14, <2>1 DEF IsPlusFold, IsSum
  <2>3. f[r] \in Fraction /\ g[r] \in Fraction /\ h[r] \in Int
    BY <1>12, <2>1
  <2>4. /\ q \in Int /\ avg \in Fraction /\ mids[x] \in Int /\ flow[x] \in Int
        /\ book[x] \in Position /\ L \in Fraction
    BY <1>2, <1>8, <1>9, <2>1
  <2> HIDE DEF r
  <2>5. PICK d \in Nat \ {0} : \E a, n, m, l \in Int :
          Worth(avg, a, d) /\ Worth(f[r], n, d) /\ Worth(g[r], m, d) /\ Worth(L, l, d)
    BY <2>3, <2>4, CommonToFour
  <2>6. PICK a \in Int, n \in Int, m \in Int, l \in Int :
          Worth(avg, a, d) /\ Worth(f[r], n, d) /\ Worth(g[r], m, d) /\ Worth(L, l, d)
    BY <2>5
  <2>7. m + n = l + h[r] * d
    <3>1. Whole(h[r]) \in Fraction /\ Worth(Whole(h[r]), h[r] * d, d)
      BY <2>3, WorthWhole
    <3>2. h[r] * d \in Int /\ m + n \in Int
      BY <2>3
    <3>3. l + h[r] * d \in Int
      BY <3>2
    <3>4. Plus(g[r], f[r]) \in Fraction /\ Worth(Plus(g[r], f[r]), m + n, d)
      BY <2>3, <2>6, WorthPlus
    <3>5. Worth(Plus(L, Whole(h[r])), l + h[r] * d, d)
      BY <2>4, <2>6, <3>1, <3>2, WorthPlus
    <3>6. Plus(g[r], f[r]) = Plus(L, Whole(h[r]))
      BY <1>14 DEF r
    <3> QED
      BY <3>2, <3>3, <3>4, <3>5, <3>6, WorthNumber
  <2>8. t[x] \in Fraction /\ Worth(t[x], q * (mids[x] * d - a), d)
    <3>1. t[x] = Gain(book[x], mids[x])
      BY <1>3, <2>1
    <3>2. /\ Gain(book[x], mids[x]) \in Fraction
          /\ Worth(Gain(book[x], mids[x]), q * (mids[x] * d - a), d)
      BY <2>4, <2>6, GainWorth
    <3> QED
      BY <3>1, <3>2
  <2>9. u[x] \in Fraction /\ Worth(u[x], flow[x] * d + q * a, d)
    <3>1. u[x] = book[x].realized_pnl /\ u[x] \in Fraction
      BY <1>3, <2>1
    <3>2. Kept(book[x], flow[x], lot)
      <4>1. x \in Markets
        BY <2>1 DEF S
      <4> QED
        BY <4>1 DEF AllKept
    <3>3. u[x] = Plus(Whole(flow[x]), Times(q, avg))
      BY <3>1, <3>2 DEF Kept
    <3> HIDE DEF q, avg
    <3> QED
      BY <2>4, <2>6, <3>1, <3>3, KeptWorth
  <2>10. v[x] = flow[x] + q * mids[x]
    BY <1>3, <2>1
  <2> HIDE DEF q, avg
  <2> DEFINE i == q * (mids[x] * d - a)
             k == flow[x] * d + q * a
             w == v[x]
  <2>11. i \in Int /\ k \in Int /\ w \in Int
    BY <2>4, <2>10
  <2>12. i + k = w * d
    <3>1. i = (q * mids[x]) * d - q * a
      BY <2>4
    <3>2. w * d = flow[x] * d + (q * mids[x]) * d
      BY <2>4, <2>10
    <3>3. (q * mids[x]) * d \in Int /\ q * a \in Int /\ flow[x] * d \in Int
      BY <2>4
    <3> QED
      BY <3>1, <3>2, <3>3
  <2>13. Worth(t[x], i, d) /\ Worth(u[x], k, d) /\ h[s] = w + h[r]
    BY <2>2, <2>8, <2>9
  <2> HIDE DEF i, k, w
  <2>14. f[s] \in Fraction /\ Worth(f[s], i + n, d)
    BY <2>2, <2>3, <2>6, <2>8, <2>11, <2>13, WorthPlus
  <2>15. g[s] \in Fraction /\ Worth(g[s], k + m, d)
    BY <2>2, <2>3, <2>6, <2>9, <2>11, <2>13, WorthPlus
  <2>16. i + n \in Int /\ k + m \in Int
    BY <2>11
  <2>17. /\ Plus(g[s], f[s]) \in Fraction /\ Reduced(Plus(g[s], f[s]))
         /\ Worth(Plus(g[s], f[s]), (k + m) + (i + n), d)
    BY <2>14, <2>15, <2>16, WorthPlus
  <2>18. h[s] \in Int /\ h[s] * d \in Int /\ l + h[s] * d \in Int
    BY <2>3, <2>11, <2>13
  <2>19. Whole(h[s]) \in Fraction /\ Worth(Whole(h[s]), h[s] * d, d)
    BY <2>18, WorthWhole
  <2>20. /\ Plus(L, Whole(h[s])) \in Fraction /\ Reduced(Plus(L, Whole(h[s])))
         /\ Worth(Plus(L, Whole(h[s])), l + h[s] * d, d)
    BY <2>4, <2>6, <2>18, <2>19, WorthPlus
  <2>21. (k + m) + (i + n) = l + h[s] * d
    <3>1. (w + h[r]) * d = w * d + h[r] * d /\ w * d \in Int /\ h[r] * d \in Int
      BY <2>3, <2>11
    <3>2. h[s] * d = (w + h[r]) * d
      BY <2>13
    <3> DEFINE y == w * d
               z == h[r] * d
    <3>3. h[s] * d = y + z /\ y \in Int /\ z \in Int
      BY <3>1, <3>2
    <3>4. i + k = y /\ m + n = l + z
      BY <2>7, <2>12
    <3> HIDE DEF y, z
    <3>5. (k + m) + (i + n) = (i + k) + (m + n)
      BY <2>11
    <3>6. l + h[s] * d = l + (y + z)
      BY <3>3
    <3> QED
      BY <3>3, <3>4, <3>5, <3>6
  <2>22. Worth(Plus(g[s], f[s]), l + h[s] * d, d)
    BY <2>17, <2>21
  <2> QED
    BY <2>17, <2>18, <2>20, <2>22, WorthUnique
<1>15. B = {}
  <2> SUFFICES ASSUME B # {} PROVE FALSE
    OBVIOUS
  <2>1. B \in SUBSET (SUBSET S)
    OBVIOUS
  <2>2. PICK s \in B : \A r \in SUBSET s : r # s => r \notin B
    <3> HIDE DEF B
    <3> QED
      BY <1>1, <2>1, SmallestSubset
  <2>3. s \in SUBSET S /\ ~Level(s)
    BY <2>2
  <2>4. s # {}
    <3> HIDE DEF Level
    <3> QED
      BY <1>13, <2>3
  <2>5. Pick(s) \in s
    BY <2>4, PickIn
  <2>6. s \ {Pick(s)} \notin B /\ s \ {Pick(s)} \in SUBSET S
    BY <2>2, <2>3, <2>5
  <2>7. Level(s \ {Pick(s)})
    BY <2>6
  <2> QED
    <3> HIDE DEF Level
    <3> QED
      BY <1>14, <2>3, <2>5, <2>7
<1>16. Plus(g[S], L) = Plus(L, Whole(h[S]))
  BY <1>1, <1>8, <1>15
<1>17. g[S] = Whole(h[S])
  <2>1. g[S] \in Fraction /\ h[S] \in Int /\ L \in Fraction
    BY <1>1, <1>8, <1>12
  <2>2. Reduced(g[S])
    <3>1. CASE S = {}
      <4>1. g[S] = L /\ L = Whole(0)
        BY <1>8, <1>10, <3>1 DEF IsPlusFold
      <4> QED
        BY <1>7, <4>1
    <3>2. CASE S # {}
      <4>1. g[S] = Plus(u[Pick(S)], g[S \ {Pick(S)}])
        BY <1>1, <1>10, <3>2 DEF IsPlusFold
      <4>2. Pick(S) \in S /\ S \ {Pick(S)} \in SUBSET S
        BY <3>2, PickIn
      <4>3. u[Pick(S)] \in Fraction /\ g[S \ {Pick(S)}] \in Fraction
        BY <1>3, <1>12, <4>2
      <4> QED
        BY <4>1, <4>3, CommonDenominator, WorthPlus
    <3> QED
      BY <3>1, <3>2
  <2>3. PICK d \in Nat \ {0} : \E m, l \in Int : Worth(g[S], m, d) /\ Worth(L, l, d)
    BY <2>1, CommonDenominator
  <2>4. PICK m \in Int, l \in Int : Worth(g[S], m, d) /\ Worth(L, l, d)
    BY <2>3
  <2> DEFINE k == h[S] * d
  <2>5. /\ Whole(h[S]) \in Fraction /\ Reduced(Whole(h[S]))
        /\ Worth(Whole(h[S]), k, d) /\ k \in Int
    <3>1. h[S] * d \in Int
      BY <2>1
    <3> QED
      BY <2>1, <3>1, WorthWhole
  <2> HIDE DEF k
  <2>6. Plus(g[S], L) \in Fraction /\ Worth(Plus(g[S], L), m + l, d)
    BY <2>1, <2>4, WorthPlus
  <2>7. Worth(Plus(L, Whole(h[S])), l + k, d)
    BY <2>1, <2>4, <2>5, WorthPlus
  <2>8. m + l \in Int /\ l + k \in Int
    BY <2>5
  <2>9. m + l = l + k
    BY <1>16, <2>6, <2>7, <2>8, WorthNumber
  <2>10. m = k
    BY <2>5, <2>9
  <2> QED
    BY <2>1, <2>2, <2>4, <2>5, <2>10, WorthUnique
<1>18. FoldFunction(Plus, L, u) = Whole(SumFunction(v))
  BY <1>5, <1>6, <1>10, <1>11, <1>17
<1> QED
  BY <1>18 DEF L, u, v, S

=============================================================================
