--------------------------- MODULE RiskEngineProofs ---------------------------
(***************************************************************************)
(* The risk engine admits orders and cancels as the gate allows and does   *)
(* not overlook a burst of errors, for every value of the limits.          *)
(*                                                                         *)
(* The deques are evicted from the left and forget; what the limits are    *)
(* about is the logs, which do not.  The inductive invariant says that a   *)
(* deque still holds every entry of its log that is young enough to count. *)
(***************************************************************************)
EXTENDS RiskEngine, Lemmas

\* The engine r has the right types, a reason when it is killed, and deques
\* that keep the logs of orders, cancels and errors at t.
Sound(r, t, orderLog, cancelLog, errorLog) ==
  /\ r \in RiskState
  /\ r.kill_switch_active <=> r.kill_reason # "None"
  /\ Keeps(r.order_timestamps, orderLog, t, OrderWindow)
  /\ Keeps(r.cancel_timestamps, cancelLog, t, OrderWindow)
  /\ Keeps(r.error_timestamps, errorLog, t, ErrorWindow)

IInv ==
  /\ now \in Nat
  /\ LogBy(admitted, now) /\ LogBy(cancels, now) /\ LogBy(errors, now)
  /\ Sound(risk, now, admitted, cancels, errors)

-----------------------------------------------------------------------------
\* Methods.

\* Evict stops at the first entry that is young enough, so what it returns
\* keeps what the deque kept.
LEMMA EvictKeeps ==
  ASSUME NEW queue, NEW log \in Seq(Nat), NEW t \in Nat, NEW w \in Nat,
         Keeps(queue, log, t, w)
  PROVE  Keeps(Evict(queue, t, w), log, t, w)
<1> DEFINE Stops(k) == k <= Len(queue) => t - queue[k] <= w
           T == {k \in 1 .. (Len(queue) + 1) : Stops(k)}
           First(k) == /\ \A i \in 1 .. (k - 1) : t - queue[i] > w
                       /\ k <= Len(queue) => t - queue[k] <= w
<1>0. queue \in Seq(Nat) /\ Len(queue) \in Nat
  BY LenProperties DEF Keeps
<1>1. \A i \in 1 .. Len(queue) : queue[i] \in Nat
  BY <1>0, ElementOfSeq
<1>2. T \subseteq Nat /\ T # {}
  <2>1. Len(queue) + 1 \in T
    BY <1>0
  <2> QED
    BY <1>0, <2>1
<1>3. PICK m \in T : \A k \in T : m <= k
  BY <1>2, LeastNatural
<1>4. First(m)
  <2>1. \A i \in 1 .. (m - 1) : t - queue[i] > w
    <3> TAKE i \in 1 .. (m - 1)
    <3>1. i \in 1 .. (Len(queue) + 1) /\ ~(m <= i)
      BY <1>0, <1>2, <1>3
    <3>2. i \notin T
      BY <1>3, <3>1
    <3>3. i <= Len(queue) /\ ~(t - queue[i] <= w)
      BY <3>1, <3>2
    <3>4. queue[i] \in Nat
      BY <1>0, <1>1, <3>1, <3>3
    <3> QED
      BY <3>3, <3>4
  <2> QED
    BY <1>3, <2>1
<1>5. m \in 1 .. (Len(queue) + 1)
  BY <1>3
<1> DEFINE first == CHOOSE k \in 1 .. (Len(queue) + 1) : First(k)
<1>6. first \in 1 .. (Len(queue) + 1) /\ First(first)
  <2> HIDE DEF First
  <2> QED
    BY <1>4, <1>5
<1>7. Evict(queue, t, w) = SubSeq(queue, first, Len(queue))
  BY DEF Evict
<1> HIDE DEF first
<1> QED
  BY <1>6, <1>7, KeepsDrop

\* _evict_old keeps the book sound and leaves the kill switch alone.
LEMMA EvictOldSound ==
  ASSUME NEW r, NEW t \in Nat, NEW orderLog \in Seq(Nat),
         NEW cancelLog \in Seq(Nat), NEW errorLog \in Seq(Nat),
         Sound(r, t, orderLog, cancelLog, errorLog)
  PROVE  /\ Sound(EvictOld(r, t), t, orderLog, cancelLog, errorLog)
         /\ EvictOld(r, t).kill_switch_active = r.kill_switch_active
<1>0. OrderWindow \in Nat /\ ErrorWindow \in Nat
  BY RiskAssumption
<1>1. Keeps(Evict(r.order_timestamps, t, OrderWindow), orderLog, t, OrderWindow)
  BY <1>0, EvictKeeps DEF Sound
<1>2. Keeps(Evict(r.cancel_timestamps, t, OrderWindow), cancelLog, t, OrderWindow)
  BY <1>0, EvictKeeps DEF Sound
<1>3. Keeps(Evict(r.error_timestamps, t, ErrorWindow), errorLog, t, ErrorWindow)
  BY <1>0, EvictKeeps DEF Sound
<1>4. /\ Evict(r.order_timestamps, t, OrderWindow) \in Seq(Nat)
      /\ Evict(r.cancel_timestamps, t, OrderWindow) \in Seq(Nat)
      /\ Evict(r.error_timestamps, t, ErrorWindow) \in Seq(Nat)
  BY <1>1, <1>2, <1>3 DEF Keeps
<1> QED
  BY <1>1, <1>2, <1>3, <1>4 DEF Sound, RiskState, EvictOld

\* Activating the kill switch keeps the book sound.
LEMMA ActivateSound ==
  ASSUME NEW r, NEW t, NEW orderLog, NEW cancelLog, NEW errorLog,
         NEW reason \in Reasons, Sound(r, t, orderLog, cancelLog, errorLog)
  PROVE  /\ Sound(ActivateKillSwitch(r, reason), t,
                  orderLog, cancelLog, errorLog)
         /\ ActivateKillSwitch(r, reason).kill_switch_active
         /\ ActivateKillSwitch(r, reason).order_timestamps = r.order_timestamps
BY DEF Sound, RiskState, ActivateKillSwitch, Reasons

\* evaluate_order keeps the book sound and never deactivates the kill switch.
LEMMA EvaluateSound ==
  ASSUME NEW r, NEW t \in Nat, NEW orderLog \in Seq(Nat),
         NEW cancelLog \in Seq(Nat), NEW errorLog \in Seq(Nat), NEW reading,
         Sound(r, t, orderLog, cancelLog, errorLog)
  PROVE  /\ Sound(EvaluateOrder(r, reading, t), t,
                  orderLog, cancelLog, errorLog)
         /\ r.kill_switch_active
              => EvaluateOrder(r, reading, t).kill_switch_active
<1> DEFINE Good(s) == /\ Sound(s, t, orderLog, cancelLog, errorLog)
                      /\ r.kill_switch_active => s.kill_switch_active
<1>1. ASSUME NEW s, Good(s), NEW reason \in Reasons
      PROVE  Good(ActivateKillSwitch(s, reason))
  BY <1>1, ActivateSound
<1>2. Good(EvictOld(r, t))
  BY EvictOldSound
<1>3. Good(CheckLossLimits(EvictOld(r, t), reading))
  <2> DEFINE daily == IF reading.dailyPnl <= -DailyLossLimit
                        THEN ActivateKillSwitch(EvictOld(r, t),
                                                "max_daily_loss_pct")
                        ELSE EvictOld(r, t)
  <2>1. Good(daily)
    BY <1>1, <1>2 DEF Reasons
  <2>2. Good(ActivateKillSwitch(daily, "max_hourly_loss_pct"))
    BY <1>1, <2>1 DEF Reasons
  <2> QED
    BY <2>1, <2>2 DEF CheckLossLimits
<1>4. Good(EvaluateOrder(r, reading, t))
  <2> DEFINE checked == CheckLossLimits(EvictOld(r, t), reading)
  <2>1. Good(ActivateKillSwitch(checked, "ws_disconnect"))
    BY <1>1, <1>3 DEF Reasons
  <2> HIDE DEF Good
  <2> QED
    BY <1>3, <2>1 DEF EvaluateOrder, CheckWsDisconnect
<1> QED
  BY <1>4

\* An order that is allowed after its evaluation found the kill switch inactive
\* and fewer young entries in the log than the limit on orders.
LEMMA AllowedIsBelowRate ==
  ASSUME NEW r, NEW t \in Nat, NEW orderLog \in Seq(Nat), NEW cancelLog,
         NEW errorLog, Sound(r, t, orderLog, cancelLog, errorLog),
         NEW reading, Allowed(r, reading)
  PROVE  /\ ~r.kill_switch_active
         /\ Cardinality(Young(orderLog, t, OrderWindow)) < MaxOrdersPerSec
<1>1. OrderWindow \in Nat /\ MaxOrdersPerSec \in Nat
  BY RiskAssumption
<1>2. ~r.kill_switch_active /\ Len(r.order_timestamps) < MaxOrdersPerSec
  BY DEF Allowed
<1>3. /\ Len(r.order_timestamps) \in Nat
      /\ Cardinality(Young(orderLog, t, OrderWindow)) \in Nat
      /\ Cardinality(Young(orderLog, t, OrderWindow))
           <= Len(r.order_timestamps)
  BY <1>1, KeepsCount DEF Sound
<1> QED
  BY <1>1, <1>2, <1>3

\* A loss of either limit that is read while an order is evaluated activates the
\* kill switch, and the checks that follow leave it active.
LEMMA LossKills ==
  ASSUME NEW r, NEW t \in Nat, NEW orderLog \in Seq(Nat),
         NEW cancelLog \in Seq(Nat), NEW errorLog \in Seq(Nat), NEW reading,
         Sound(r, t, orderLog, cancelLog, errorLog),
         \/ reading.dailyPnl <= -DailyLossLimit
         \/ reading.hourlyPnl <= -HourlyLossLimit
  PROVE  EvaluateOrder(r, reading, t).kill_switch_active
<1> DEFINE Good(s) == Sound(s, t, orderLog, cancelLog, errorLog)
           evicted == EvictOld(r, t)
           daily == IF reading.dailyPnl <= -DailyLossLimit
                      THEN ActivateKillSwitch(evicted, "max_daily_loss_pct")
                      ELSE evicted
           checked == CheckLossLimits(evicted, reading)
<1>1. ASSUME NEW s, Good(s), NEW reason \in Reasons
      PROVE  /\ Good(ActivateKillSwitch(s, reason))
             /\ ActivateKillSwitch(s, reason).kill_switch_active
  BY <1>1, ActivateSound
<1>2. Good(evicted)
  BY EvictOldSound
<1>3. Good(daily) /\ (reading.dailyPnl <= -DailyLossLimit
                        => daily.kill_switch_active)
  BY <1>1, <1>2 DEF Reasons
<1>4. /\ Good(ActivateKillSwitch(daily, "max_hourly_loss_pct"))
      /\ ActivateKillSwitch(daily, "max_hourly_loss_pct").kill_switch_active
  BY <1>1, <1>3 DEF Reasons
<1>5. Good(checked) /\ checked.kill_switch_active
  BY <1>3, <1>4 DEF CheckLossLimits
<1>6. ActivateKillSwitch(checked, "ws_disconnect").kill_switch_active
  BY <1>1, <1>5 DEF Reasons
<1> HIDE DEF checked
<1>7. EvaluateOrder(r, reading, t) = CheckWsDisconnect(checked, t)
  BY DEF EvaluateOrder, checked
<1> QED
  BY <1>5, <1>6, <1>7 DEF CheckWsDisconnect

\* record_order_submission appends to the orders' log and deque alike.
LEMMA SubmissionSound ==
  ASSUME NEW r, NEW t \in Nat, NEW orderLog \in Seq(Nat),
         NEW cancelLog \in Seq(Nat), NEW errorLog \in Seq(Nat),
         NEW size \in Nat, Sound(r, t, orderLog, cancelLog, errorLog)
  PROVE  /\ Sound(RecordOrderSubmission(r, size, t), t,
                  Append(orderLog, t), cancelLog, errorLog)
         /\ RecordOrderSubmission(r, size, t).kill_switch_active
              = r.kill_switch_active
<1> DEFINE s == [r EXCEPT !.order_timestamps = Append(@, t),
                          !.submitted = @ + size]
<1>1. Keeps(Append(r.order_timestamps, t), Append(orderLog, t), t, OrderWindow)
  BY KeepsAppend, RiskAssumption DEF Sound
<1>2. Append(r.order_timestamps, t) \in Seq(Nat)
  BY <1>1 DEF Keeps
<1>3. /\ Sound(s, t, Append(orderLog, t), cancelLog, errorLog)
      /\ s.kill_switch_active = r.kill_switch_active
  <2>1. r.submitted + size \in Nat
    BY DEF Sound, RiskState
  <2>2. s \in RiskState
    BY <1>2, <2>1 DEF Sound, RiskState
  <2> QED
    BY <1>1, <2>2 DEF Sound, RiskState
<1>4. Append(orderLog, t) \in Seq(Nat)
  BY AppendProperties
<1> HIDE DEF s
<1>5. RecordOrderSubmission(r, size, t) = EvictOld(s, t)
  BY DEF RecordOrderSubmission, s
<1> QED
  BY <1>3, <1>4, <1>5, EvictOldSound

\* record_cancel appends to the cancels' log and deque alike.
LEMMA CancelSound ==
  ASSUME NEW r, NEW t \in Nat, NEW orderLog \in Seq(Nat),
         NEW cancelLog \in Seq(Nat), NEW errorLog \in Seq(Nat),
         Sound(r, t, orderLog, cancelLog, errorLog)
  PROVE  /\ Sound(RecordCancel(r, t), t,
                  orderLog, Append(cancelLog, t), errorLog)
         /\ RecordCancel(r, t).kill_switch_active = r.kill_switch_active
<1> DEFINE s == [r EXCEPT !.cancel_timestamps = Append(@, t)]
<1>1. Keeps(Append(r.cancel_timestamps, t), Append(cancelLog, t), t, OrderWindow)
  BY KeepsAppend, RiskAssumption DEF Sound
<1>2. Append(r.cancel_timestamps, t) \in Seq(Nat)
  BY <1>1 DEF Keeps
<1>3. /\ Sound(s, t, orderLog, Append(cancelLog, t), errorLog)
      /\ s.kill_switch_active = r.kill_switch_active
  BY <1>1, <1>2 DEF Sound, RiskState
<1>4. Append(cancelLog, t) \in Seq(Nat)
  BY AppendProperties
<1> HIDE DEF s
<1>5. RecordCancel(r, t) = EvictOld(s, t)
  BY DEF RecordCancel, s
<1> QED
  BY <1>3, <1>4, <1>5, EvictOldSound

\* record_error appends to the errors' log and deque alike and kills when the
\* deque, and so when the young part of the log, is longer than the limit.
LEMMA ErrorSound ==
  ASSUME NEW r, NEW t \in Nat, NEW orderLog \in Seq(Nat),
         NEW cancelLog \in Seq(Nat), NEW errorLog \in Seq(Nat),
         Sound(r, t, orderLog, cancelLog, errorLog)
  PROVE  /\ Sound(RecordError(r, t), t,
                  orderLog, cancelLog, Append(errorLog, t))
         /\ r.kill_switch_active => RecordError(r, t).kill_switch_active
         /\ RecordError(r, t).kill_switch_active
              \/ Cardinality(Young(Append(errorLog, t), t, ErrorWindow))
                   <= MaxErrorRatePerMin
<1> DEFINE s == [r EXCEPT !.error_timestamps = Append(@, t)]
           log2 == Append(errorLog, t)
           recorded == EvictOld(s, t)
<1>0. ErrorWindow \in Nat /\ MaxErrorRatePerMin \in Nat
  BY RiskAssumption
<1>1. Keeps(Append(r.error_timestamps, t), log2, t, ErrorWindow)
  BY <1>0, KeepsAppend DEF Sound
<1>2. Append(r.error_timestamps, t) \in Seq(Nat)
  BY <1>1 DEF Keeps
<1>3. /\ Sound(s, t, orderLog, cancelLog, log2)
      /\ s.kill_switch_active = r.kill_switch_active
  BY <1>1, <1>2 DEF Sound, RiskState
<1>4. log2 \in Seq(Nat)
  BY AppendProperties
<1> HIDE DEF s, log2
<1>5. /\ Sound(recorded, t, orderLog, cancelLog, log2)
      /\ recorded.kill_switch_active = r.kill_switch_active
  BY <1>3, <1>4, EvictOldSound
<1>6. /\ Len(recorded.error_timestamps) \in Nat
      /\ Cardinality(Young(log2, t, ErrorWindow)) \in Nat
      /\ Cardinality(Young(log2, t, ErrorWindow))
           <= Len(recorded.error_timestamps)
  BY <1>0, <1>4, <1>5, KeepsCount DEF Sound
<1>7. RecordError(r, t) = IF Len(recorded.error_timestamps) > MaxErrorRatePerMin
                            THEN ActivateKillSwitch(recorded, "error_rate")
                            ELSE recorded
  BY DEF RecordError, s
<1> HIDE DEF recorded
<1>8. CASE Len(recorded.error_timestamps) > MaxErrorRatePerMin
  <2>1. "error_rate" \in Reasons
    BY DEF Reasons
  <2>2. /\ Sound(ActivateKillSwitch(recorded, "error_rate"), t,
                 orderLog, cancelLog, log2)
        /\ ActivateKillSwitch(recorded, "error_rate").kill_switch_active
    BY <1>5, <2>1, ActivateSound
  <2> QED
    BY <1>7, <1>8, <2>2 DEF log2
<1>9. CASE ~(Len(recorded.error_timestamps) > MaxErrorRatePerMin)
  <2>1. RecordError(r, t) = recorded
    BY <1>7, <1>9
  <2>2. Cardinality(Young(log2, t, ErrorWindow)) <= MaxErrorRatePerMin
    BY <1>0, <1>6, <1>9
  <2> QED
    BY <1>5, <2>1, <2>2 DEF log2
<1> QED
  BY <1>8, <1>9

\* register_ws_heartbeat, record_fill and record_latency touch no deque and
\* never deactivate the kill switch.
LEMMA OthersSound ==
  ASSUME NEW r, NEW t \in Nat, NEW orderLog, NEW cancelLog, NEW errorLog,
         Sound(r, t, orderLog, cancelLog, errorLog), NEW size \in Nat,
         NEW latency
  PROVE  /\ Sound(RegisterWsHeartbeat(r, t), t, orderLog, cancelLog, errorLog)
         /\ RegisterWsHeartbeat(r, t).kill_switch_active = r.kill_switch_active
         /\ Sound(RecordFill(r, size), t, orderLog, cancelLog, errorLog)
         /\ r.kill_switch_active => RecordFill(r, size).kill_switch_active
         /\ Sound(RecordLatency(r, latency), t, orderLog, cancelLog, errorLog)
         /\ r.kill_switch_active => RecordLatency(r, latency).kill_switch_active
<1>1. /\ Sound(RegisterWsHeartbeat(r, t), t, orderLog, cancelLog, errorLog)
      /\ RegisterWsHeartbeat(r, t).kill_switch_active = r.kill_switch_active
  BY DEF RegisterWsHeartbeat, Sound, RiskState
<1>2. /\ Sound(RecordFill(r, size), t, orderLog, cancelLog, errorLog)
      /\ r.kill_switch_active => RecordFill(r, size).kill_switch_active
  <2> DEFINE recorded == [r EXCEPT !.fills = @ + size]
  <2>1. /\ Sound(recorded, t, orderLog, cancelLog, errorLog)
        /\ recorded.kill_switch_active = r.kill_switch_active
    <3>1. r.fills + size \in Nat
      BY DEF Sound, RiskState
    <3>2. recorded \in RiskState
      BY <3>1 DEF Sound, RiskState
    <3> QED
      BY <3>2 DEF Sound, RiskState
  <2> HIDE DEF recorded
  <2>2. "fill_ratio" \in Reasons
    BY DEF Reasons
  <2>3. /\ Sound(ActivateKillSwitch(recorded, "fill_ratio"), t,
                 orderLog, cancelLog, errorLog)
        /\ ActivateKillSwitch(recorded, "fill_ratio").kill_switch_active
    BY <2>1, <2>2, ActivateSound
  <2>4. \/ RecordFill(r, size) = recorded
        \/ RecordFill(r, size) = ActivateKillSwitch(recorded, "fill_ratio")
    BY DEF RecordFill, recorded
  <2> QED
    BY <2>1, <2>3, <2>4
<1>3. /\ Sound(RecordLatency(r, latency), t, orderLog, cancelLog, errorLog)
      /\ r.kill_switch_active => RecordLatency(r, latency).kill_switch_active
  BY ActivateSound DEF RecordLatency, Reasons
<1> QED
  BY <1>1, <1>2, <1>3

\* As the clock advances old entries stay old.
LEMMA SoundLater ==
  ASSUME NEW r, NEW t \in Nat, NEW orderLog \in Seq(Nat),
         NEW cancelLog \in Seq(Nat), NEW errorLog \in Seq(Nat),
         Sound(r, t, orderLog, cancelLog, errorLog)
  PROVE  Sound(r, t + 1, orderLog, cancelLog, errorLog)
BY KeepsLater, RiskAssumption DEF Sound

-----------------------------------------------------------------------------
\* Steps.  Each lemma says what its action does to the book and to the kill
\* switch; the admitting ones also what the sliding window then held.

\* What the invariant says of the clock, the logs and the book.
LEMMA InvParts ==
  ASSUME IInv
  PROVE  /\ now \in Nat
         /\ admitted \in Seq(Nat) /\ cancels \in Seq(Nat) /\ errors \in Seq(Nat)
         /\ LogBy(admitted, now) /\ LogBy(cancels, now) /\ LogBy(errors, now)
         /\ Sound(risk, now, admitted, cancels, errors)
BY DEF IInv, LogBy

\* An order is admitted past an inactive kill switch and below the rate.
LEMMA OrderAdmittedStep ==
  ASSUME IInv, NEW reading \in Readings, NEW size \in Sizes,
         OrderAdmitted(reading, size)
  PROVE  /\ IInv'
         /\ ~risk.kill_switch_active /\ ~risk'.kill_switch_active
         /\ Cardinality(Young(admitted, now, OrderWindow)) < MaxOrdersPerSec
<1> DEFINE evaluated == EvaluateOrder(risk, reading, now)
<1>0. size \in Nat
  BY RiskAssumption
<1>1. /\ Sound(evaluated, now, admitted, cancels, errors)
      /\ risk.kill_switch_active => evaluated.kill_switch_active
  BY InvParts, EvaluateSound
<1>2. /\ Allowed(evaluated, reading)
      /\ risk' = RecordOrderSubmission(evaluated, size, now)
      /\ admitted' = Append(admitted, now)
      /\ UNCHANGED <<now, cancels, errors>>
  BY DEF OrderAdmitted
<1> HIDE DEF evaluated
<1>3. ~evaluated.kill_switch_active
  BY <1>2 DEF Allowed
<1>4. /\ Sound(risk', now, Append(admitted, now), cancels, errors)
      /\ risk'.kill_switch_active = evaluated.kill_switch_active
  BY <1>0, <1>1, <1>2, InvParts, SubmissionSound
<1>5. LogBy(Append(admitted, now), now)
  BY InvParts, LogAppend
<1>6. IInv'
  BY <1>2, <1>4, <1>5, InvParts DEF IInv
<1>7. Cardinality(Young(admitted, now, OrderWindow)) < MaxOrdersPerSec
  BY <1>1, <1>2, InvParts, AllowedIsBelowRate
<1> QED
  BY <1>1, <1>3, <1>4, <1>6, <1>7

\* A cancel is admitted below its rate; the kill switch stays as it was.
LEMMA CancelAdmittedStep ==
  ASSUME IInv, CancelAdmitted
  PROVE  /\ IInv'
         /\ risk'.kill_switch_active = risk.kill_switch_active
         /\ Cardinality(Young(cancels, now, OrderWindow)) < MaxCancelPerSec
<1> DEFINE evicted == EvictOld(risk, now)
<1>0. OrderWindow \in Nat /\ MaxCancelPerSec \in Nat
  BY RiskAssumption
<1>1. /\ Sound(evicted, now, admitted, cancels, errors)
      /\ evicted.kill_switch_active = risk.kill_switch_active
  BY InvParts, EvictOldSound
<1>2. /\ CancelAllowed(evicted)
      /\ risk' = RecordCancel(evicted, now)
      /\ cancels' = Append(cancels, now)
      /\ UNCHANGED <<now, admitted, errors>>
  BY DEF CancelAdmitted
<1> HIDE DEF evicted
<1>3. /\ Sound(risk', now, admitted, Append(cancels, now), errors)
      /\ risk'.kill_switch_active = evicted.kill_switch_active
  BY <1>1, <1>2, InvParts, CancelSound
<1>4. LogBy(Append(cancels, now), now)
  BY InvParts, LogAppend
<1>5. IInv'
  BY <1>2, <1>3, <1>4, InvParts DEF IInv
<1>6. Cardinality(Young(cancels, now, OrderWindow)) < MaxCancelPerSec
  <2>1. /\ Len(evicted.cancel_timestamps) \in Nat
        /\ Cardinality(Young(cancels, now, OrderWindow)) \in Nat
        /\ Cardinality(Young(cancels, now, OrderWindow))
             <= Len(evicted.cancel_timestamps)
    BY <1>0, <1>1, InvParts, KeepsCount DEF Sound
  <2> QED
    BY <1>0, <1>2, <2>1 DEF CancelAllowed
<1> QED
  BY <1>1, <1>3, <1>5, <1>6

\* An error that is one too many activates the kill switch.
LEMMA ErrorStep ==
  ASSUME IInv, Error
  PROVE  /\ IInv'
         /\ risk.kill_switch_active => risk'.kill_switch_active
         /\ risk'.kill_switch_active
              \/ Cardinality(Young(Append(errors, now), now, ErrorWindow))
                   <= MaxErrorRatePerMin
<1>1. /\ risk' = RecordError(risk, now)
      /\ errors' = Append(errors, now)
      /\ UNCHANGED <<now, admitted, cancels>>
  BY DEF Error
<1>2. /\ Sound(risk', now, admitted, cancels, Append(errors, now))
      /\ risk.kill_switch_active => risk'.kill_switch_active
      /\ risk'.kill_switch_active
           \/ Cardinality(Young(Append(errors, now), now, ErrorWindow))
                <= MaxErrorRatePerMin
  BY <1>1, InvParts, ErrorSound
<1>3. LogBy(Append(errors, now), now)
  BY InvParts, LogAppend
<1>4. IInv'
  BY <1>1, <1>2, <1>3, InvParts DEF IInv
<1> QED
  BY <1>2, <1>4

\* Every other step leaves the three logs alone and the kill switch active.
Logless == UNCHANGED <<admitted, cancels, errors>>

\* Every other step leaves the logs alone and the kill switch active.
LEMMA OtherSteps ==
  ASSUME IInv,
         \/ Tick
         \/ Heartbeat
         \/ \E reading \in Readings : OrderBlocked(reading)
         \/ CancelBlocked
         \/ \E size \in Sizes : Fill(size)
         \/ \E latency \in Latencies : Latency(latency)
         \/ UNCHANGED vars
  PROVE  /\ IInv'
         /\ risk.kill_switch_active => risk'.kill_switch_active
         /\ Logless
<1>1. CASE Tick
  <2>1. Sound(risk, now + 1, admitted, cancels, errors)
    BY InvParts, SoundLater
  <2>2. LogBy(admitted, now + 1) /\ LogBy(cancels, now + 1)
        /\ LogBy(errors, now + 1)
    BY InvParts, LogLater
  <2> QED
    BY <1>1, <2>1, <2>2, InvParts DEF Tick, IInv, Logless
<1>2. CASE Heartbeat
  <2>1. /\ risk' = RegisterWsHeartbeat(risk, now)
        /\ UNCHANGED <<now, admitted, cancels, errors>>
    BY <1>2 DEF Heartbeat
  <2>2. /\ Sound(risk', now, admitted, cancels, errors)
        /\ risk'.kill_switch_active = risk.kill_switch_active
    BY <2>1, InvParts, OthersSound
  <2> QED
    BY <2>1, <2>2, InvParts DEF IInv, Logless
<1>3. ASSUME NEW reading \in Readings, OrderBlocked(reading)
      PROVE  /\ IInv'
             /\ risk.kill_switch_active => risk'.kill_switch_active
             /\ Logless
  <2>1. /\ risk' = EvaluateOrder(risk, reading, now)
        /\ UNCHANGED <<now, admitted, cancels, errors>>
    BY <1>3 DEF OrderBlocked
  <2>2. /\ Sound(risk', now, admitted, cancels, errors)
        /\ risk.kill_switch_active => risk'.kill_switch_active
    BY <2>1, InvParts, EvaluateSound
  <2> QED
    BY <2>1, <2>2, InvParts DEF IInv, Logless
<1>4. CASE CancelBlocked
  <2>1. /\ risk' = EvictOld(risk, now)
        /\ UNCHANGED <<now, admitted, cancels, errors>>
    BY <1>4 DEF CancelBlocked
  <2>2. /\ Sound(risk', now, admitted, cancels, errors)
        /\ risk'.kill_switch_active = risk.kill_switch_active
    BY <2>1, InvParts, EvictOldSound
  <2> QED
    BY <2>1, <2>2, InvParts DEF IInv, Logless
<1>5. ASSUME NEW size \in Sizes, Fill(size)
      PROVE  /\ IInv'
             /\ risk.kill_switch_active => risk'.kill_switch_active
             /\ Logless
  <2>1. /\ risk' = RecordFill(risk, size)
        /\ UNCHANGED <<now, admitted, cancels, errors>>
        /\ size \in Nat
    BY <1>5, RiskAssumption DEF Fill
  <2>2. /\ Sound(risk', now, admitted, cancels, errors)
        /\ risk.kill_switch_active => risk'.kill_switch_active
    BY <2>1, InvParts, OthersSound
  <2> QED
    BY <2>1, <2>2, InvParts DEF IInv, Logless
<1>6. ASSUME NEW latency \in Latencies, Latency(latency)
      PROVE  /\ IInv'
             /\ risk.kill_switch_active => risk'.kill_switch_active
             /\ Logless
  <2>1. /\ risk' = RecordLatency(risk, latency)
        /\ UNCHANGED <<now, admitted, cancels, errors>>
    BY <1>6 DEF Latency
  <2>2. /\ Sound(risk', now, admitted, cancels, errors)
        /\ risk.kill_switch_active => risk'.kill_switch_active
    BY <2>1, InvParts, OthersSound
  <2> QED
    BY <2>1, <2>2, InvParts DEF IInv, Logless
<1>7. CASE UNCHANGED vars
  BY <1>7 DEF vars, IInv, Logless
<1> QED
  BY <1>1, <1>2, <1>3, <1>4, <1>5, <1>6, <1>7

-----------------------------------------------------------------------------
\* Theorems.

\* A new risk engine starts with sound, empty books.
LEMMA InitSound == Init => IInv
<1> SUFFICES ASSUME Init PROVE IInv
  OBVIOUS
<1>1. LogBy(<< >>, 0)
  BY EmptySeq DEF LogBy
<1>2. ASSUME NEW w PROVE Keeps(<< >>, << >>, 0, w)
  BY EmptySeq DEF Keeps
<1>3. NewRiskEngine \in RiskState
  BY EmptySeq DEF NewRiskEngine, RiskState
<1>4. Sound(NewRiskEngine, 0, << >>, << >>, << >>)
  BY <1>2, <1>3 DEF Sound, NewRiskEngine
<1> QED
  BY <1>1, <1>4 DEF Init, IInv

\* The deques never forget an entry that still counts.
THEOREM BookIsComplete == Spec => []IInv
<1>1. IInv /\ [Next]_vars => IInv'
  <2> SUFFICES ASSUME IInv, [Next]_vars PROVE IInv'
    OBVIOUS
  <2>1. ASSUME NEW reading \in Readings, NEW size \in Sizes,
               OrderAdmitted(reading, size)
        PROVE  IInv'
    BY <2>1, OrderAdmittedStep
  <2>2. CASE CancelAdmitted
    BY <2>2, CancelAdmittedStep
  <2>3. CASE Error
    BY <2>3, ErrorStep
  <2> QED
    BY <2>1, <2>2, <2>3, OtherSteps DEF Next
<1> QED
  BY <1>1, InitSound, PTL DEF Spec

\* Types, and the kill switch has a reason exactly when it is active.
THEOREM TypeCorrect == Spec => []TypeOK
<1>1. IInv => TypeOK
  BY DEF IInv, Sound, LogBy, TypeOK
<1> QED
  BY <1>1, BookIsComplete, PTL

\* The gate's FiniteSets and this module's are the same.
LEMMA SameCardinality == \A S : Gate!Cardinality(S) = Cardinality(S)
BY DEF Gate!Cardinality, Cardinality, Gate!IsFiniteSet, IsFiniteSet

\* A step that leaves the clock and the admission log alone and does not
\* deactivate the kill switch closes the gate or does nothing to it.
LEMMA QuietStep ==
  ASSUME IInv, IInv', UNCHANGED <<now, admitted>>,
         risk.kill_switch_active => risk'.kill_switch_active
  PROVE  Gate!Close \/ UNCHANGED Gate!vars
<1>1. risk.kill_switch_active \in BOOLEAN /\ risk'.kill_switch_active \in BOOLEAN
  BY DEF IInv, Sound, RiskState
<1>2. CASE risk'.kill_switch_active
  BY <1>1, <1>2 DEF Gate!Close
<1>3. CASE ~risk'.kill_switch_active
  BY <1>1, <1>3 DEF Gate!vars
<1> QED
  BY <1>2, <1>3

\* The engine implements the gate: it admits only when the gate would, and its
\* kill switch is never released.
THEOREM GateImplemented == Spec => ImplementsOrderGate
<1>1. Init => Gate!Init
  BY DEF Init, Gate!Init, NewRiskEngine
<1>2. IInv /\ IInv' /\ [Next]_vars => [Gate!Next]_(Gate!vars)
  <2> SUFFICES ASSUME IInv, IInv', [Next]_vars
               PROVE  Gate!Next \/ UNCHANGED Gate!vars
    BY DEF Gate!Next
  <2>1. ASSUME NEW reading \in Readings, NEW size \in Sizes,
               OrderAdmitted(reading, size)
        PROVE  Gate!Admit
    <3>1. /\ ~risk.kill_switch_active /\ ~risk'.kill_switch_active
          /\ Cardinality(Young(admitted, now, OrderWindow)) < MaxOrdersPerSec
      BY <2>1, OrderAdmittedStep
    <3>2. Young(admitted, now, OrderWindow) = Gate!Recent
      BY DEF Young, Gate!Recent
    <3>3. Len(admitted) < MaxCalls
      <4>1. /\ Len(admitted) \in Nat /\ Len(cancels) \in Nat
            /\ Len(errors) \in Nat
        BY InvParts, LenProperties
      <4> QED
        BY <2>1, <4>1, RiskAssumption DEF OrderAdmitted, CallsLeft
    <3>4. admitted' = Append(admitted, now) /\ now' = now
      BY <2>1 DEF OrderAdmitted
    <3> QED
      BY <3>1, <3>2, <3>3, <3>4, SameCardinality DEF Gate!Admit
  <2>2. CASE Tick
    BY <2>2 DEF Tick, Gate!Pass, Gate!Next
  <2>3. CASE CancelAdmitted
    <3>1. /\ UNCHANGED <<now, admitted>>
          /\ risk'.kill_switch_active = risk.kill_switch_active
      BY <2>3, CancelAdmittedStep DEF CancelAdmitted
    <3> QED
      BY <3>1, QuietStep DEF Gate!Next
  <2>4. CASE Error
    <3>1. /\ UNCHANGED <<now, admitted>>
          /\ risk.kill_switch_active => risk'.kill_switch_active
      BY <2>4, ErrorStep DEF Error
    <3> QED
      BY <3>1, QuietStep DEF Gate!Next
  <2>5. CASE \/ Heartbeat
             \/ \E reading \in Readings : OrderBlocked(reading)
             \/ CancelBlocked
             \/ \E size \in Sizes : Fill(size)
             \/ \E latency \in Latencies : Latency(latency)
             \/ UNCHANGED vars
    <3>1. now' = now
      BY <2>5 DEF Heartbeat, OrderBlocked, CancelBlocked, Fill, Latency, vars
    <3>2. /\ risk.kill_switch_active => risk'.kill_switch_active
          /\ admitted' = admitted
      BY <2>5, OtherSteps DEF Logless
    <3> QED
      BY <3>1, <3>2, QuietStep DEF Gate!Next
  <2> QED
    BY <2>1, <2>2, <2>3, <2>4, <2>5 DEF Next, Gate!Next
<1> QED
  BY <1>1, <1>2, BookIsComplete, PTL DEF Spec, ImplementsOrderGate, Gate!Spec

\* The cancel gate's FiniteSets and this module's are the same.
LEMMA SameCancelCardinality == \A S : CancelGate!Cardinality(S) = Cardinality(S)
BY DEF CancelGate!Cardinality, Cardinality, CancelGate!IsFiniteSet, IsFiniteSet

\* Cancels pass a gate of the same shape, one that no kill switch closes
\* (risk_engine.py:66-70, 124-130).
THEOREM CancelGateImplemented == Spec => ImplementsCancelGate
<1>1. Init => CancelGate!Init
  BY DEF Init, CancelGate!Init
<1>2. IInv /\ IInv' /\ [Next]_vars => [CancelGate!Next]_(CancelGate!vars)
  <2> SUFFICES ASSUME IInv, IInv', [Next]_vars
               PROVE  CancelGate!Next \/ UNCHANGED CancelGate!vars
    BY DEF CancelGate!Next
  <2>1. CASE CancelAdmitted
    <3>1. Cardinality(Young(cancels, now, OrderWindow)) < MaxCancelPerSec
      BY <2>1, CancelAdmittedStep
    <3>2. Young(cancels, now, OrderWindow) = CancelGate!Recent
      BY DEF Young, CancelGate!Recent
    <3>3. Len(cancels) < MaxCalls
      <4>1. /\ Len(admitted) \in Nat /\ Len(cancels) \in Nat
            /\ Len(errors) \in Nat
        BY InvParts, LenProperties
      <4> QED
        BY <2>1, <4>1, RiskAssumption DEF CancelAdmitted, CallsLeft
    <3>4. cancels' = Append(cancels, now) /\ now' = now
      BY <2>1 DEF CancelAdmitted
    <3>5. CancelGate!Admit
      BY <3>1, <3>2, <3>3, <3>4, SameCancelCardinality DEF CancelGate!Admit
    <3> QED
      BY <3>5 DEF CancelGate!Next
  <2>2. CASE Tick
    BY <2>2 DEF Tick, CancelGate!Pass, CancelGate!Next
  <2>3. ASSUME NEW reading \in Readings, NEW size \in Sizes,
               OrderAdmitted(reading, size)
        PROVE  UNCHANGED CancelGate!vars
    BY <2>3 DEF OrderAdmitted, CancelGate!vars
  <2>4. CASE Error
    BY <2>4 DEF Error, CancelGate!vars
  <2>5. CASE \/ Heartbeat
             \/ \E reading \in Readings : OrderBlocked(reading)
             \/ CancelBlocked
             \/ \E size \in Sizes : Fill(size)
             \/ \E latency \in Latencies : Latency(latency)
             \/ UNCHANGED vars
    <3>1. now' = now
      BY <2>5 DEF Heartbeat, OrderBlocked, CancelBlocked, Fill, Latency, vars
    <3>2. cancels' = cancels
      BY <2>5 DEF Heartbeat, OrderBlocked, CancelBlocked, Fill, Latency, vars
    <3> QED
      BY <3>1, <3>2 DEF CancelGate!vars
  <2> QED
    BY <2>1, <2>2, <2>3, <2>4, <2>5 DEF Next
<1> QED
  BY <1>1, <1>2, BookIsComplete, PTL
     DEF Spec, ImplementsCancelGate, CancelGate!Spec

\* At most MaxOrdersPerSec orders are admitted in any window.
THEOREM OrderRateIsBounded == Spec => []OrderRateBounded
<1> DEFINE Rate(log) ==
             \A i \in DOMAIN log :
               Cardinality(InWindow(log, log[i], OrderWindow)) <= MaxOrdersPerSec
<1>1. OrderRateBounded <=> Rate(admitted)
  BY SameCardinality DEF OrderRateBounded, Gate!RateBound, InWindow
<1>2. Init => OrderRateBounded
  BY DEF Init, OrderRateBounded, Gate!RateBound
<1>3. IInv /\ OrderRateBounded /\ [Next]_vars => OrderRateBounded'
  <2> SUFFICES ASSUME IInv, OrderRateBounded, [Next]_vars
               PROVE  OrderRateBounded'
    OBVIOUS
  <2>0. OrderWindow \in Nat /\ MaxOrdersPerSec \in Nat
    BY RiskAssumption
  <2>1. ASSUME NEW reading \in Readings, NEW size \in Sizes,
               OrderAdmitted(reading, size)
        PROVE  OrderRateBounded'
    <3>1. Cardinality(Young(admitted, now, OrderWindow)) < MaxOrdersPerSec
      BY <2>1, OrderAdmittedStep
    <3>2. /\ Cardinality(Young(Append(admitted, now), now, OrderWindow))
               = Cardinality(Young(admitted, now, OrderWindow)) + 1
          /\ Cardinality(Young(admitted, now, OrderWindow)) \in Nat
      <4>1. Young(admitted, now, OrderWindow) \subseteq DOMAIN admitted
        BY DEF Young
      <4> QED
        BY <2>0, <4>1, InvParts, YoungAppend, PositionsFinite
    <3>3. Cardinality(Young(Append(admitted, now), now, OrderWindow))
            <= MaxOrdersPerSec
      BY <2>0, <3>1, <3>2
    <3>4. Rate(Append(admitted, now))
      BY <1>1, <2>0, <3>3, InvParts, RateAppend
    <3>5. admitted' = Append(admitted, now)
      BY <2>1 DEF OrderAdmitted
    <3> QED
      BY <3>4, <3>5, SameCardinality
         DEF OrderRateBounded, Gate!RateBound, InWindow
  <2>2. CASE admitted' = admitted
    BY <2>2 DEF OrderRateBounded, Gate!RateBound
  <2>3. CASE CancelAdmitted \/ Error
    BY <2>2, <2>3 DEF CancelAdmitted, Error
  <2> QED
    BY <2>1, <2>2, <2>3, OtherSteps DEF Next, Logless
<1> QED
  BY <1>2, <1>3, BookIsComplete, PTL DEF Spec

\* More than MaxErrorRatePerMin errors in a window leave the kill switch
\* active.
THEOREM ErrorBurstIsFatal == Spec => []ErrorBurstKills
<1> DEFINE Calm(log) ==
             \A i \in DOMAIN log :
               Cardinality(InWindow(log, log[i], ErrorWindow))
                 <= MaxErrorRatePerMin
           Inv == risk.kill_switch_active \/ Calm(errors)
<1>1. Init => Inv
  BY DEF Init
<1>2. IInv /\ Inv /\ [Next]_vars => Inv'
  <2> SUFFICES ASSUME IInv, Inv, [Next]_vars PROVE Inv'
    OBVIOUS
  <2>0. ErrorWindow \in Nat /\ MaxErrorRatePerMin \in Nat
    BY RiskAssumption
  <2>1. CASE Error
    <3>1. /\ risk.kill_switch_active => risk'.kill_switch_active
          /\ risk'.kill_switch_active
               \/ Cardinality(Young(Append(errors, now), now, ErrorWindow))
                    <= MaxErrorRatePerMin
          /\ errors' = Append(errors, now)
      BY <2>1, ErrorStep DEF Error
    <3>2. CASE risk'.kill_switch_active
      BY <3>2
    <3>3. CASE ~risk'.kill_switch_active
      <4>1. Calm(errors)
        BY <3>1, <3>3
      <4>2. Calm(Append(errors, now))
        BY <2>0, <3>1, <3>3, <4>1, InvParts, RateAppend
      <4> QED
        BY <3>1, <4>2
    <3> QED
      BY <3>2, <3>3
  <2>2. ASSUME errors' = errors,
               risk.kill_switch_active => risk'.kill_switch_active
        PROVE  Inv'
    BY <2>2
  <2>3. ASSUME NEW reading \in Readings, NEW size \in Sizes,
               OrderAdmitted(reading, size)
        PROVE  Inv'
    <3>1. ~risk.kill_switch_active /\ errors' = errors
      BY <2>3, OrderAdmittedStep DEF OrderAdmitted
    <3> QED
      BY <2>2, <3>1
  <2>4. CASE CancelAdmitted
    <3>1. /\ risk'.kill_switch_active = risk.kill_switch_active
          /\ errors' = errors
      BY <2>4, CancelAdmittedStep DEF CancelAdmitted
    <3> QED
      BY <2>2, <3>1
  <2> QED
    BY <2>1, <2>2, <2>3, <2>4, OtherSteps DEF Next, Logless
<1>3. IInv /\ Inv => ErrorBurstKills
  <2> SUFFICES ASSUME IInv, Inv, ~risk.kill_switch_active,
                      NEW i \in DOMAIN errors
               PROVE  ~(Cardinality(InWindow(errors, errors[i], ErrorWindow))
                          > MaxErrorRatePerMin)
    BY DEF ErrorBurstKills, InWindow
  <2>1. Cardinality(InWindow(errors, errors[i], ErrorWindow))
          <= MaxErrorRatePerMin
    OBVIOUS
  <2>2. Cardinality(InWindow(errors, errors[i], ErrorWindow)) \in Nat
    BY InvParts, PositionsFinite DEF InWindow
  <2> QED
    BY <2>1, <2>2, RiskAssumption
<1> QED
  BY <1>1, <1>2, <1>3, BookIsComplete, PTL DEF Spec

=============================================================================
