----------------------------- MODULE EdgeProofs -----------------------------
(***************************************************************************)
(* What the broker lets through, for every choice of the parameters: the   *)
(* relay quota's bounds on what is accepted and handed over, the timestamp *)
(* window, what connections that race for a signaling limiter can gain and *)
(* how often a signal can be relayed again.                                *)
(***************************************************************************)
EXTENDS PeerQuota, SignalLimiter, FiniteSetTheorems, TLAPS

(***************************************************************************)
(* What a call could still be granted counts as spent: with the bucket's   *)
(* present content added, the peak rate bound is inductive.                *)
(***************************************************************************)
BucketInv ==
    IF now >= from THEN accepted + Refilled <= BytesPerSecond + (now - from)
                   ELSE accepted = 0

(***************************************************************************)
(* Counting that started after the window did saw nothing but the current  *)
(* window; counting that started less than a day before it also saw one    *)
(* allowance of the window before.                                         *)
(***************************************************************************)
WindowInv ==
    /\ from > day_window_start => accepted <= day_used
    /\ from > day_window_start - Day => accepted <= day_used + BytesPerDay

QuotaInv == QuotaTypeOK /\ BucketInv /\ WindowInv

\* A fresh quota.
LEMMA InitQuota == QuotaInit => QuotaInv
<1> SUFFICES ASSUME QuotaInit PROVE QuotaInv
  OBVIOUS
<1>1. QuotaTypeOK
  BY QuotaAssumption, ClockAssumption DEF QuotaInit, ClockInit, QuotaTypeOK
<1>2. BucketInv /\ WindowInv
  BY QuotaAssumption, ClockAssumption DEF QuotaInit, ClockInit, BucketInv,
     WindowInv, Refilled, Least
<1> QED BY <1>1, <1>2 DEF QuotaInv

\* Time passes.
LEMMA TickQuota ==
    ASSUME QuotaInv, Tick
    PROVE  QuotaInv'
<1>1. QuotaTypeOK'
  BY QuotaAssumption, ClockAssumption DEF QuotaInv, QuotaTypeOK, Tick, ClockTick
<1>2. BucketInv'
  BY QuotaAssumption DEF QuotaInv, QuotaTypeOK, BucketInv, Tick, ClockTick,
     Refilled, Least
<1>3. WindowInv'
  BY DEF QuotaInv, WindowInv, Tick, ClockTick
<1> QED BY <1>1, <1>2, <1>3 DEF QuotaInv

\* try_consume accepts or refuses a frame.
LEMMA ChargeQuota ==
    ASSUME QuotaInv, NEW t \in Task, NEW bytes \in 0..MaxFrame, Charge(t, bytes)
    PROVE  QuotaInv'
<1>1. UsedToday \in 0..BytesPerDay /\ Refilled \in 0..BytesPerSecond
  BY QuotaAssumption DEF QuotaInv, QuotaTypeOK, UsedToday, Refilled, Least
<1>2. PICK spent \in Nat :
        /\ spent <= Refilled /\ UsedToday + spent <= BytesPerDay
        /\ tokens' = Refilled - spent
        /\ day_used' = UsedToday + spent
        /\ accepted' = accepted + Counted(spent)
  <2> DEFINE spent == IF UsedToday + bytes <= BytesPerDay /\ bytes <= Refilled
                      THEN bytes ELSE 0
  <2>1. spent \in Nat /\ spent <= Refilled /\ UsedToday + spent <= BytesPerDay
    BY <1>1, QuotaAssumption
  <2>2. /\ tokens' = Refilled - spent
        /\ day_used' = UsedToday + spent
        /\ accepted' = accepted + Counted(spent)
    BY DEF Charge
  <2> QED BY <2>1, <2>2
<1>3. /\ last_refill' = now /\ now' = now /\ from' = from /\ relayed' = relayed
      /\ day_window_start' = IF DayOver THEN now ELSE day_window_start
      /\ inflight' \in {[inflight EXCEPT ![t] = bytes], inflight}
  BY DEF Charge, TouchBucket
<1>4. /\ now \in Int /\ from \in Int /\ accepted \in Nat
      /\ day_window_start \in 0..now /\ day_used \in 0..BytesPerDay
  BY DEF QuotaInv, QuotaTypeOK
<1>5. QuotaTypeOK'
  <2>1. inflight' \in [Task -> 0..MaxFrame \cup {None}]
    BY <1>3 DEF QuotaInv, QuotaTypeOK
  <2>2. Counted(spent) \in Nat
    BY <1>2 DEF Counted
  <2>3. /\ tokens' \in 0..BytesPerSecond /\ day_used' \in 0..BytesPerDay
        /\ accepted' \in Nat
    BY <1>1, <1>2, <1>4, <2>2, QuotaAssumption
  <2> QED BY <1>3, <2>1, <2>3, QuotaAssumption DEF QuotaInv, QuotaTypeOK
<1>6. BucketInv'
  <2>1. Refilled' = Refilled - spent
    <3>1. Refilled' = Least(tokens' + (now' - last_refill'), BytesPerSecond)
      BY DEF Refilled
    <3> QED BY <1>1, <1>2, <1>3, <1>4, <3>1, QuotaAssumption DEF Least
  <2> QED BY <1>1, <1>2, <1>3, <1>4, <2>1, QuotaAssumption
          DEF QuotaInv, BucketInv, Counted
<1>7. WindowInv'
  <2>1. accepted' <= accepted + spent /\ (now < from => accepted' = 0)
    BY <1>2, <1>4 DEF QuotaInv, BucketInv, Counted
  <2>2. accepted' \in Int /\ day_used' \in Int
    BY <1>5 DEF QuotaTypeOK
  <2>3. CASE DayOver
    <3>1. day_window_start' = now /\ day_used' = spent
      BY <1>2, <1>3, <2>3 DEF UsedToday
    <3>2. from > now - Day => accepted <= BytesPerDay
      BY <1>4, <2>3, QuotaAssumption DEF DayOver, QuotaInv, WindowInv
    <3> QED BY <1>2, <1>3, <1>4, <2>1, <2>2, <3>1, <3>2, QuotaAssumption
            DEF WindowInv
  <2>4. CASE ~DayOver
    <3>1. day_window_start' = day_window_start /\ day_used' = day_used + spent
      BY <1>2, <1>3, <2>4 DEF UsedToday
    <3> QED BY <1>2, <1>3, <1>4, <2>1, <2>2, <3>1, QuotaAssumption
            DEF QuotaInv, WindowInv
  <2> QED BY <2>3, <2>4
<1> QED BY <1>5, <1>6, <1>7 DEF QuotaInv

\* A frame leaves its task, handed over or lost.
LEMMA LeaveQuota ==
    ASSUME QuotaInv, NEW t \in Task, HandOver(t) \/ PeerOffline(t)
    PROVE  QuotaInv'
<1>1. /\ UNCHANGED <<tokens, last_refill, day_used, day_window_start, now, from,
                     accepted>>
      /\ inflight' = [inflight EXCEPT ![t] = None]
      /\ relayed' \in {relayed, relayed + Counted(inflight[t])}
      /\ inflight[t] # None
  BY DEF HandOver, PeerOffline
<1>2. inflight' \in [Task -> 0..MaxFrame \cup {None}] /\ relayed' \in Nat
  <2>1. inflight[t] \in 0..MaxFrame
    BY <1>1 DEF QuotaInv, QuotaTypeOK
  <2>2. Counted(inflight[t]) \in Nat
    BY <2>1, QuotaAssumption DEF Counted
  <2>3. relayed \in Nat
    BY DEF QuotaInv, QuotaTypeOK
  <2> QED BY <1>1, <2>2, <2>3 DEF QuotaInv, QuotaTypeOK
<1>3. QuotaTypeOK'
  BY <1>1, <1>2 DEF QuotaInv, QuotaTypeOK
<1>4. BucketInv' /\ WindowInv'
  BY <1>1 DEF QuotaInv, BucketInv, WindowInv, Refilled, Least
<1> QED BY <1>3, <1>4 DEF QuotaInv

\* Any step.
LEMMA StepQuota == QuotaInv /\ [QuotaNext]_quotaVars => QuotaInv'
<1>1. ASSUME QuotaInv, UNCHANGED quotaVars PROVE QuotaInv'
  BY <1>1 DEF QuotaInv, QuotaTypeOK, BucketInv, WindowInv, Refilled, Least,
     quotaVars
<1> QED BY <1>1, TickQuota, ChargeQuota, LeaveQuota DEF QuotaNext

\* The strengthened invariant holds throughout.
LEMMA QuotaInvariant == QuotaSpec => []QuotaInv
  BY InitQuota, StepQuota, PTL DEF QuotaSpec

\* It bounds the peak rate.
LEMMA QuotaInvPeak == QuotaInv => PeakRate
<1>1. QuotaInv => Refilled \in Nat
  BY QuotaAssumption DEF QuotaInv, QuotaTypeOK, Refilled, Least
<1> QED BY <1>1, QuotaAssumption DEF QuotaInv, QuotaTypeOK, BucketInv, PeakRate

\* It bounds two days.
LEMMA QuotaInvDays == QuotaInv => TwoDaysWorth
  BY QuotaAssumption DEF QuotaInv, QuotaTypeOK, WindowInv, TwoDaysWorth

(***************************************************************************)
(* try_consume keeps the bucket and the day's use within their limits.     *)
(***************************************************************************)
THEOREM QuotaTypeCorrect == QuotaSpec => []QuotaTypeOK
<1>1. QuotaInv => QuotaTypeOK
  BY DEF QuotaInv
<1> QED BY <1>1, QuotaInvariant, PTL

(***************************************************************************)
(* try_consume never accepts more than a full bucket and the refill since, *)
(* over any stretch of time.                                               *)
(***************************************************************************)
THEOREM QuotaPeak == QuotaSpec => []PeakRate
  BY QuotaInvariant, QuotaInvPeak, PTL

(***************************************************************************)
(* try_consume never accepts more than two daily allowances within a day.  *)
(***************************************************************************)
THEOREM QuotaDays == QuotaSpec => []TwoDaysWorth
  BY QuotaInvariant, QuotaInvDays, PTL

\* The bytes that frames of the lengths f have yet to bring: one pair each.
OwedBy(f) ==
    {x \in Task \X (1..MaxFrame) : f[x[1]] # None /\ x[2] <= f[x[1]]}

(***************************************************************************)
(* What has been handed over and what is in flight was accepted, but for   *)
(* one part per connection that was charged before counting started.      *)
(***************************************************************************)
DeliveryInv ==
    IF now >= from THEN relayed + Cardinality(OwedBy(inflight))
                          <= accepted + Cardinality(Task) * MaxFrame
                   ELSE relayed = 0

\* No connection has more than one part in flight.
LEMMA OwedBound ==
    ASSUME NEW f
    PROVE  /\ IsFiniteSet(OwedBy(f))
           /\ Cardinality(OwedBy(f)) \in Nat
           /\ Cardinality(OwedBy(f)) <= Cardinality(Task) * MaxFrame
<1>1. IsFiniteSet(1..MaxFrame) /\ Cardinality(1..MaxFrame) = MaxFrame
  BY FS_Interval, QuotaAssumption
<1>2. /\ IsFiniteSet(Task \X (1..MaxFrame))
      /\ Cardinality(Task \X (1..MaxFrame)) = Cardinality(Task) * MaxFrame
  BY ZenonT(30), <1>1, FS_Product, ClockAssumption
<1>3. OwedBy(f) \in SUBSET (Task \X (1..MaxFrame))
  BY DEF OwedBy
<1>4. IsFiniteSet(OwedBy(f)) /\ Cardinality(OwedBy(f)) <= Cardinality(Task) * MaxFrame
  BY <1>2, <1>3, FS_Subset
<1> QED BY <1>4, FS_CardinalityType

\* A part of bytes bytes adds that many.
LEMMA OwedAdd ==
    ASSUME NEW f \in [Task -> 0..MaxFrame \cup {None}], NEW t \in Task, f[t] = None,
           NEW bytes \in 0..MaxFrame
    PROVE  Cardinality(OwedBy([f EXCEPT ![t] = bytes])) = Cardinality(OwedBy(f)) + bytes
<1> DEFINE g == [f EXCEPT ![t] = bytes]
           part == {t} \X (1..bytes)
<1>1. bytes \in Nat /\ bytes <= MaxFrame /\ bytes # None
  BY QuotaAssumption, ClockAssumption
<1>2. IsFiniteSet(part) /\ Cardinality(part) = bytes
  <2>1. IsFiniteSet(1..bytes) /\ Cardinality(1..bytes) = bytes
    BY <1>1, FS_Interval
  <2>2. IsFiniteSet({t}) /\ Cardinality({t}) = 1
    BY ZenonT(30), FS_Singleton
  <2>3. /\ IsFiniteSet({t} \X (1..bytes))
        /\ Cardinality({t} \X (1..bytes)) = Cardinality({t}) * Cardinality(1..bytes)
    BY <2>1, <2>2, FS_Product, ZenonT(30)
  <2>4. Cardinality({t}) * Cardinality(1..bytes) = bytes
    BY <1>1, <2>1, <2>2
  <2> QED BY <2>3, <2>4, Zenon
<1>3. OwedBy(g) = OwedBy(f) \cup part
  <2>1. ASSUME NEW u \in Task, NEW n \in 1..MaxFrame
        PROVE  <<u, n>> \in OwedBy(g) <=> <<u, n>> \in OwedBy(f) \cup part
    <3>1. CASE u = t
      BY <1>1, <2>1, <3>1, QuotaAssumption DEF OwedBy
    <3>2. CASE u # t
      BY <2>1, <3>2 DEF OwedBy
    <3> QED BY <3>1, <3>2
  <2>2. /\ OwedBy(g) \subseteq Task \X (1..MaxFrame)
        /\ OwedBy(f) \subseteq Task \X (1..MaxFrame)
    BY DEF OwedBy
  <2>3. part \subseteq Task \X (1..MaxFrame)
    BY <1>1, QuotaAssumption
  <2>4. ASSUME NEW x PROVE x \in OwedBy(g) <=> x \in OwedBy(f) \cup part
    <3>1. CASE x \in Task \X (1..MaxFrame)
      <4>1. PICK u \in Task, n \in 1..MaxFrame : x = <<u, n>>
        BY <3>1
      <4> QED BY <2>1, <4>1, Zenon
    <3>2. CASE x \notin Task \X (1..MaxFrame)
      BY <2>2, <2>3, <3>2, Zenon
    <3> QED BY <3>1, <3>2
  <2> QED BY <2>4, Zenon
<1>4. OwedBy(f) \cap part = {}
  BY DEF OwedBy
<1> HIDE DEF part, g
<1>5. IsFiniteSet(OwedBy(f)) /\ Cardinality(OwedBy(f)) \in Nat
  BY OwedBound
<1>6. Cardinality(OwedBy(f) \cup part)
        = Cardinality(OwedBy(f)) + Cardinality(part) - Cardinality(OwedBy(f) \cap part)
  BY <1>2, <1>5, FS_Union, ZenonT(30)
<1>7. Cardinality(OwedBy(f) \cap part) = 0
  BY <1>4, FS_EmptySet, Zenon
<1>8. Cardinality(OwedBy(g)) = Cardinality(OwedBy(f)) + Cardinality(part) - 0
  BY <1>3, <1>6, <1>7, Zenon
<1>9. Cardinality(OwedBy(g)) = Cardinality(OwedBy(f)) + bytes
  BY <1>1, <1>2, <1>5, <1>8
<1> QED BY <1>9 DEF g

\* What leaves one side of the books arrives at the other.
LEMMA Handed ==
    ASSUME NEW r \in Nat, NEW s \in Nat, NEW owed \in Nat, NEW bytes \in Nat,
           NEW limit \in Nat, r + owed <= limit, s <= r + bytes
    PROVE  s + (owed - bytes) <= limit
  OBVIOUS

\* Every step keeps it, and it gives the rate.
LEMMA StepDelivery == QuotaInv /\ DeliveryInv /\ [QuotaNext]_quotaVars => DeliveryInv'
<1> SUFFICES ASSUME QuotaInv, DeliveryInv, [QuotaNext]_quotaVars
             PROVE  DeliveryInv'
  OBVIOUS
<1> DEFINE limit == Cardinality(Task) * MaxFrame
           owed == Cardinality(OwedBy(inflight))
<1>1. /\ now \in Int /\ from \in Int /\ accepted \in Nat /\ relayed \in Nat
      /\ inflight \in [Task -> 0..MaxFrame \cup {None}]
      /\ now < from => accepted = 0
  BY DEF QuotaInv, QuotaTypeOK, BucketInv
<1>2. limit \in Nat
  BY FS_CardinalityType, ClockAssumption, QuotaAssumption
<1>3. owed \in Nat /\ owed <= limit
  BY OwedBound
<1>4. CASE UNCHANGED quotaVars
  BY <1>4 DEF DeliveryInv, quotaVars
<1>5. CASE Tick
  <2>1. /\ now' = now + 1 /\ from' = from /\ accepted' = accepted
        /\ relayed' = relayed /\ inflight' = inflight
    BY <1>5 DEF Tick, ClockTick
  <2> QED BY <1>1, <1>2, <1>3, <2>1 DEF DeliveryInv
<1>6. ASSUME NEW t \in Task, NEW bytes \in 0..MaxFrame, Charge(t, bytes)
      PROVE  DeliveryInv'
  <2>1. now' = now /\ from' = from /\ relayed' = relayed /\ inflight[t] = None
    BY <1>6 DEF Charge
  <2>2. bytes \in Nat
    BY QuotaAssumption
  <2>3. CASE UsedToday + bytes <= BytesPerDay /\ bytes <= Refilled
    <3>1. /\ inflight' = [inflight EXCEPT ![t] = bytes]
          /\ accepted' = accepted + Counted(bytes)
      BY <1>6, <2>3 DEF Charge
    <3>2. Cardinality(OwedBy(inflight')) = owed + bytes
      BY ZenonT(30), <1>1, <2>1, <3>1, OwedAdd
    <3>3. Cardinality(OwedBy(inflight))' = owed + bytes
      BY <3>2 DEF OwedBy
    <3> QED BY <1>1, <1>2, <1>3, <2>1, <2>2, <3>1, <3>3 DEF DeliveryInv, Counted
  <2>4. CASE ~(UsedToday + bytes <= BytesPerDay /\ bytes <= Refilled)
    <3>1. inflight' = inflight /\ accepted' = accepted + Counted(0)
      BY <1>6, <2>4 DEF Charge
    <3> QED BY <1>1, <2>1, <3>1 DEF DeliveryInv, Counted
  <2> QED BY <2>3, <2>4
<1>7. ASSUME NEW t \in Task, HandOver(t) \/ PeerOffline(t)
      PROVE  DeliveryInv'
  <2> DEFINE bytes == inflight[t]
  <2>1. /\ now' = now /\ from' = from /\ accepted' = accepted /\ bytes # None
        /\ inflight' = [inflight EXCEPT ![t] = None]
        /\ relayed' \in {relayed, relayed + Counted(bytes)}
    BY <1>7 DEF HandOver, PeerOffline
  <2>2. bytes \in 0..MaxFrame /\ bytes \in Nat
    BY <1>1, <2>1, QuotaAssumption
  <2>3. /\ inflight' \in [Task -> 0..MaxFrame \cup {None}] /\ inflight'[t] = None
        /\ [inflight' EXCEPT ![t] = bytes] = inflight
    BY ZenonT(30), <1>1, <2>1
  <2>4. owed = Cardinality(OwedBy(inflight')) + bytes
    BY <2>2, <2>3, OwedAdd
  <2>5. Cardinality(OwedBy(inflight)') = Cardinality(OwedBy(inflight'))
    BY DEF OwedBy
  <2>6. Cardinality(OwedBy(inflight')) \in Nat
    BY OwedBound
  <2>7. Cardinality(OwedBy(inflight))' = owed - bytes
    BY <1>3, <2>2, <2>4, <2>5, <2>6
  <2>8. relayed' = relayed \/ relayed' = relayed + Counted(bytes)
    BY <2>1
  <2>9. CASE now >= from
    <3>1. relayed' \in Nat /\ relayed' <= relayed + bytes
      BY <1>1, <2>2, <2>8, <2>9 DEF Counted
    <3>2. relayed + owed <= accepted + limit /\ accepted + limit \in Nat
      BY <1>1, <1>2, <2>9 DEF DeliveryInv
    <3>3. relayed' + (owed - bytes) <= accepted + limit
      BY <1>1, <1>3, <2>2, <3>1, <3>2, Handed
    <3> QED BY <2>1, <2>7, <2>9, <3>3 DEF DeliveryInv
  <2>10. CASE now < from
    <3>1. relayed' = 0
      BY <1>1, <2>8, <2>10 DEF DeliveryInv, Counted
    <3> QED BY <1>1, <2>1, <2>10, <3>1 DEF DeliveryInv
  <2> QED BY <1>1, <2>9, <2>10
<1> QED BY <1>4, <1>5, <1>6, <1>7 DEF QuotaNext

(***************************************************************************)
(* forward hands over no more than the peak rate allows and one frame per  *)
(* connection, which may have been charged long before its recipient's     *)
(* channel had room.                                                       *)
(***************************************************************************)
THEOREM QuotaDelivered == QuotaSpec => []DeliveredRate
<1>1. QuotaInit => DeliveryInv
  <2> SUFFICES ASSUME QuotaInit PROVE DeliveryInv
    OBVIOUS
  <2>1. accepted = 0 /\ relayed = 0
    BY DEF QuotaInit
  <2>2. /\ Cardinality(OwedBy(inflight)) \in Nat
        /\ Cardinality(OwedBy(inflight)) <= Cardinality(Task) * MaxFrame
    BY OwedBound
  <2>3. Cardinality(Task) * MaxFrame \in Nat
    BY FS_CardinalityType, ClockAssumption, QuotaAssumption
  <2> QED BY <2>1, <2>2, <2>3 DEF DeliveryInv
<1>2. QuotaInv /\ DeliveryInv => DeliveredRate
  <2> SUFFICES ASSUME QuotaInv, DeliveryInv, now >= from
               PROVE  relayed <= BytesPerSecond + (now - from)
                                   + Cardinality(Task) * MaxFrame
    BY DEF DeliveredRate
  <2>1. accepted <= BytesPerSecond + (now - from)
    BY QuotaInvPeak DEF PeakRate
  <2>2. /\ now \in Int /\ from \in Int /\ accepted \in Nat /\ relayed \in Nat
        /\ BytesPerSecond \in Nat
    BY QuotaAssumption DEF QuotaInv, QuotaTypeOK
  <2>3. Cardinality(OwedBy(inflight)) \in Nat /\ Cardinality(Task) * MaxFrame \in Nat
    BY OwedBound, FS_CardinalityType, ClockAssumption, QuotaAssumption
  <2> QED BY <2>1, <2>2, <2>3 DEF DeliveryInv
<1> QED BY <1>1, <1>2, QuotaInvariant, StepDelivery, PTL DEF QuotaSpec

-----------------------------------------------------------------------------
\* A session task takes a signal to its limiter.
LEMMA FindLimiterType ==
    ASSUME LimiterTypeOK, NEW t \in Task, NEW ts \in Timestamp, FindLimiter(t, ts)
    PROVE  LimiterTypeOK'
<1>1. CASE Stored
  BY <1>1 DEF LimiterTypeOK, FindLimiter, Stored
<1>2. CASE ~Stored
  BY <1>2, LimiterAssumption DEF LimiterTypeOK, FindLimiter
<1> QED BY <1>1, <1>2

\* It takes a cell of the limiter.
LEMMA CheckLimiterType ==
    ASSUME LimiterTypeOK, NEW t \in Task, CheckLimiter(t)
    PROVE  LimiterTypeOK'
<1>1. held[t] \in Task
  BY DEF LimiterTypeOK, CheckLimiter
<1>2. CellsNow(held[t]) \in 0..Burst
  BY <1>1, LimiterAssumption DEF LimiterTypeOK, CellsNow
<1>3. PICK pass \in {0, 1} :
        /\ pass <= CellsNow(held[t])
        /\ cells' = [cells EXCEPT ![held[t]] = CellsNow(held[t]) - pass]
        /\ allowed' = allowed + Counted(pass)
        /\ resent' = IF again[t] THEN resent + pass ELSE resent
  <2> DEFINE pass == IF CellsNow(held[t]) > 0 THEN 1 ELSE 0
  <2>1. pass \in {0, 1} /\ pass <= CellsNow(held[t])
    BY <1>2, LimiterAssumption
  <2>2. /\ cells' = [cells EXCEPT ![held[t]] = CellsNow(held[t]) - pass]
        /\ allowed' = allowed + Counted(pass)
        /\ resent' = IF again[t] THEN resent + pass ELSE resent
    BY DEF CheckLimiter
  <2> QED BY ZenonT(30), <2>1, <2>2
<1>4. cells' \in [Task -> 0..Burst]
  <2>1. CellsNow(held[t]) - pass \in 0..Burst
    BY <1>2, <1>3, LimiterAssumption
  <2> QED BY <1>1, <1>3, <2>1 DEF LimiterTypeOK
<1>5. allowed' \in Nat /\ resent' \in Nat
  BY <1>3 DEF LimiterTypeOK, Counted
<1>6. since' \in [Task -> 0..now'] /\ now' \in 0..MaxTime /\ from' \in 0..MaxTime
  BY <1>1 DEF LimiterTypeOK, CheckLimiter
<1>7. /\ at' = [at EXCEPT ![t] = "idle"] /\ held' = [held EXCEPT ![t] = None]
      /\ again' = [again EXCEPT ![t] = FALSE] /\ UNCHANGED <<entry, stamp>>
  BY DEF CheckLimiter
<1> QED BY <1>4, <1>5, <1>6, <1>7 DEF LimiterTypeOK

(***************************************************************************)
(* check holds a limiter when it asks for a cell, whatever limiter_for     *)
(* found and whoever stored another meanwhile, and no limiter ever has     *)
(* more cells than a burst.                                                *)
(***************************************************************************)
THEOREM LimiterTypeCorrect == LimiterSpec => []LimiterTypeOK
<1>1. LimiterInit => LimiterTypeOK
  BY LimiterAssumption, ClockAssumption DEF LimiterInit, ClockInit, LimiterTypeOK
<1>2. LimiterTypeOK /\ [LimiterNext]_limiterVars => LimiterTypeOK'
  <2>1. ASSUME LimiterTypeOK, UNCHANGED limiterVars PROVE LimiterTypeOK'
    BY <2>1 DEF LimiterTypeOK, limiterVars
  <2>2. ASSUME LimiterTypeOK, PassTime PROVE LimiterTypeOK'
    BY <2>2, ClockAssumption DEF LimiterTypeOK, PassTime, ClockTick
  <2>3. ASSUME LimiterTypeOK, NEW t \in Task, StoreLimiter(t) PROVE LimiterTypeOK'
    BY <2>3 DEF LimiterTypeOK, StoreLimiter
  <2> QED BY <2>1, <2>2, <2>3, FindLimiterType, CheckLimiterType DEF LimiterNext
<1> QED BY <1>1, <1>2, PTL DEF LimiterSpec

\* Away from the end of an i64 a wrapped difference is out of the window.
LEMMA ExactWindow ==
    ASSUME NEW clock \in Nat, clock + MaxDrift < Half
    PROVE  ExactAt(clock)
<1> SUFFICES ASSUME NEW ts \in Timestamp
             PROVE  CheckTimestamp(clock, ts) = "ok" <=> Within(clock, ts)
  BY DEF ExactAt
<1>1. ts \in Int /\ -Half <= ts /\ ts < Half
  BY WindowAssumption DEF Timestamp
<1>2. CASE clock - ts >= Half
  BY <1>1, <1>2, WindowAssumption DEF CheckTimestamp, Wrap, Within
<1>3. CASE clock - ts < Half
  BY <1>1, <1>3, WindowAssumption DEF CheckTimestamp, Wrap, Within
<1> QED BY <1>1, <1>2, <1>3, WindowAssumption

(***************************************************************************)
(* check_timestamp accepts the timestamps within MAX_DRIFT_SECS of the     *)
(* clock and no others, for every width of the integers.                   *)
(***************************************************************************)
THEOREM TimestampWindow == LimiterSpec => []WindowExact
<1>1. LimiterTypeOK => WindowExact
  <2> SUFFICES ASSUME LimiterTypeOK PROVE WindowExact
    OBVIOUS
  <2>1. now \in Nat /\ now <= MaxTime
    BY ClockAssumption DEF LimiterTypeOK
  <2>2. Clock \in Nat /\ Clock <= now
    BY <2>1, LimiterAssumption DEF Clock
  <2> QED BY <2>1, <2>2, ExactWindow, ClockAssumption, WindowAssumption,
             LimiterAssumption DEF WindowExact
<1> QED BY <1>1, LimiterTypeCorrect, PTL

(***************************************************************************)
(* The signaling limiter's bounds.  A connection has arrived unless it is  *)
(* between its map.get and its map.insert; one that holds a limiter which  *)
(* is no longer stored is stale.                                           *)
(***************************************************************************)
ArrivedAt(a) == {t \in Task : a[t] # "insert"}

StaleAt(a, h, e) == {t \in Task : a[t] = "check" /\ h[t] # e}

\* Messages that may be allowed with no time passing and no limiter replaced.
Promised == CellsNow(entry) + Cardinality(StaleAt(at, held, entry))

Arrived == Cardinality(ArrivedAt(at))

\* The stored limiter's maker has stored it, and nobody checks before there is
\* one.
EntryInv ==
    /\ entry = None => \A t \in Task : at[t] # "check"
    /\ entry # None => at[entry] # "insert"
    /\ \A t \in Task : t = entry /\ at[t] = "check" => held[t] = t
    /\ \A t \in Task : at[t] = "insert" => held[t] = t

(***************************************************************************)
(* What is promised counts as allowed, and the connections that have yet   *)
(* to arrive bring their share with them: so the bound is inductive.       *)
(***************************************************************************)
RaceInv ==
    /\ entry = None \/ now < from => allowed = 0
    /\ entry # None /\ now >= from =>
           2 * (allowed + Promised) <= Races(Arrived) + 2 * (now - from)

\* One more connection arrives.
LEMMA RacesNext ==
    ASSUME NEW n \in Nat
    PROVE  Races(n) \in Int /\ Races(n + 1) = Races(n) + 2 * (Burst + n)
<1>1. Burst \in Nat
  BY LimiterAssumption
<1>2. Races(n + 1) = (n + 1) * (2 * Burst + n)
  BY <1>1 DEF Races
<1>3. (n + 1) * (2 * Burst + n) = n * (2 * Burst + n - 1) + n + (2 * Burst + n)
  BY <1>1
<1> QED BY <1>1, <1>2, <1>3 DEF Races

\* The first burst and one message for each of the other connections.
LEMMA RacesLeast ==
    ASSUME NEW n \in Nat, n > 0
    PROVE  2 * (Burst + n - 1) <= Races(n)
<1>1. Burst \in Nat
  BY LimiterAssumption
<1>2. (n - 1) * (2 * Burst + n - 2) >= 0
  <2>1. CASE n = 1
    BY <2>1, <1>1
  <2>2. CASE n > 1
    <3>1. n - 1 \in Nat /\ 2 * Burst + n - 2 \in Nat
      BY <1>1, <2>2
    <3>2. \A x, y \in Nat : x * y >= 0
      OBVIOUS
    <3> QED BY <3>1, <3>2
  <2> QED BY <2>1, <2>2
<1>3. n * (2 * Burst + n - 1) = (n - 1) * (2 * Burst + n - 2) + 2 * (Burst + n - 1)
  BY <1>1
<1> QED BY <1>1, <1>2, <1>3 DEF Races

\* More connections are worth more.
LEMMA RacesMonotone ==
    ASSUME NEW m \in Nat, NEW n \in Nat, m <= n
    PROVE  Races(m) <= Races(n)
<1>1. Burst \in Nat /\ Burst > 0
  BY LimiterAssumption
<1>2. \A x, y, z \in Nat : x <= y => x * z <= y * z /\ z * x <= z * y
  OBVIOUS
<1>3. 2 * Burst + m - 1 \in Nat /\ 2 * Burst + n - 1 \in Nat
  BY <1>1
<1>4. m * (2 * Burst + m - 1) <= n * (2 * Burst + m - 1)
  BY <1>2, <1>3
<1>5. n * (2 * Burst + m - 1) <= n * (2 * Burst + n - 1)
  <2>1. 2 * Burst + m - 1 <= 2 * Burst + n - 1
    BY <1>1
  <2> QED BY <1>2, <1>3, <2>1
<1>6. /\ m * (2 * Burst + m - 1) \in Int /\ n * (2 * Burst + m - 1) \in Int
      /\ n * (2 * Burst + n - 1) \in Int
  BY <1>1
<1> QED BY <1>4, <1>5, <1>6 DEF Races

\* Connections can be counted.
LEMMA ArrivedCount ==
    ASSUME NEW a
    PROVE  /\ IsFiniteSet(ArrivedAt(a)) /\ Cardinality(ArrivedAt(a)) \in Nat
           /\ Cardinality(ArrivedAt(a)) <= Cardinality(Task)
           /\ Cardinality(Task) \in Nat
<1>1. ArrivedAt(a) \in SUBSET Task
  BY DEF ArrivedAt
<1>2. IsFiniteSet(Task)
  BY ClockAssumption
<1> QED BY <1>1, <1>2, FS_Subset, FS_CardinalityType

\* So can stale ones, which have arrived.
LEMMA StaleCount ==
    ASSUME NEW a, NEW h, NEW e
    PROVE  /\ IsFiniteSet(StaleAt(a, h, e)) /\ Cardinality(StaleAt(a, h, e)) \in Nat
           /\ Cardinality(StaleAt(a, h, e)) <= Cardinality(ArrivedAt(a))
<1>1. StaleAt(a, h, e) \in SUBSET ArrivedAt(a)
  BY DEF ArrivedAt, StaleAt
<1> QED BY <1>1, ArrivedCount, FS_Subset, FS_CardinalityType

\* The maker of the stored limiter is not stale.
LEMMA StaleLess ==
    ASSUME NEW a, NEW h, NEW e \in Task,
           a[e] # "insert", a[e] = "check" => h[e] = e
    PROVE  /\ Cardinality(ArrivedAt(a)) > 0
           /\ Cardinality(StaleAt(a, h, e)) <= Cardinality(ArrivedAt(a)) - 1
<1>1. StaleAt(a, h, e) \in SUBSET (ArrivedAt(a) \ {e}) /\ e \in ArrivedAt(a)
  BY DEF ArrivedAt, StaleAt
<1>2. /\ IsFiniteSet(ArrivedAt(a) \ {e})
      /\ Cardinality(ArrivedAt(a) \ {e}) = Cardinality(ArrivedAt(a)) - 1
  BY <1>1, ArrivedCount, FS_RemoveElement
<1>3. Cardinality(StaleAt(a, h, e)) <= Cardinality(ArrivedAt(a) \ {e})
  BY <1>1, <1>2, FS_Subset
<1> QED BY <1>2, <1>3, ArrivedCount, StaleCount

\* A limiter never has more than a burst.
LEMMA CellsBound ==
    ASSUME LimiterTypeOK, NEW l \in Task
    PROVE  /\ CellsNow(l) \in Nat /\ CellsNow(l) <= Burst /\ Burst \in Nat
           /\ cells[l] \in Nat /\ cells[l] <= Burst
           /\ since[l] \in Nat /\ since[l] <= now /\ now \in Nat /\ from \in Nat
<1>1. cells[l] \in 0..Burst /\ since[l] \in 0..now /\ now \in 0..MaxTime
  BY DEF LimiterTypeOK
<1> QED BY <1>1, LimiterAssumption, ClockAssumption DEF CellsNow, LimiterTypeOK

\* No limiter promises more than its burst and a message for each of the other
\* connections that have arrived.
LEMMA PromisedBound ==
    ASSUME LimiterTypeOK, EntryInv, entry # None
    PROVE  /\ entry \in Task /\ Promised \in Nat /\ Arrived \in Nat /\ Arrived > 0
           /\ Promised <= Burst + Arrived - 1
<1>1. entry \in Task
  BY DEF LimiterTypeOK
<1>2. at[entry] # "insert" /\ (at[entry] = "check" => held[entry] = entry)
  BY <1>1 DEF EntryInv
<1>3. Cardinality(StaleAt(at, held, entry)) <= Arrived - 1 /\ Arrived > 0
  BY <1>1, <1>2, StaleLess DEF Arrived
<1>4. Arrived \in Nat /\ Cardinality(StaleAt(at, held, entry)) \in Nat
  BY ArrivedCount, StaleCount DEF Arrived
<1> QED BY <1>1, <1>3, <1>4, CellsBound DEF Promised

\* Time passes: at most one cell more.
LEMMA PassRace ==
    ASSUME LimiterTypeOK, EntryInv, PassTime, entry # None
    PROVE  /\ entry' = entry /\ Arrived' = Arrived
           /\ Promised' \in Nat /\ Promised' <= Promised + 1
           /\ Promised' <= Burst + Arrived - 1
<1>1. /\ entry' = entry /\ now' = now + 1 /\ cells' = cells /\ since' = since
      /\ at' = at /\ held' = held
  BY DEF PassTime, ClockTick
<1>2. entry \in Task
  BY DEF LimiterTypeOK
<1>3. /\ CellsNow(entry)' \in Nat /\ CellsNow(entry)' <= CellsNow(entry) + 1
      /\ CellsNow(entry)' <= Burst
  BY <1>1, <1>2, CellsBound DEF CellsNow
<1>4. Arrived' = Arrived /\ StaleAt(at, held, entry)' = StaleAt(at, held, entry)
  BY <1>1 DEF Arrived, ArrivedAt, StaleAt
<1>5. at[entry] # "insert" /\ (at[entry] = "check" => held[entry] = entry)
  BY <1>2 DEF EntryInv
<1>6. Cardinality(StaleAt(at, held, entry)) <= Arrived - 1
  BY <1>2, <1>5, StaleLess DEF Arrived
<1>7. Arrived \in Nat /\ Cardinality(StaleAt(at, held, entry)) \in Nat
  BY ArrivedCount, StaleCount DEF Arrived
<1>8. Promised' = CellsNow(entry)' + Cardinality(StaleAt(at, held, entry))
  BY <1>4 DEF Promised
<1>9. CellsNow(entry) \in Nat /\ Burst \in Nat
  BY <1>2, CellsBound
<1> QED BY <1>1, <1>3, <1>4, <1>6, <1>7, <1>8, <1>9 DEF Promised

\* A connection looks the stored limiter up.
LEMMA FindRace ==
    ASSUME LimiterTypeOK, NEW t \in Task, NEW ts \in Timestamp, FindLimiter(t, ts),
           entry # None
    PROVE  Arrived' = Arrived /\ Promised' = Promised
<1>1. /\ at[t] = "idle" /\ at' = [at EXCEPT ![t] = "check"]
      /\ held' = [held EXCEPT ![t] = entry]
      /\ UNCHANGED <<cells, since, entry, now>>
  BY DEF FindLimiter, Stored
<1>2. at \in [Task -> {"idle", "insert", "check"}] /\ held \in [Task -> Task \cup {None}]
  BY DEF LimiterTypeOK
<1>3. ArrivedAt(at)' = ArrivedAt(at)
  BY <1>1, <1>2 DEF ArrivedAt
<1>4. StaleAt(at, held, entry)' = StaleAt(at, held, entry)
  BY <1>1, <1>2 DEF StaleAt
<1>5. CellsNow(entry)' = CellsNow(entry)
  BY <1>1 DEF CellsNow
<1> QED BY <1>3, <1>4, <1>5 DEF Arrived, Promised

\* A connection stores its limiter.  Those that have arrived may be stale now.
LEMMA StoreRace ==
    ASSUME LimiterTypeOK, EntryInv, NEW t \in Task, StoreLimiter(t)
    PROVE  /\ entry' # None /\ Arrived \in Nat /\ Arrived' = Arrived + 1
           /\ Promised' \in Nat /\ Promised' <= Burst + Arrived
           /\ entry = None => Promised' <= Burst
<1>1. /\ at[t] = "insert" /\ held[t] = t /\ at' = [at EXCEPT ![t] = "check"]
      /\ entry' = t /\ UNCHANGED <<cells, since, held, now>>
  BY DEF StoreLimiter, EntryInv
<1>2. at \in [Task -> {"idle", "insert", "check"}] /\ t # None
  BY ClockAssumption DEF LimiterTypeOK
<1>3. ArrivedAt(at)' = ArrivedAt(at) \cup {t} /\ t \notin ArrivedAt(at)
  BY <1>1, <1>2 DEF ArrivedAt
<1>4. Arrived \in Nat /\ Arrived' = Arrived + 1
  <2>1. IsFiniteSet(ArrivedAt(at)) /\ Cardinality(ArrivedAt(at)) \in Nat
    BY ArrivedCount
  <2>2. Cardinality(ArrivedAt(at) \cup {t}) = Cardinality(ArrivedAt(at)) + 1
    BY <1>3, <2>1, FS_AddElement
  <2> QED BY <1>3, <2>1, <2>2 DEF Arrived
<1>5. StaleAt(at, held, entry)' \in SUBSET ArrivedAt(at)
  BY <1>1, <1>2 DEF StaleAt, ArrivedAt
<1>6. /\ Cardinality(StaleAt(at, held, entry)') \in Nat
      /\ Cardinality(StaleAt(at, held, entry)') <= Arrived
  BY <1>5, ArrivedCount, FS_Subset, FS_CardinalityType DEF Arrived
<1>7. CellsNow(entry)' = CellsNow(t)
  BY <1>1 DEF CellsNow
<1>8. entry = None => Cardinality(StaleAt(at, held, entry)') = 0
  <2>1. entry = None => StaleAt(at, held, entry)' = {}
    BY <1>1, <1>2 DEF EntryInv, StaleAt
  <2> QED BY <2>1, FS_EmptySet
<1> HIDE DEF Arrived
<1>9. Promised' = CellsNow(t) + Cardinality(StaleAt(at, held, entry)')
  BY <1>7 DEF Promised
<1> QED BY SMTT(30), <1>1, <1>2, <1>4, <1>6, <1>8, <1>9, CellsBound

\* A connection takes a cell, of the stored limiter or of another one.
LEMMA CheckRace ==
    ASSUME LimiterTypeOK, EntryInv, NEW t \in Task, CheckLimiter(t)
    PROVE  /\ entry # None /\ entry' = entry /\ now' = now /\ from' = from
           /\ Arrived' = Arrived
           /\ \E pass \in {0, 1} :
                /\ allowed' = allowed + Counted(pass)
                /\ resent' = IF again[t] THEN resent + pass ELSE resent
                /\ Promised' \in Nat /\ Promised' + pass <= Promised
<1> DEFINE l == held[t]
           pass == IF CellsNow(l) > 0 THEN 1 ELSE 0
<1>1. /\ at[t] = "check" /\ at' = [at EXCEPT ![t] = "idle"]
      /\ held' = [held EXCEPT ![t] = None]
      /\ cells' = [cells EXCEPT ![l] = CellsNow(l) - pass]
      /\ since' = [since EXCEPT ![l] = now]
      /\ UNCHANGED <<entry, now, from>>
      /\ allowed' = allowed + Counted(pass)
      /\ resent' = IF again[t] THEN resent + pass ELSE resent
  BY DEF CheckLimiter
<1>2. /\ at \in [Task -> {"idle", "insert", "check"}] /\ held \in [Task -> Task \cup {None}]
      /\ cells \in [Task -> 0..Burst] /\ since \in [Task -> 0..now] /\ l \in Task
  BY <1>1 DEF LimiterTypeOK
<1>3. entry # None /\ entry \in Task
  BY <1>1 DEF EntryInv, LimiterTypeOK
<1>4. Arrived' = Arrived
  BY ZenonT(30), <1>1, <1>2 DEF Arrived, ArrivedAt
<1>5. /\ IsFiniteSet(StaleAt(at, held, entry))
      /\ Cardinality(StaleAt(at, held, entry)) \in Nat
  BY StaleCount
<1>6. /\ CellsNow(l) \in Nat /\ CellsNow(l) <= Burst /\ Burst \in Nat
      /\ CellsNow(entry) \in Nat /\ now \in Nat
  BY <1>2, <1>3, CellsBound
<1>7. pass \in {0, 1} /\ pass <= CellsNow(l)
  BY <1>6
<1> HIDE DEF pass
<1>8. CASE l = entry
  <2>1. StaleAt(at, held, entry)' = StaleAt(at, held, entry)
    BY <1>1, <1>2, <1>8 DEF StaleAt
  <2>2. CellsNow(entry)' = CellsNow(entry) - pass
    <3>1. cells'[entry] = CellsNow(entry) - pass /\ since'[entry] = now /\ now' = now
      BY <1>1, <1>2, <1>8
    <3>2. PICK left \in Nat : left = CellsNow(entry) - pass /\ left <= Burst
      BY SMTT(30), <1>6, <1>7, <1>8
    <3>3. CellsNow(entry)' = left
      BY SMTT(30), <1>1, <1>6, <3>1, <3>2 DEF CellsNow
    <3> QED BY <3>2, <3>3
  <2>3. Promised' = CellsNow(entry) - pass + Cardinality(StaleAt(at, held, entry))
    BY <2>1, <2>2 DEF Promised
  <2>4. Promised' \in Nat /\ Promised' + pass <= Promised
    BY SMTT(30), <1>5, <1>6, <1>7, <1>8, <2>3 DEF Promised
  <2> QED BY <1>1, <1>3, <1>4, <1>7, <2>4
<1>9. CASE l # entry
  <2>1. /\ StaleAt(at, held, entry)' = StaleAt(at, held, entry) \ {t}
        /\ t \in StaleAt(at, held, entry)
    BY <1>1, <1>2, <1>9 DEF StaleAt
  <2>2. CellsNow(entry)' = CellsNow(entry)
    BY <1>1, <1>2, <1>3, <1>9 DEF CellsNow
  <2>3. /\ Cardinality(StaleAt(at, held, entry) \ {t})
             = Cardinality(StaleAt(at, held, entry)) - 1
        /\ Cardinality(StaleAt(at, held, entry) \ {t}) \in Nat
    BY <1>5, <2>1, FS_RemoveElement, FS_CardinalityType
  <2>4. Promised' = CellsNow(entry) + (Cardinality(StaleAt(at, held, entry)) - 1)
    BY <2>1, <2>2, <2>3 DEF Promised
  <2>5. Promised' \in Nat /\ Promised' + pass <= Promised
    BY <1>5, <1>6, <1>7, <2>3, <2>4 DEF Promised
  <2> QED BY <1>1, <1>3, <1>4, <1>7, <2>5
<1> QED BY <1>8, <1>9

\* Every step keeps the entry's shape.
LEMMA StepEntry == LimiterTypeOK /\ EntryInv /\ [LimiterNext]_limiterVars => EntryInv'
<1> SUFFICES ASSUME LimiterTypeOK, EntryInv, [LimiterNext]_limiterVars
             PROVE  EntryInv'
  OBVIOUS
<1>1. at \in [Task -> {"idle", "insert", "check"}] /\ held \in [Task -> Task \cup {None}]
        /\ entry \in Task \cup {None}
  BY DEF LimiterTypeOK
<1>2. CASE UNCHANGED limiterVars \/ PassTime
  BY <1>2 DEF EntryInv, limiterVars, PassTime
<1>3. ASSUME NEW t \in Task, NEW ts \in Timestamp, FindLimiter(t, ts) PROVE EntryInv'
  <2>1. CASE Stored
    BY <1>1, <1>3, <2>1 DEF EntryInv, FindLimiter, Stored
  <2>2. CASE ~Stored
    BY <1>1, <1>3, <2>2 DEF EntryInv, FindLimiter, Stored
  <2> QED BY <2>1, <2>2
<1>4. ASSUME NEW t \in Task, StoreLimiter(t) PROVE EntryInv'
  BY <1>1, <1>4, ClockAssumption DEF EntryInv, StoreLimiter
<1>5. ASSUME NEW t \in Task, CheckLimiter(t) PROVE EntryInv'
  <2>1. at' = [at EXCEPT ![t] = "idle"] /\ held' = [held EXCEPT ![t] = None]
          /\ entry' = entry
    BY <1>5 DEF CheckLimiter
  <2> QED BY <1>1, <2>1 DEF EntryInv
<1> QED BY <1>2, <1>3, <1>4, <1>5 DEF LimiterNext

\* Every step keeps the bound.
LEMMA StepRace ==
    LimiterTypeOK /\ EntryInv /\ RaceInv /\ [LimiterNext]_limiterVars => RaceInv'
<1> SUFFICES ASSUME LimiterTypeOK, EntryInv, RaceInv, [LimiterNext]_limiterVars
             PROVE  RaceInv'
  OBVIOUS
<1>1. /\ now \in Int /\ from \in Int /\ allowed \in Nat /\ Burst \in Nat
      /\ Arrived \in Nat /\ Races(Arrived) \in Int
  BY ArrivedCount, RacesNext, LimiterAssumption DEF LimiterTypeOK, Arrived
<1>2. entry # None => Promised \in Nat
  BY PromisedBound
<1>3. CASE UNCHANGED limiterVars
  <2>1. Promised' = Promised /\ Arrived' = Arrived
    BY <1>3 DEF limiterVars, Promised, Arrived, ArrivedAt, StaleAt, CellsNow
  <2> QED BY <1>3, <2>1 DEF RaceInv, limiterVars, Races
<1>4. CASE PassTime
  <2>1. now' = now + 1 /\ UNCHANGED <<from, entry, allowed>>
    BY <1>4 DEF PassTime, ClockTick
  <2>2. CASE entry = None
    BY <2>1, <2>2 DEF RaceInv
  <2>3. CASE entry # None
    <3>1. /\ Arrived' = Arrived /\ Promised' \in Nat /\ Promised' <= Promised + 1
          /\ Promised' <= Burst + Arrived - 1 /\ Arrived > 0
      BY <1>4, <2>3, PassRace, PromisedBound
    <3>2. Races(Arrived)' = Races(Arrived)
      BY <3>1 DEF Races
    <3>3. 2 * (Burst + Arrived - 1) <= Races(Arrived)
      BY <1>1, <3>1, RacesLeast
    <3>4. CASE now >= from
      <4>1. 2 * (allowed + Promised) <= Races(Arrived) + 2 * (now - from)
        BY <2>3, <3>4 DEF RaceInv
      <4>2. 2 * (allowed + Promised') <= Races(Arrived) + 2 * (now + 1 - from)
        BY <1>1, <1>2, <2>3, <3>1, <4>1
      <4> QED BY <1>1, <2>1, <2>3, <3>2, <3>4, <4>2 DEF RaceInv
    <3>5. CASE now < from
      <4>1. allowed = 0
        BY <3>5 DEF RaceInv
      <4>2. now + 1 >= from => 2 * Promised' <= Races(Arrived) + 2 * (now + 1 - from)
        BY <1>1, <3>1, <3>3, <3>5
      <4> QED BY <1>1, <2>1, <2>3, <3>1, <3>2, <4>1, <4>2 DEF RaceInv
    <3> QED BY <1>1, <3>4, <3>5
  <2> QED BY <2>2, <2>3
<1>5. ASSUME NEW t \in Task, NEW ts \in Timestamp, FindLimiter(t, ts) PROVE RaceInv'
  <2>1. UNCHANGED <<now, from, entry, allowed>>
    BY <1>5 DEF FindLimiter
  <2>2. entry # None => Arrived' = Arrived /\ Promised' = Promised
    BY <1>5, FindRace
  <2> QED BY <2>1, <2>2 DEF RaceInv, Races
<1>6. ASSUME NEW t \in Task, StoreLimiter(t) PROVE RaceInv'
  <2>1. UNCHANGED <<now, from, allowed>>
    BY <1>6 DEF StoreLimiter
  <2>2. /\ entry' # None /\ Arrived' = Arrived + 1 /\ Promised' \in Nat
        /\ Promised' <= Burst + Arrived /\ (entry = None => Promised' <= Burst)
    BY <1>6, StoreRace
  <2>3. Races(Arrived)' = Races(Arrived) + 2 * (Burst + Arrived)
    <3>1. Races(Arrived)' = Races(Arrived + 1)
      BY <2>2 DEF Races
    <3> QED BY <1>1, <3>1, RacesNext
  <2>4. CASE now < from
    BY <1>1, <2>1, <2>2, <2>4 DEF RaceInv
  <2>5. CASE now >= from /\ entry = None
    <3>1. allowed = 0
      BY <2>5 DEF RaceInv
    <3>2. 2 * (Burst + Arrived + 1 - 1) <= Races(Arrived + 1)
      BY <1>1, RacesLeast
    <3>3. Races(Arrived + 1) = Races(Arrived) + 2 * (Burst + Arrived)
      BY <1>1, RacesNext
    <3>4. 2 * (allowed + Promised') <= Races(Arrived)' + 2 * (now - from)
      BY <1>1, <2>2, <2>3, <2>5, <3>1, <3>2, <3>3
    <3> QED BY <1>1, <2>1, <2>2, <2>5, <3>4 DEF RaceInv
  <2>6. CASE now >= from /\ entry # None
    <3>1. 2 * (allowed + Promised) <= Races(Arrived) + 2 * (now - from)
      BY <2>6 DEF RaceInv
    <3>2. 2 * (allowed + Promised') <= Races(Arrived)' + 2 * (now - from)
      BY <1>1, <1>2, <2>2, <2>3, <2>6, <3>1
    <3> QED BY <1>1, <2>1, <2>2, <2>6, <3>2 DEF RaceInv
  <2> QED BY <1>1, <2>4, <2>5, <2>6
<1>7. ASSUME NEW t \in Task, CheckLimiter(t) PROVE RaceInv'
  <2>1. entry # None /\ entry' = entry /\ now' = now /\ from' = from /\ Arrived' = Arrived
    BY <1>7, CheckRace
  <2>2. PICK pass \in {0, 1} : /\ allowed' = allowed + Counted(pass)
                               /\ Promised' \in Nat /\ Promised' + pass <= Promised
    BY <1>7, CheckRace
  <2>3. Races(Arrived)' = Races(Arrived)
    BY <2>1 DEF Races
  <2>4. CASE now < from
    BY <1>1, <2>1, <2>2, <2>4 DEF RaceInv, Counted
  <2>5. CASE now >= from
    <3>1. 2 * (allowed + Promised) <= Races(Arrived) + 2 * (now - from)
      BY <2>1, <2>5 DEF RaceInv
    <3>2. allowed' = allowed + pass
      BY <2>2, <2>5 DEF Counted
    <3>3. 2 * (allowed' + Promised') <= Races(Arrived) + 2 * (now - from)
      BY <1>1, <1>2, <2>1, <2>2, <3>1, <3>2
    <3> QED BY <1>1, <2>1, <2>3, <2>5, <3>3 DEF RaceInv
  <2> QED BY <1>1, <2>4, <2>5
<1> QED BY <1>3, <1>4, <1>5, <1>6, <1>7 DEF LimiterNext

\* Every limiter is fresh and nobody has asked for one.
LEMMA InitRace == LimiterInit => EntryInv /\ RaceInv
  BY DEF LimiterInit, EntryInv, RaceInv

\* The shape of the entry is invariant.
LEMMA EntryInvariant == LimiterSpec => []EntryInv
  BY LimiterTypeCorrect, InitRace, StepEntry, PTL DEF LimiterSpec

(***************************************************************************)
(* However the connections of a key race in limiter_for, the limiter lets  *)
(* no more signals through than Races says and one per tick.               *)
(***************************************************************************)
THEOREM LimiterRaced == LimiterSpec => []RacedRate
<1>1. LimiterTypeOK /\ EntryInv /\ RaceInv => RacedRate
  <2> SUFFICES ASSUME LimiterTypeOK, EntryInv, RaceInv, now >= from
               PROVE  2 * allowed <= Races(Cardinality(Task)) + 2 * (now - from)
    BY DEF RacedRate
  <2>1. /\ now \in Int /\ from \in Int /\ allowed \in Nat /\ Burst \in Nat
    BY LimiterAssumption DEF LimiterTypeOK
  <2>2. /\ Arrived \in Nat /\ Arrived <= Cardinality(Task) /\ Cardinality(Task) \in Nat
    BY ArrivedCount DEF Arrived
  <2>3. /\ Races(Arrived) <= Races(Cardinality(Task)) /\ Races(0) <= Races(Cardinality(Task))
        /\ Races(Arrived) \in Int /\ Races(Cardinality(Task)) \in Int
    BY <2>2, RacesMonotone, RacesNext
  <2>4. Races(0) = 0
    BY <2>1 DEF Races
  <2>5. CASE entry = None
    BY <2>1, <2>3, <2>4, <2>5 DEF RaceInv
  <2>6. CASE entry # None
    <3>1. Promised \in Nat
      BY <2>6, PromisedBound
    <3>2. 2 * (allowed + Promised) <= Races(Arrived) + 2 * (now - from)
      BY <2>6 DEF RaceInv
    <3> QED BY <2>1, <2>3, <3>1, <3>2
  <2> QED BY <2>5, <2>6
<1> QED BY <1>1, LimiterTypeCorrect, EntryInvariant, InitRace, StepRace, PTL
        DEF LimiterSpec

(***************************************************************************)
(* One signal sent again and again: the first and the last tick at which   *)
(* check_timestamp accepts it, and the connections that have a copy.       *)
(***************************************************************************)
WindowFirst == (stamp - MaxDrift) * Second

WindowLast == WindowFirst + (2 * MaxDrift + 1) * Second - 1

CopiesAt(g) == {t \in Task : g[t]}

Copies == Cardinality(CopiesAt(again))

(***************************************************************************)
(* Within the window the limiter counts the copies as it counts all        *)
(* signals; afterwards there are only the copies already on their way.     *)
(***************************************************************************)
ResendInv ==
    /\ \A t \in Task : again[t] => at[t] # "idle" /\ now >= WindowFirst
    /\ entry = None \/ now < WindowFirst => resent = 0
    /\ entry # None /\ WindowFirst <= now /\ now <= WindowLast =>
           2 * (resent + Promised) <= Races(Arrived) + 2 * (now - WindowFirst)
    /\ now > WindowLast =>
           2 * (resent + Copies) <= Races(Cardinality(Task))
                                      + 2 * (WindowLast - WindowFirst)
                                      + 2 * Cardinality(Task)

\* The window has a first and a last tick.
LEMMA WindowEnds ==
    ASSUME LimiterTypeOK
    PROVE  /\ WindowFirst \in Int /\ WindowLast \in Int
           /\ WindowFirst <= WindowLast
           /\ WindowLast - WindowFirst = (2 * MaxDrift + 1) * Second - 1
<1>1. /\ stamp \in Int /\ MaxDrift \in Nat /\ Second \in Nat /\ Second >= 1
  BY LimiterAssumption, WindowAssumption DEF LimiterTypeOK
<1>2. WindowFirst \in Int
  BY <1>1 DEF WindowFirst
<1>3. (2 * MaxDrift + 1) * Second = (2 * MaxDrift) * Second + Second
  BY <1>1
<1>4. (2 * MaxDrift) * Second \in Nat
  BY <1>1
<1> QED BY <1>1, <1>2, <1>3, <1>4 DEF WindowLast

\* A signal that verifies does so within its window.
LEMMA InWindow ==
    ASSUME LimiterTypeOK, stamp \in Timestamp, Verified(stamp)
    PROVE  WindowFirst <= now /\ now <= WindowLast
<1>1. /\ stamp \in Int /\ MaxDrift \in Nat /\ Second \in Nat /\ Second >= 1
      /\ now \in Nat /\ now <= MaxTime
  BY LimiterAssumption, WindowAssumption, ClockAssumption DEF LimiterTypeOK
<1>2. Clock \in Nat /\ Clock <= now
  BY <1>1, LimiterAssumption DEF Clock
<1>3. Clock * Second <= now /\ now < (Clock + 1) * Second
  BY <1>1 DEF Clock
<1>4. stamp - MaxDrift <= Clock /\ Clock + 1 <= stamp + MaxDrift + 1
  <2>1. ExactAt(Clock)
    BY <1>1, <1>2, ExactWindow, ClockAssumption, WindowAssumption, LimiterAssumption
  <2>2. Within(Clock, stamp)
    BY <2>1 DEF Verified, ExactAt
  <2> QED BY <1>1, <1>2, <2>2 DEF Within
<1>5. \A x, y \in Int : x <= y => x * Second <= y * Second
  BY <1>1
<1>6. (stamp - MaxDrift) * Second <= Clock * Second
  BY <1>1, <1>2, <1>4, <1>5
<1>7. (Clock + 1) * Second <= (stamp + MaxDrift + 1) * Second
  BY <1>1, <1>2, <1>4, <1>5
<1>8. (stamp + MaxDrift + 1) * Second
        = (stamp - MaxDrift) * Second + (2 * MaxDrift + 1) * Second
  BY <1>1
<1>9. /\ Clock * Second \in Int /\ (Clock + 1) * Second \in Int
      /\ (stamp - MaxDrift) * Second \in Int /\ (2 * MaxDrift + 1) * Second \in Int
  BY <1>1, <1>2
<1>10. WindowFirst <= now
  BY SMTT(30), <1>1, <1>3, <1>6, <1>9 DEF WindowFirst
<1>11. now <= WindowLast
  BY SMTT(30), <1>1, <1>3, <1>7, <1>8, <1>9 DEF WindowLast, WindowFirst
<1> QED BY <1>10, <1>11

\* Copies can be counted: at most one per connection.
LEMMA CopiesCount ==
    ASSUME NEW g
    PROVE  /\ IsFiniteSet(CopiesAt(g)) /\ Cardinality(CopiesAt(g)) \in Nat
           /\ Cardinality(CopiesAt(g)) <= Cardinality(Task)
<1>1. CopiesAt(g) \in SUBSET Task
  BY SMTT(30) DEF CopiesAt
<1>2. IsFiniteSet(Task)
  BY ClockAssumption
<1> QED BY <1>1, <1>2, FS_Subset, FS_CardinalityType

\* What the steps below calculate with.
LEMMA ResendTypes ==
    ASSUME LimiterTypeOK
    PROVE  /\ now \in Int /\ resent \in Nat /\ Burst \in Nat
           /\ WindowFirst \in Int /\ WindowLast \in Int /\ WindowFirst <= WindowLast
           /\ Arrived \in Nat /\ Races(Arrived) \in Int
           /\ Cardinality(Task) \in Nat /\ Races(Cardinality(Task)) \in Int
           /\ Races(Arrived) <= Races(Cardinality(Task))
           /\ 0 <= Races(Cardinality(Task))
           /\ Copies \in Nat /\ Copies <= Cardinality(Task)
<1>1. /\ Arrived \in Nat /\ Arrived <= Cardinality(Task) /\ Cardinality(Task) \in Nat
  BY ArrivedCount DEF Arrived
<1>2. /\ Races(Arrived) <= Races(Cardinality(Task))
      /\ Races(0) <= Races(Cardinality(Task))
      /\ Races(Arrived) \in Int /\ Races(Cardinality(Task)) \in Int
  BY <1>1, RacesMonotone, RacesNext
<1>3. Burst \in Nat /\ Races(0) = 0
  BY LimiterAssumption DEF Races
<1>4. now \in Int /\ resent \in Nat
  BY SMTT(30) DEF LimiterTypeOK
<1> QED BY <1>1, <1>2, <1>3, <1>4, WindowEnds, CopiesCount DEF Copies

\* Time passes: the window may open or close.
LEMMA PassResend ==
    ASSUME LimiterTypeOK, EntryInv, ResendInv, PassTime
    PROVE  ResendInv'
<1>1. now' = now + 1 /\ UNCHANGED <<entry, at, again, stamp, resent>>
  BY DEF PassTime, ClockTick
<1>2. /\ WindowFirst' = WindowFirst /\ WindowLast' = WindowLast
      /\ Copies' = Copies
  BY <1>1 DEF WindowFirst, WindowLast, Copies, CopiesAt
<1>3. Races(Cardinality(Task))' = Races(Cardinality(Task))
  BY DEF Races
<1>4. \A t \in Task : again'[t] => at'[t] # "idle" /\ now' >= WindowFirst'
  <2>1. \A t \in Task : again[t] => at[t] # "idle" /\ now >= WindowFirst
    BY ZenonT(30) DEF ResendInv
  <2>2. now >= WindowFirst => now + 1 >= WindowFirst
    BY SMTT(30), ResendTypes
  <2> QED BY ZenonT(30), <1>1, <1>2, <2>1, <2>2
<1>5. entry = None \/ now + 1 < WindowFirst => resent = 0
  BY ResendTypes DEF ResendInv
<1>6. ASSUME entry # None, WindowFirst <= now + 1, now + 1 <= WindowLast
      PROVE  2 * (resent + Promised') <= Races(Arrived)' + 2 * (now + 1 - WindowFirst)
  <2>1. /\ Arrived' = Arrived /\ Promised' \in Nat /\ Promised' <= Promised + 1
        /\ Promised' <= Burst + Arrived - 1 /\ Arrived > 0 /\ Promised \in Nat
    BY <1>6, PassRace, PromisedBound
  <2>2. Races(Arrived)' = Races(Arrived)
    BY <2>1 DEF Races
  <2>3. CASE now >= WindowFirst
    <3>1. 2 * (resent + Promised) <= Races(Arrived) + 2 * (now - WindowFirst)
      BY <1>6, <2>3, ResendTypes DEF ResendInv
    <3> QED BY SMTT(30), <2>1, <2>2, <3>1, ResendTypes
  <2>4. CASE now < WindowFirst
    <3>1. resent = 0
      BY <2>4 DEF ResendInv
    <3>2. 2 * (Burst + Arrived - 1) <= Races(Arrived)
      BY <2>1, RacesLeast, ResendTypes
    <3> QED BY SMTT(30), <1>6, <2>1, <2>2, <2>4, <3>1, <3>2, ResendTypes
  <2> QED BY <2>3, <2>4, ResendTypes
<1>7. ASSUME now + 1 > WindowLast
      PROVE  2 * (resent + Copies) <= Races(Cardinality(Task))
                                        + 2 * (WindowLast - WindowFirst)
                                        + 2 * Cardinality(Task)
  <2>1. CASE now > WindowLast
    BY <2>1 DEF ResendInv
  <2>2. CASE now <= WindowLast /\ entry = None
    <3>1. resent = 0
      BY <2>2 DEF ResendInv
    <3> QED BY <3>1, ResendTypes
  <2>3. CASE now <= WindowLast /\ entry # None
    <3>1. now = WindowLast
      BY SMTT(30), <1>7, <2>3, ResendTypes
    <3>2. 2 * (resent + Promised) <= Races(Arrived) + 2 * (now - WindowFirst)
      BY <2>3, <3>1, ResendTypes DEF ResendInv
    <3>3. Promised \in Nat
      BY <2>3, PromisedBound
    <3> QED BY <3>1, <3>2, <3>3, ResendTypes
  <2> QED BY SMTT(30), <2>1, <2>2, <2>3, ResendTypes
<1>8. entry' = None \/ now' < WindowFirst' => resent' = 0
  BY <1>1, <1>2, <1>5
<1>9. entry' # None /\ WindowFirst' <= now' /\ now' <= WindowLast' =>
          2 * (resent' + Promised') <= Races(Arrived)' + 2 * (now' - WindowFirst')
  BY SMTT(30), <1>1, <1>2, <1>6, ResendTypes
<1>10. now' > WindowLast' =>
           2 * (resent' + Copies') <= Races(Cardinality(Task))
                                        + 2 * (WindowLast' - WindowFirst')
                                        + 2 * Cardinality(Task)
  BY SMTT(30), <1>1, <1>2, <1>7, ResendTypes
<1> QED BY <1>3, <1>4, <1>8, <1>9, <1>10 DEF ResendInv

\* A connection looks the limiter up, with a copy only within the window.
LEMMA FindResend ==
    ASSUME LimiterTypeOK, EntryInv, ResendInv, NEW t \in Task, NEW ts \in Timestamp,
           FindLimiter(t, ts)
    PROVE  ResendInv'
<1>1. /\ UNCHANGED <<now, entry, stamp, resent>> /\ Verified(ts)
      /\ again' = [again EXCEPT ![t] = (ts = stamp)] /\ at[t] = "idle"
  BY DEF FindLimiter
<1>2. at'[t] # "idle" /\ \A u \in Task : u # t => at'[u] = at[u]
  BY DEF FindLimiter, LimiterTypeOK
<1>3. WindowFirst' = WindowFirst /\ WindowLast' = WindowLast
  BY <1>1 DEF WindowFirst, WindowLast
<1>4. again \in [Task -> BOOLEAN]
  BY DEF LimiterTypeOK
<1>5. ts = stamp => WindowFirst <= now /\ now <= WindowLast
  BY <1>1, InWindow
<1>6. \A u \in Task : again'[u] => at'[u] # "idle" /\ now' >= WindowFirst'
  <2> SUFFICES ASSUME NEW u \in Task, again'[u]
               PROVE  at'[u] # "idle" /\ now >= WindowFirst
    BY SMTT(30), <1>1, <1>3
  <2>1. CASE u = t
    <3>1. ts = stamp
      BY ZenonT(30), <1>1, <1>4, <2>1
    <3> QED BY <1>2, <1>5, <2>1, <3>1, ResendTypes
  <2>2. CASE u # t
    <3>1. again[u]
      BY <1>1, <1>4, <2>2
    <3> QED BY <1>2, <2>2, <3>1 DEF ResendInv
  <2> QED BY SMTT(30), <2>1, <2>2
<1>7. entry # None => Promised' = Promised /\ Races(Arrived)' = Races(Arrived)
  BY FindRace DEF Races
<1>8. now > WindowLast => Copies' = Copies
  <2> SUFFICES ASSUME now > WindowLast PROVE Copies' = Copies
    OBVIOUS
  <2>1. ts # stamp
    BY SMTT(30), <1>5, ResendTypes
  <2>2. ~again[t]
    BY <1>1 DEF ResendInv
  <2>3. CopiesAt(again)' = CopiesAt(again)
    BY <1>1, <1>4, <2>1, <2>2 DEF CopiesAt
  <2> QED BY <2>3 DEF Copies
<1>9. Races(Cardinality(Task))' = Races(Cardinality(Task))
  BY SMTT(30) DEF Races
<1> QED BY <1>1, <1>3, <1>6, <1>7, <1>8, <1>9 DEF ResendInv

\* A connection stores its limiter.
LEMMA StoreResend ==
    ASSUME LimiterTypeOK, EntryInv, ResendInv, NEW t \in Task, StoreLimiter(t)
    PROVE  ResendInv'
<1>1. /\ UNCHANGED <<now, again, stamp, resent>>
      /\ at' = [at EXCEPT ![t] = "check"] /\ at \in [Task -> {"idle", "insert", "check"}]
  BY DEF StoreLimiter, LimiterTypeOK
<1>2. /\ WindowFirst' = WindowFirst /\ WindowLast' = WindowLast
      /\ Copies' = Copies /\ Races(Cardinality(Task))' = Races(Cardinality(Task))
  BY <1>1 DEF WindowFirst, WindowLast, Copies, CopiesAt, Races
<1>3. \A u \in Task : again'[u] => at'[u] # "idle" /\ now' >= WindowFirst'
  BY <1>1, <1>2 DEF ResendInv
<1>4. /\ entry' # None /\ Arrived' = Arrived + 1 /\ Promised' \in Nat
      /\ Promised' <= Burst + Arrived
  BY StoreRace
<1>5. Races(Arrived)' = Races(Arrived) + 2 * (Burst + Arrived)
  <2>1. Races(Arrived)' = Races(Arrived + 1)
    BY <1>4 DEF Races
  <2> QED BY <2>1, RacesNext, ResendTypes
<1>6. ASSUME WindowFirst <= now, now <= WindowLast
      PROVE  2 * (resent + Promised') <= Races(Arrived)' + 2 * (now - WindowFirst)
  <2>1. CASE entry = None
    <3>1. resent = 0
      BY <2>1 DEF ResendInv
    <3>2. 0 <= Races(Arrived)
      <4>1. Races(0) <= Races(Arrived) /\ Races(0) = 0
        BY RacesMonotone, ResendTypes DEF Races
      <4> QED BY <4>1
    <3> QED BY SMTT(30), <1>4, <1>5, <1>6, <3>1, <3>2, ResendTypes
  <2>2. CASE entry # None
    <3>1. 2 * (resent + Promised) <= Races(Arrived) + 2 * (now - WindowFirst)
      BY <1>6, <2>2 DEF ResendInv
    <3>2. Promised \in Nat
      BY SMTT(30), <2>2, PromisedBound
    <3> QED BY SMTT(30), <1>4, <1>5, <3>1, <3>2, ResendTypes
  <2> QED BY <2>1, <2>2
<1> QED BY <1>1, <1>2, <1>3, <1>4, <1>6 DEF ResendInv

\* A connection takes a cell, for a copy or for another signal.
LEMMA CheckResend ==
    ASSUME LimiterTypeOK, EntryInv, ResendInv, NEW t \in Task, CheckLimiter(t)
    PROVE  ResendInv'
<1>1. /\ UNCHANGED <<now, stamp>> /\ again' = [again EXCEPT ![t] = FALSE]
      /\ at' = [at EXCEPT ![t] = "idle"]
  BY DEF CheckLimiter
<1>2. at \in [Task -> {"idle", "insert", "check"}] /\ again \in [Task -> BOOLEAN]
  BY DEF LimiterTypeOK
<1>3. /\ WindowFirst' = WindowFirst /\ WindowLast' = WindowLast
      /\ Races(Cardinality(Task))' = Races(Cardinality(Task))
  BY <1>1 DEF WindowFirst, WindowLast, Races
<1>4. \A u \in Task : again'[u] => at'[u] # "idle" /\ now' >= WindowFirst'
  BY <1>1, <1>2, <1>3 DEF ResendInv
<1>5. entry # None /\ entry' = entry /\ Races(Arrived)' = Races(Arrived)
  BY CheckRace DEF Races
<1>6. PICK pass \in {0, 1} : /\ resent' = IF again[t] THEN resent + pass ELSE resent
                             /\ Promised' \in Nat /\ Promised' + pass <= Promised
  BY SMTT(30), CheckRace
<1>7. now < WindowFirst => resent' = 0
  BY <1>6, ResendTypes DEF ResendInv
<1>8. ASSUME WindowFirst <= now, now <= WindowLast
      PROVE  2 * (resent' + Promised') <= Races(Arrived) + 2 * (now - WindowFirst)
  <2>1. 2 * (resent + Promised) <= Races(Arrived) + 2 * (now - WindowFirst)
    BY <1>5, <1>8 DEF ResendInv
  <2>2. Promised \in Nat
    BY <1>5, PromisedBound
  <2>3. resent' \in Nat /\ resent' <= resent + pass
    BY <1>6, ResendTypes
  <2>4. Promised' \in Nat /\ Promised' + pass <= Promised
    BY <1>6
  <2>5. PICK r \in Nat, p \in Nat : r = resent' /\ p = Promised'
    BY <2>3, <2>4
  <2>6. r <= resent + pass /\ p + pass <= Promised
    BY <2>3, <2>4, <2>5
  <2>7. 2 * (r + p) <= Races(Arrived) + 2 * (now - WindowFirst)
    BY <2>1, <2>2, <2>6, ResendTypes
  <2> QED BY SMTT(30), <2>5, <2>7
<1>9. ASSUME now > WindowLast
      PROVE  2 * (resent' + Copies') <= Races(Cardinality(Task))
                                          + 2 * (WindowLast - WindowFirst)
                                          + 2 * Cardinality(Task)
  <2>1. 2 * (resent + Copies) <= Races(Cardinality(Task))
                                   + 2 * (WindowLast - WindowFirst)
                                   + 2 * Cardinality(Task)
    BY <1>9 DEF ResendInv
  <2>2. CASE again[t]
    <3>1. CopiesAt(again)' = CopiesAt(again) \ {t} /\ t \in CopiesAt(again)
      BY <1>1, <1>2, <2>2 DEF CopiesAt
    <3>2. Cardinality(CopiesAt(again) \ {t}) = Cardinality(CopiesAt(again)) - 1
      BY ZenonT(30), <3>1, CopiesCount, FS_RemoveElement
    <3>3. Copies' = Copies - 1
      BY <3>1, <3>2 DEF Copies
    <3>4. resent' \in Nat /\ resent' <= resent + 1
      BY <1>6, ResendTypes
    <3> QED BY <2>1, <3>3, <3>4, ResendTypes
  <2>3. CASE ~again[t]
    <3>1. CopiesAt(again)' = CopiesAt(again)
      BY <1>1, <1>2, <2>3 DEF CopiesAt
    <3> QED BY <1>6, <2>1, <2>3, <3>1 DEF Copies
  <2> QED BY <2>2, <2>3
<1> QED BY SMTT(30), <1>1, <1>3, <1>4, <1>5, <1>7, <1>8, <1>9 DEF ResendInv

\* Any step.
LEMMA StepResend ==
    LimiterTypeOK /\ EntryInv /\ ResendInv /\ [LimiterNext]_limiterVars => ResendInv'
<1>1. ASSUME ResendInv, UNCHANGED limiterVars PROVE ResendInv'
  <2>1. /\ WindowFirst' = WindowFirst /\ WindowLast' = WindowLast /\ Copies' = Copies
        /\ Promised' = Promised /\ Arrived' = Arrived
    BY <1>1 DEF limiterVars, WindowFirst, WindowLast, Copies, CopiesAt, Promised,
       Arrived, ArrivedAt, StaleAt, CellsNow
  <2> QED BY SMTT(30), <1>1, <2>1 DEF ResendInv, limiterVars, Races
<1> QED BY SMTT(30), <1>1, PassResend, FindResend, StoreResend, CheckResend DEF LimiterNext

(***************************************************************************)
(* The broker remembers no message, and yet relays one signed signal no    *)
(* more often than the limiter allows while check_timestamp accepts it,    *)
(* and once more for every connection of its key.                          *)
(***************************************************************************)
THEOREM ResendsBounded == LimiterSpec => []ResendBound
<1>1. LimiterInit => ResendInv
  <2> SUFFICES ASSUME LimiterInit PROVE ResendInv
    OBVIOUS
  <2>1. LimiterTypeOK
    BY LimiterAssumption, ClockAssumption DEF LimiterInit, ClockInit, LimiterTypeOK
  <2>2. entry = None /\ resent = 0 /\ \A t \in Task : ~again[t]
    BY DEF LimiterInit
  <2> QED BY <2>1, <2>2, ResendTypes DEF ResendInv
<1>2. LimiterTypeOK /\ EntryInv /\ ResendInv => ResendBound
  <2> SUFFICES ASSUME LimiterTypeOK, EntryInv, ResendInv
               PROVE  2 * resent <= Races(Cardinality(Task))
                                      + 2 * (WindowLast - WindowFirst)
                                      + 2 * Cardinality(Task)
    BY WindowEnds DEF ResendBound
  <2>1. CASE entry = None \/ now < WindowFirst
    <3>1. resent = 0
      BY ZenonT(30), <2>1 DEF ResendInv
    <3> QED BY SMTT(30), <3>1, ResendTypes
  <2>2. CASE entry # None /\ WindowFirst <= now /\ now <= WindowLast
    <3>1. 2 * (resent + Promised) <= Races(Arrived) + 2 * (now - WindowFirst)
      BY <2>2 DEF ResendInv
    <3>2. Promised \in Nat
      BY SMTT(30), <2>2, PromisedBound
    <3> QED BY SMTT(30), <2>2, <3>1, <3>2, ResendTypes
  <2>3. CASE now > WindowLast
    BY <2>3, ResendTypes DEF ResendInv
  <2> QED BY <2>1, <2>2, <2>3, ResendTypes
<1> QED BY <1>1, <1>2, LimiterTypeCorrect, EntryInvariant, StepResend, PTL
        DEF LimiterSpec
=============================================================================
