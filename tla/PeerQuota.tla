------------------------------ MODULE PeerQuota ------------------------------
(***************************************************************************)
(* The relay quota of one key, PeerQuota of src/relay.rs, and the frames   *)
(* that forward charges to it: a token bucket that refills at              *)
(* BytesPerSecond, and a daily allowance.  The connections of the key      *)
(* (Task) share the quota; consume_quota holds its mutex for the whole of  *)
(* try_consume, so a call is one step.  A frame is charged first; then its *)
(* recipient is looked up and the task awaits room in that channel.        *)
(*                                                                         *)
(* The clock starts with the key's first frame and advances by the time    *)
(* one byte takes at the refill rate: a second is BytesPerSecond ticks and *)
(* a tick refills one token.  Tokens are exact where the code has an f64.  *)
(***************************************************************************)
EXTENDS KeyClock

CONSTANTS
    BytesPerSecond,     \* BYTES_PER_SECOND: the bucket's size
    BytesPerDay,        \* BYTES_PER_DAY
    Day,                \* 24 hours, in ticks
    MaxFrame            \* RELAY_MAX_FRAME, what one call may ask for

ASSUME QuotaAssumption ==
    /\ BytesPerSecond \in Nat /\ BytesPerDay \in Nat
    /\ Day \in Nat \ {0} /\ MaxFrame \in Nat

VARIABLES
    tokens, last_refill,            \* the bucket
    day_used, day_window_start,     \* the daily allowance
    inflight,                       \* the charged frame a task has to hand over
    accepted, relayed               \* history: bytes charged, and handed over

quotaVars == <<now, from, tokens, last_refill, day_used, day_window_start,
               inflight, accepted, relayed>>

Least(a, b) == IF a < b THEN a ELSE b

\* PeerQuota::new, by the first frame of the key.
QuotaInit ==
    /\ ClockInit
    /\ tokens = BytesPerSecond /\ last_refill = now
    /\ day_used = 0 /\ day_window_start = now
    /\ inflight = [t \in Task |-> None]
    /\ accepted = 0 /\ relayed = 0

Tick ==
    /\ ClockTick
    /\ UNCHANGED <<tokens, last_refill, day_used, day_window_start, inflight,
                   accepted, relayed>>

\* Fault: the refilled bucket is not capped.
RefilledUncapped == tokens + (now - last_refill)

\* The bucket after its refill.
Refilled == Least(tokens + (now - last_refill), BytesPerSecond)

DayOver == now - day_window_start >= Day

\* Fault: the day's window is reset on every call.
UsedTodayNone == 0

\* The bytes used in the window, which starts anew when it is a day old.
UsedToday == IF DayOver THEN 0 ELSE day_used

\* Fault: last_refill keeps its value.
TouchBucketOnce == UNCHANGED last_refill

\* Every call moves last_refill, whether or not it succeeds.
TouchBucket == last_refill' = now

(***************************************************************************)
(* forward, up to the end of consume_quota.  try_consume refills, resets   *)
(* the window when it is over, then makes the daily check, the bucket's    *)
(* check and the deduction.  A refusal keeps what came before it.          *)
(***************************************************************************)
Charge(t, bytes) ==
    LET fits == UsedToday + bytes <= BytesPerDay /\ bytes <= Refilled
        spent == IF fits THEN bytes ELSE 0
    IN /\ inflight[t] = None
       /\ TouchBucket
       /\ tokens' = Refilled - spent
       /\ day_window_start' = IF DayOver THEN now ELSE day_window_start
       /\ day_used' = UsedToday + spent
       /\ inflight' = IF fits THEN [inflight EXCEPT ![t] = bytes] ELSE inflight
       /\ accepted' = accepted + Counted(spent)
       /\ UNCHANGED <<now, from, relayed>>

\* Fault: a frame whose send was slow is sent again.
HandOverAgain(t) ==
    /\ inflight[t] # None
    /\ relayed' = relayed + Counted(inflight[t])
    /\ UNCHANGED <<tokens, last_refill, day_used, day_window_start, inflight, now,
                   from, accepted>>

\* forward: try_send puts the frame into the recipient's channel.
HandOver(t) ==
    /\ inflight[t] # None
    /\ relayed' = relayed + Counted(inflight[t])
    /\ inflight' = [inflight EXCEPT ![t] = None]
    /\ UNCHANGED <<tokens, last_refill, day_used, day_window_start, now, from,
                   accepted>>

\* forward: the recipient is offline, or its channel is closed.
PeerOffline(t) ==
    /\ inflight[t] # None
    /\ inflight' = [inflight EXCEPT ![t] = None]
    /\ UNCHANGED <<tokens, last_refill, day_used, day_window_start, now, from,
                   accepted, relayed>>

QuotaNext ==
    \/ Tick
    \/ \E t \in Task : \/ \E bytes \in 0..MaxFrame : Charge(t, bytes)
                       \/ HandOver(t) \/ PeerOffline(t)

QuotaSpec == QuotaInit /\ [][QuotaNext]_quotaVars

-----------------------------------------------------------------------------
\* The bucket and the day's use stay within their limits, and the stored
\* instants are not in the future.
QuotaTypeOK ==
    /\ now \in 0..MaxTime /\ from \in 0..MaxTime
    /\ tokens \in 0..BytesPerSecond
    /\ last_refill \in 0..now
    /\ day_used \in 0..BytesPerDay
    /\ day_window_start \in 0..now
    /\ inflight \in [Task -> 0..MaxFrame \cup {None}]
    /\ accepted \in Nat /\ relayed \in Nat

(***************************************************************************)
(* The peak rate: since the beginning of any tick, try_consume has         *)
(* accepted at most one full bucket plus what was refilled since.  A lazy  *)
(* refill that credited some time twice, on a refused call for instance,   *)
(* would break it.                                                         *)
(***************************************************************************)
PeakRate == now >= from => accepted <= BytesPerSecond + (now - from)

(***************************************************************************)
(* The daily allowance as the lazily reset window gives it: any day-long   *)
(* stretch sees at most two allowances, because it meets at most two       *)
(* windows.                                                                *)
(***************************************************************************)
TwoDaysWorth == now - from \in 0..(Day - 1) => accepted <= 2 * BytesPerDay

(***************************************************************************)
(* What reaches recipients.  Frames charged earlier may be handed over     *)
(* late, one per connection of the key, and frames that fail are charged   *)
(* all the same; so the rate of frames handed over exceeds the peak rate   *)
(* by at most one frame per connection.                                    *)
(***************************************************************************)
DeliveredRate ==
    now >= from =>
        relayed <= BytesPerSecond + (now - from) + Cardinality(Task) * MaxFrame
==============================================================================
