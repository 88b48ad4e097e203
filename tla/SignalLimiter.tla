--------------------------- MODULE SignalLimiter ---------------------------
(***************************************************************************)
(* The signaling rate limit of one key, SignalingLimiter of                *)
(* src/signaling.rs.  The connections of the key (Task) share the entry of *)
(* the limiter map; limiter_for looks it up and, when there is none,       *)
(* creates a limiter and stores it with a second map operation.            *)
(*                                                                         *)
(* A task finds the map without an entry at most once, since entries are   *)
(* never removed; its limiter is identified with it.  governor's limiter   *)
(* is external: a bucket of Burst cells that regains one cell per tick (60 *)
(* seconds divided by 100 in the code).                                    *)
(*                                                                         *)
(* A signal gets to the limiter when check_timestamp accepts it.  No       *)
(* message is remembered, so one signed signal may be sent again, on any   *)
(* connection of its key; stamp is the timestamp of one such signal.       *)
(***************************************************************************)
EXTENDS KeyClock, ReplayWindow

CONSTANTS
    Burst,      \* the quota, 100
    Second      \* ticks in a second of Utc::now

\* The clock stays clear of the end of an i64.
ASSUME LimiterAssumption ==
    /\ Burst \in Nat \ {0} /\ Second \in Nat \ {0}
    /\ MaxTime + MaxDrift < Half

VARIABLES
    entry,          \* the map's entry for the key: a limiter, or None
    cells, since,   \* each limiter's cells, and when they were counted
    at, held,       \* where a task stands in check, and the limiter it holds
    again,          \* whether the signal the task has is the one stamped stamp
    stamp,
    allowed,        \* history: signals allowed since from, and how often
    resent          \* the one stamped stamp was allowed

limiterVars == <<now, from, entry, cells, since, at, held, again, stamp, allowed,
                 resent>>

\* Utc::now().timestamp()
Clock == now \div Second

LimiterInit ==
    /\ ClockInit
    /\ entry = None
    /\ cells = [l \in Task |-> Burst]
    /\ since = [l \in Task |-> 0]
    /\ at = [t \in Task |-> "idle"]
    /\ held = [t \in Task |-> None]
    /\ again = [t \in Task |-> FALSE]
    /\ stamp \in 0..(MaxTime \div Second)
    /\ allowed = 0 /\ resent = 0

PassTime ==
    /\ ClockTick
    /\ UNCHANGED <<entry, cells, since, at, held, again, stamp, allowed, resent>>

\* Fault: timestamps ahead of the clock pass.
VerifiedAhead(ts) == CheckTimestamp(Clock, ts) # "stale"

\* verify_signed_message, for a signal with a good signature.
Verified(ts) == CheckTimestamp(Clock, ts) = "ok"

\* Fault: limiter_for never takes the stored limiter.
StoredNever == FALSE

\* map.get finds a limiter.
Stored == entry # None

\* A signal stamped ts: limiter_for's map.get, and a new limiter when there is
\* none.
FindLimiter(t, ts) ==
    /\ at[t] = "idle"
    /\ Verified(ts)
    /\ again' = [again EXCEPT ![t] = ts = stamp]
    /\ IF Stored
       THEN /\ held' = [held EXCEPT ![t] = entry]
            /\ at' = [at EXCEPT ![t] = "check"]
            /\ UNCHANGED <<cells, since>>
       ELSE /\ held' = [held EXCEPT ![t] = t]
            /\ cells' = [cells EXCEPT ![t] = Burst]
            /\ since' = [since EXCEPT ![t] = now]
            /\ at' = [at EXCEPT ![t] = "insert"]
    /\ UNCHANGED <<now, from, entry, stamp, allowed, resent>>

\* limiter_for: map.insert, whatever has been stored meanwhile.
StoreLimiter(t) ==
    /\ at[t] = "insert"
    /\ entry' = t
    /\ at' = [at EXCEPT ![t] = "check"]
    /\ UNCHANGED <<now, from, cells, since, held, again, stamp, allowed, resent>>

\* Fault: a limiter gathers cells without limit.
CellsNowUncapped(l) == cells[l] + (now - since[l])

\* The cells of limiter l now.
CellsNow(l) ==
    IF cells[l] + (now - since[l]) < Burst THEN cells[l] + (now - since[l])
                                           ELSE Burst

\* limiter.check: one cell if there is one.
CheckLimiter(t) ==
    LET l == held[t]
        pass == IF CellsNow(l) > 0 THEN 1 ELSE 0
    IN /\ at[t] = "check"
       /\ cells' = [cells EXCEPT ![l] = CellsNow(l) - pass]
       /\ since' = [since EXCEPT ![l] = now]
       /\ allowed' = allowed + Counted(pass)
       /\ resent' = IF again[t] THEN resent + pass ELSE resent
       /\ at' = [at EXCEPT ![t] = "idle"]
       /\ held' = [held EXCEPT ![t] = None]
       /\ again' = [again EXCEPT ![t] = FALSE]
       /\ UNCHANGED <<now, from, entry, stamp>>

LimiterNext ==
    \/ PassTime
    \/ \E t \in Task : \/ \E ts \in Timestamp : FindLimiter(t, ts)
                       \/ StoreLimiter(t) \/ CheckLimiter(t)

LimiterSpec == LimiterInit /\ [][LimiterNext]_limiterVars

-----------------------------------------------------------------------------
\* A limiter holds at most a burst, and a task past limiter_for holds a limiter.
LimiterTypeOK ==
    /\ now \in 0..MaxTime /\ from \in 0..MaxTime
    /\ entry \in Task \cup {None}
    /\ cells \in [Task -> 0..Burst]
    /\ since \in [Task -> 0..now]
    /\ at \in [Task -> {"idle", "insert", "check"}]
    /\ held \in [Task -> Task \cup {None}]
    /\ \A t \in Task : at[t] # "idle" => held[t] \in Task
    /\ again \in [Task -> BOOLEAN]
    /\ stamp \in Int
    /\ allowed \in Nat /\ resent \in Nat

\* Twice what n connections that race for their first signal can be worth: a
\* limiter each, and for every two of them one message, which one has checked
\* against a limiter that the other has replaced.
Races(n) == n * (2 * Burst + n - 1)

(***************************************************************************)
(* What the limit is worth to a key whose connections race for their first *)
(* signal.  An insert that replaces a stored limiter leaves its own burst, *)
(* and every connection that had looked the old one up one message it may  *)
(* still check there; after that, one message per tick as for a key with   *)
(* one connection.                                                         *)
(***************************************************************************)
RacedRate ==
    now >= from => 2 * allowed <= Races(Cardinality(Task)) + 2 * (now - from)

(***************************************************************************)
(* check_timestamp accepts exactly the timestamps no more than MaxDrift    *)
(* from the clock, although its subtraction wraps for timestamps at the    *)
(* other end of an i64.                                                    *)
(***************************************************************************)
WindowExact == ExactAt(Clock)

(***************************************************************************)
(* How often one signed signal can be relayed: the broker keeps no record  *)
(* of it, but the timestamp window ends and the limiter counts meanwhile.  *)
(* After the window's last tick each connection may have one copy that     *)
(* verify_signed_message accepted in time.                                 *)
(***************************************************************************)
ResendBound ==
    2 * resent <= Races(Cardinality(Task)) + 2 * ((2 * MaxDrift + 1) * Second - 1)
                    + 2 * Cardinality(Task)
=============================================================================
