---------------------------- MODULE ReplayWindow ----------------------------
(***************************************************************************)
(* check_timestamp of src/auth.rs, which verify_signed_message calls for   *)
(* every message.  The difference of the clock and the message's timestamp *)
(* is an i64 and wraps, as it does in a release build.                     *)
(***************************************************************************)
EXTENDS Integers

CONSTANTS
    Half,       \* 2^63
    MaxDrift    \* MAX_DRIFT_SECS

ASSUME WindowAssumption == Half \in Nat /\ MaxDrift \in Nat /\ MaxDrift < Half

Timestamp == -Half..(Half - 1)

\* An i64 difference, in two's complement.
Wrap(x) == IF x >= Half THEN x - 2 * Half
           ELSE IF x < -Half THEN x + 2 * Half ELSE x

\* Fault: the drift's absolute value is compared once; that of -Half wraps too.
CheckTimestampAbs(clock, ts) ==
    LET drift == Wrap(clock - ts)
        magnitude == IF drift < 0 THEN Wrap(-drift) ELSE drift
    IN IF magnitude > MaxDrift THEN "stale" ELSE "ok"

\* check_timestamp, which reads clock from Utc::now.
CheckTimestamp(clock, ts) ==
    LET drift == Wrap(clock - ts)
    IN IF drift > MaxDrift THEN "stale"
       ELSE IF drift < -MaxDrift THEN "future" ELSE "ok"

\* The reference: timestamp and clock are no more than MaxDrift apart.
Within(clock, ts) == clock - ts \in -MaxDrift..MaxDrift

\* A client may send any i64 timestamp.
ExactAt(clock) ==
    \A ts \in Timestamp : CheckTimestamp(clock, ts) = "ok" <=> Within(clock, ts)
=============================================================================
