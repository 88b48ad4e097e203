------------------------------ MODULE KeyClock ------------------------------
(***************************************************************************)
(* What the limits of one key have in common: the connections of that key  *)
(* (Task), a clock, and the tick from which a limit's use is counted.      *)
(* That tick is arbitrary, so what holds since then holds for every        *)
(* stretch of time.                                                        *)
(***************************************************************************)
EXTENDS Integers, FiniteSets

CONSTANTS
    Task, None,
    MaxTime     \* bound: the last tick of the model's clock

ASSUME ClockAssumption ==
    MaxTime \in Nat /\ None \notin Int /\ None \notin Task /\ IsFiniteSet(Task)

VARIABLES
    now,        \* Instant::now, in ticks
    from        \* history: the tick at which counting starts

ClockInit == now = 0 /\ from \in 0..MaxTime

ClockTick == now < MaxTime /\ now' = now + 1 /\ UNCHANGED from

\* Of an amount, the part that counts.
Counted(n) == IF now >= from THEN n ELSE 0
=============================================================================
