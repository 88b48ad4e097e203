----------------------------- MODULE MCLimiter -----------------------------
(***************************************************************************)
(* The signaling limiter with two connections of a key and small i64s.     *)
(***************************************************************************)
EXTENDS SignalLimiter, TLC

TaskSymmetry == Permutations(Task)
=============================================================================
