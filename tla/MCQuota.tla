------------------------------ MODULE MCQuota ------------------------------
(***************************************************************************)
(* The relay quota of a key with two connections, on a clock of a few      *)
(* ticks.                                                                  *)
(***************************************************************************)
EXTENDS PeerQuota, TLC

TaskSymmetry == Permutations(Task)
=============================================================================
