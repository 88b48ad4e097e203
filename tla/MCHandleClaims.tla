--------------------------- MODULE MCHandleClaims ---------------------------
(***************************************************************************)
(* Claims of a few sessions at a time, over two keys and two handles.      *)
(***************************************************************************)
EXTENDS HandleClaims, TLC

ClaimSymmetry ==
    Permutations(Task) \cup Permutations(Peer) \cup Permutations(Handle)
=============================================================================
