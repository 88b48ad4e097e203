----------------------------- MODULE MCPresence -----------------------------
(***************************************************************************)
(* The presence indexes on small instances.                                *)
(***************************************************************************)
EXTENDS PresenceManager, TLC

PeerSymmetry == Permutations(Peer)

Symmetry == Permutations(Peer) \cup Permutations(Conn)
=============================================================================
