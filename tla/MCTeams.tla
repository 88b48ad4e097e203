------------------------------ MODULE MCTeams ------------------------------
(***************************************************************************)
(* Two sessions that announce memberships of a team whose id a client has  *)
(* chosen, or of a new one.                                                *)
(***************************************************************************)
EXTENDS Teams, TLC

TeamSymmetry == Permutations(Session) \cup Permutations(Peer)
=============================================================================
