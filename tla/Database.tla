------------------------------ MODULE Database ------------------------------
(***************************************************************************)
(* What the tables of the broker's database have in common: rows belong to *)
(* keys, and None stands for a row that is missing or a column that is     *)
(* NULL.                                                                   *)
(***************************************************************************)
CONSTANTS Peer, None

ASSUME DatabaseAssumption == None \notin Peer
=============================================================================
