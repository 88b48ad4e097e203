----------------------------- MODULE BrokerBase -----------------------------
(***************************************************************************)
(* The vocabulary that every in-memory component of the broker shares.     *)
(*                                                                         *)
(* A public key string is an element of Peer.  A WebSocket connection,     *)
(* together with the tokio task that runs serve_socket for it and the      *)
(* sender half of its outbound channel, is an element of Conn.  None is    *)
(* Rust's None, and the absence of a key from a DashMap.                   *)
(***************************************************************************)
EXTENDS FiniteSets

CONSTANTS Conn, Peer, None

\* None is neither a connection, nor a key, nor a HashSet of keys.
ASSUME NoneAssumption ==
    /\ None \notin Conn
    /\ None \notin Peer
    /\ \A S \in SUBSET Peer : None # S
=============================================================================
