---------------------------- MODULE PeerRegistry ----------------------------
(***************************************************************************)
(* The live peers of src/registry.rs: a map from public key to the         *)
(* PeerHandle of a connection, and a secondary index from handle to public *)
(* key.  A PeerHandle is identified with the connection that built it: its *)
(* addresses, its reflected address, its handle and its sender never       *)
(* change after serve_socket has filled them in.                           *)
(*                                                                         *)
(* insert and remove touch both maps, one map operation at a time, so each *)
(* is a sequence of the actions below; the task that calls them            *)
(* (module Broker) says in which order.                                    *)
(***************************************************************************)
EXTENDS BrokerBase

CONSTANT Handle

ASSUME HandleAssumption == None \notin Handle

VARIABLES
    by_pubkey,          \* [Peer -> the connection registered for it, or None]
    handle_to_pubkey    \* [Handle -> the key that claimed it, or None]

registryVars == <<by_pubkey, handle_to_pubkey>>

RegistryInit ==
    /\ by_pubkey = [p \in Peer |-> None]
    /\ handle_to_pubkey = [h \in Handle |-> None]

\* is_online, and the test that get makes.
IsOnline(p) == by_pubkey[p] # None

\* insert, first half: only for a peer whose handle was claimed.
IndexHandle(h, p) ==
    /\ handle_to_pubkey' = [handle_to_pubkey EXCEPT ![h] = p]
    /\ UNCHANGED by_pubkey

\* insert, second half: replaces whatever connection was there.
PutPeer(p, c) ==
    /\ by_pubkey' = [by_pubkey EXCEPT ![p] = c]
    /\ UNCHANGED handle_to_pubkey

\* remove, first half: the entry of the key, whichever connection put it there.
TakePeer(p) ==
    /\ by_pubkey' = [by_pubkey EXCEPT ![p] = None]
    /\ UNCHANGED handle_to_pubkey

\* remove, the index entry of a handle that was found to point at the peer.
UnindexHandle(h) ==
    /\ handle_to_pubkey' = [handle_to_pubkey EXCEPT ![h] = None]
    /\ UNCHANGED by_pubkey

RegistryTypeOK ==
    /\ by_pubkey \in [Peer -> Conn \cup {None}]
    /\ handle_to_pubkey \in [Handle -> Peer \cup {None}]
=============================================================================
