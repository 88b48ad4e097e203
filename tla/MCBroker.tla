------------------------------ MODULE MCBroker ------------------------------
(***************************************************************************)
(* Instances of the broker with two connections.  a1 and a2 belong to the  *)
(* client whose key is A, as when it reconnects; b1 belongs to the client  *)
(* whose key is B.                                                         *)
(***************************************************************************)
EXTENDS Broker

CONSTANTS a1, a2, b1, A, B, h

Keys == [c \in Conn |-> IF c = b1 THEN B ELSE A]

\* Handles: nobody asks for one, or every connection asks for h.
NoHandles == [c \in Conn |-> None]
AllWantH == [c \in Conn |-> h]

\* Peer lists: clients watch B, or A itself.
WatchB == {{B}}
WatchA == {{A}}

\* What the clients send: nothing; subscriptions; lookups, signals and presence
\* messages; or relay messages, and subscriptions by A.
Silent == [c \in Conn |-> {}]
Subscribing == [c \in Conn |-> {"subscribe"}]
Asking == [c \in Conn |-> {"query", "signal", "subscribe", "unsubscribe"}]
Relaying == [c \in Conn |-> {"relay"} \cup IF c = b1 THEN {} ELSE {"subscribe"}]

\* Message bounds.
NoRequest == [c \in Conn |-> 0]
OneEach == [c \in Conn |-> 1]
TwoByA == [c \in Conn |-> IF c = b1 THEN 0 ELSE 2]
TwoByAOneByB == [c \in Conn |-> IF c = b1 THEN 1 ELSE 2]
=============================================================================
