---------------------------- MODULE RelayManager ----------------------------
(***************************************************************************)
(* The relay sessions of src/relay.rs.  A session is created Pending by    *)
(* request, made Active by the responder's accept, used by forward, and    *)
(* removed by drop_sessions_for when a connection of either party ends.    *)
(* Session identifiers are random UUIDs: an element of Sid is drawn once.  *)
(***************************************************************************)
EXTENDS BrokerBase

CONSTANT Sid

ASSUME SidAssumption == None \notin Sid

VARIABLES
    sessions,   \* [Sid -> Session, or None]
    drawn,      \* the identifiers Uuid::new_v4 has returned
    consents    \* history: <<sid, initiator, responder>> of every accept

relayVars == <<sessions, drawn, consents>>

SessionOf(initiator, responder, state) ==
    [initiator |-> initiator, responder |-> responder, state |-> state]

Session == [initiator : Peer, responder : Peer, state : {"pending", "active"}]

ASSUME SessionAssumption == None \notin Session

RelayInit ==
    /\ sessions = [i \in Sid |-> None]
    /\ drawn = {}
    /\ consents = {}

IsParty(i, p) == p \in {sessions[i].initiator, sessions[i].responder}

\* request: Uuid::new_v4, an identifier never drawn before.
DrawId(i) ==
    /\ i \notin drawn
    /\ drawn' = drawn \cup {i}
    /\ UNCHANGED <<sessions, consents>>

\* request: a pending session under the new identifier.
OpenSession(i, initiator, responder) ==
    /\ sessions' = [sessions EXCEPT ![i] = SessionOf(initiator, responder, "pending")]
    /\ UNCHANGED <<drawn, consents>>

\* The checks of accept, made under the entry's guard.
MayAccept(i, p) ==
    /\ sessions[i] # None
    /\ sessions[i].responder = p
    /\ sessions[i].state = "pending"

\* accept: state = Active, and the guard is dropped.
ActivateSession(i) ==
    /\ sessions' = [sessions EXCEPT
          ![i] = SessionOf(sessions[i].initiator, sessions[i].responder, "active")]
    /\ consents' = consents \cup
                     {<<i, sessions[i].initiator, sessions[i].responder>>}
    /\ UNCHANGED drawn

\* Fault: forward does not ask whether the session is active.
MayForwardAny(i, p) ==
    /\ sessions[i] # None
    /\ IsParty(i, p)

\* The checks of forward, made under the entry's guard.
MayForward(i, p) ==
    /\ sessions[i] # None
    /\ sessions[i].state = "active"
    /\ IsParty(i, p)

\* forward: the party a frame of p goes to.
OtherParty(i, p) ==
    IF sessions[i].initiator = p THEN sessions[i].responder
                                 ELSE sessions[i].initiator

\* Fault: drop_sessions_for looks at the responder only.
SessionsOfResponder(p) == {i \in Sid : sessions[i] # None /\ sessions[i].responder = p}

\* drop_sessions_for, the ids it collects.
SessionsOf(p) == {i \in Sid : sessions[i] # None /\ IsParty(i, p)}

\* drop_sessions_for, one removal.
DropSession(i) ==
    /\ sessions' = [sessions EXCEPT ![i] = None]
    /\ UNCHANGED <<drawn, consents>>

RelayTypeOK ==
    /\ sessions \in [Sid -> {None} \cup Session]
    /\ drawn \subseteq Sid
    /\ consents \subseteq Sid \X Peer \X Peer
=============================================================================
