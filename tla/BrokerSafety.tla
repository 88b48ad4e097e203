---------------------------- MODULE BrokerSafety ----------------------------
(***************************************************************************)
(* Safety of the broker for every value of its constants: the registry     *)
(* leads only to live sessions, and no relay session is left unattended.   *)
(* The types of the cleanup actions are at the end.                        *)
(***************************************************************************)
EXTENDS BrokerProofs

-----------------------------------------------------------------------------
(***************************************************************************)
(* Most steps leave the registry alone and move at most one task, which    *)
(* does not enter or go through its cleanup.                               *)
(***************************************************************************)
Ordinary(c) ==
    /\ by_pubkey' = by_pubkey
    /\ \A k \in Conn \ {c} : pc'[k] = pc[k] /\ loc'[k] = loc[k]
    /\ \/ pc'[c] = pc[c] /\ loc'[c] = loc[c]
       \/ /\ pc[c] \notin Unregistering \cup {"drop"}
          /\ pc[c] \in Registered => pc'[c] \in Registered

\* A handler that returns moves its own task back to the pump.
LEMMA FinishEffect ==
    ASSUME TypeOK, NEW c \in Conn, NEW sends, Finish(c, sends) \/ Fail(c)
    PROVE  /\ pc'[c] = "pump" /\ loc'[c] = NoLocals
           /\ \A k \in Conn \ {c} : pc'[k] = pc[k] /\ loc'[k] = loc[k]
BY SMTT(30), GotoEffect DEF Finish, Fail

\* Steps that move no task.
LEMMA StillOrdinary ==
    ASSUME TypeOK, NEW c \in Conn,
           \/ Send(c) \/ PresenceCall(c) \/ Deliver(c) \/ WriterEnd(c)
           \/ ClientClose(c) \/ UnsubscribePresence(c)
    PROVE  Ordinary(c) /\ UNCHANGED sessions
BY ZenonT(30)
   DEF Send, PresenceCall, Deliver, WriterEnd, ClientClose,
       UnsubscribePresence, Ordinary, registryVars, relayVars, taskVars

\* Steps of a handler that returns to the pump at once.
LEMMA HandlerOrdinary ==
    ASSUME TypeOK, NEW c \in Conn,
           Answer(c) \/ LookupPeer(c) \/ LookupHandle(c) \/ Signal(c)
    PROVE  Ordinary(c) /\ UNCHANGED sessions
<1>1. pc[c] = "pump" /\ UNCHANGED <<by_pubkey, sessions>>
  BY DEF Answer, LookupPeer, LookupHandle, Signal, Receive, registryVars,
         relayVars
<1>2. Fail(c) \/ \E sends : Finish(c, sends)
  BY ZenonT(30) DEF Answer, LookupPeer, LookupHandle, Signal
<1> QED BY SMTT(30), <1>1, <1>2, FinishEffect
           DEF Ordinary, Registered, Unregistering

\* Steps before the registry insert, and the end of a session.
LEMMA OutsideOrdinary ==
    ASSUME TypeOK, NEW c \in Conn,
           \/ Register(c) \/ RejectRegister(c) \/ ClaimHandle(c)
           \/ InsertIndex(c) \/ EndSession(c)
    PROVE  Ordinary(c) /\ UNCHANGED sessions
<1>1. /\ pc[c] \in {"first", "claim", "index", "drain"}
      /\ UNCHANGED <<by_pubkey, sessions>>
  BY SMTT(30)
     DEF Register, RejectRegister, ClaimHandle, InsertIndex, IndexHandle,
         EndSession, registryVars, relayVars
<1>2. \E label, sends : Goto(c, label, sends, NoLocals)
  BY DEF Register, RejectRegister, ClaimHandle, InsertIndex, EndSession
<1> QED BY SMTT(30), <1>1, <1>2, GotoEffect
           DEF Ordinary, Registered, Unregistering

\* The broadcasts, the presence handler and the relay handlers' lookups.
LEMMA BroadcastOrdinary ==
    ASSUME TypeOK, NEW c \in Conn,
           Snapshot(c) \/ NotifyWatcher(c) \/ BroadcastDone(c)
    PROVE  Ordinary(c) /\ UNCHANGED sessions
<1>1. UNCHANGED <<by_pubkey, sessions>>
  BY SMTT(30)
     DEF Snapshot, NotifyWatcher, BroadcastDone, registryVars, relayVars
<1>2. CASE Snapshot(c)
  BY SMTT(30), <1>1, <1>2, GotoEffect
     DEF Snapshot, Ordinary, Registered, Unregistering
<1>3. CASE NotifyWatcher(c)
  BY SMTT(30), <1>1, <1>3, GotoEffect
     DEF NotifyWatcher, Ordinary, Registered, Unregistering
<1>4. CASE BroadcastDone(c)
  BY SMTT(30), <1>1, <1>4, GotoEffect
     DEF BroadcastDone, Ordinary, Registered, Unregistering
<1> QED BY SMTT(30), <1>2, <1>3, <1>4

\* Ordinary: the subscription snapshot and the end of the stream.
LEMMA OnlineSetOrdinary ==
    ASSUME TypeOK, NEW c \in Conn,
           \/ SubscribePresence(c) \/ ReadOnline(c) \/ OnlineSetDone(c)
           \/ StreamEnd(c)
    PROVE  Ordinary(c) /\ UNCHANGED sessions
<1>1. UNCHANGED <<by_pubkey, sessions>> /\ pc[c] \in {"pump", "online_set"}
  BY DEF SubscribePresence, ReadOnline, OnlineSetDone, StreamEnd, Receive,
         registryVars, relayVars
<1>2. \E label \in {"online_set", "pump", "remove"} : \E sends, locals :
         Goto(c, label, sends, locals)
  BY ZenonT(30) DEF SubscribePresence, ReadOnline, OnlineSetDone, StreamEnd
<1> QED BY SMTT(30), <1>1, <1>2, GotoEffect
           DEF Ordinary, Registered, Unregistering

\* Ordinary: the relay handlers.
LEMMA RelayOrdinary ==
    ASSUME TypeOK, NEW c \in Conn,
           \/ RequestRelay(c) \/ InsertSession(c) \/ AcceptRelay(c)
           \/ AcceptInitiator(c) \/ AcceptResponder(c)
           \/ RelayFrame(c) \/ ForwardFrame(c)
    PROVE  Ordinary(c) /\ pc[c] \in Registered /\ pc'[c] \in Registered
<1>1. /\ UNCHANGED by_pubkey
      /\ pc[c] \in {"pump", "open", "accept_init", "accept_resp", "forward"}
  BY ZenonT(30) DEF RequestRelay, InsertSession, AcceptRelay, AcceptInitiator,
         AcceptResponder, RelayFrame, ForwardFrame, Receive, registryVars
<1>2. \E label \in {"pump", "open", "accept_init", "accept_resp", "forward"} :
         \E sends, locals : Goto(c, label, sends, locals)
  BY ZenonT(30) DEF RequestRelay, InsertSession, AcceptRelay, AcceptInitiator,
         AcceptResponder, RelayFrame, ForwardFrame, Finish, Fail
<1> QED BY SMTT(30), <1>1, <1>2, GotoEffect
           DEF Ordinary, Registered, Unregistering

\* The cleanup after registry.remove leaves the registry's keys alone.
LEMMA CleanupEffect ==
    ASSUME TypeOK, NEW c \in Conn,
           \/ CheckIndex(c) \/ RemoveIndex(c) \/ ClearSubscriber(c)
           \/ CollectSession(c) \/ RemoveSession(c) \/ SessionsDropped(c)
    PROVE  /\ by_pubkey' = by_pubkey
           /\ pc[c] \in Unregistering \cup {"drop"}
           /\ \A k \in Conn \ {c} : pc'[k] = pc[k] /\ loc'[k] = loc[k]
<1>1. UNCHANGED by_pubkey /\ pc[c] \in Unregistering \cup {"drop"}
  BY DEF CheckIndex, RemoveIndex, UnindexHandle, ClearSubscriber, CollectSession,
         RemoveSession, SessionsDropped, Unregistering, registryVars
<1>2. \E label, locals : Goto(c, label, <<>>, locals)
  BY ZenonT(30)
     DEF CheckIndex, RemoveIndex, ClearSubscriber, CollectSession,
         RemoveSession, SessionsDropped
<1> QED BY ZenonT(30), <1>1, <1>2, GotoEffect

\* What registry.insert does to the registry and to its task.
LEMMA InsertPeerEffect ==
    ASSUME TypeOK, NEW c \in Conn, InsertPeer(c)
    PROVE  /\ by_pubkey' = [by_pubkey EXCEPT ![PubkeyOf[c]] = c]
           /\ pc[c] = "insert" /\ pc'[c] = "announce" /\ UNCHANGED sessions
           /\ \A k \in Conn \ {c} : pc'[k] = pc[k] /\ loc'[k] = loc[k]
BY ZenonT(30), GotoEffect DEF InsertPeer, PutPeer, relayVars

\* What registry.remove does to the registry and to its task.
LEMMA RemovePeerEffect ==
    ASSUME TypeOK, NEW c \in Conn, RemovePeer(c)
    PROVE  /\ by_pubkey' = [by_pubkey EXCEPT ![PubkeyOf[c]] = None]
           /\ pc[c] = "remove" /\ pc'[c] \in Unregistering /\ UNCHANGED sessions
           /\ \A k \in Conn \ {c} : pc'[k] = pc[k] /\ loc'[k] = loc[k]
BY GotoEffect DEF RemovePeer, TakePeer, Unregistering, relayVars

-----------------------------------------------------------------------------
(***************************************************************************)
(* The registry.                                                           *)
(***************************************************************************)
LEMMA OrdinaryLive ==
    ASSUME TypeOK, RegistryEntriesLive, NEW c \in Conn, Ordinary(c)
    PROVE  RegistryEntriesLive'
<1> SUFFICES ASSUME NEW p \in Peer, IsOnline(p)'
             PROVE  /\ PubkeyOf[by_pubkey'[p]] = p
                    /\ pc'[by_pubkey'[p]] \in Registered
  BY DEF RegistryEntriesLive
<1>1. by_pubkey'[p] = by_pubkey[p] /\ IsOnline(p)
  BY DEF IsOnline, Ordinary
<1>2. LiveEntry(p)
  BY SMTT(30), <1>1, LiveEntries
<1> QED BY SMTT(30), <1>1, <1>2 DEF LiveEntry, Ordinary

\* Every step keeps the registry entries live.
LEMMA NextLive == TypeOK /\ RegistryEntriesLive /\ [Next]_vars => RegistryEntriesLive'
<1> SUFFICES ASSUME TypeOK, RegistryEntriesLive, [Next]_vars
             PROVE  RegistryEntriesLive'
  OBVIOUS
<1>1. CASE UNCHANGED vars
  BY SMTT(30), <1>1
     DEF vars, registryVars, taskVars, RegistryEntriesLive, IsOnline
<1>2. ASSUME NEW c \in Conn, InsertPeer(c) PROVE RegistryEntriesLive'
  <2> SUFFICES ASSUME NEW p \in Peer, IsOnline(p)'
               PROVE  /\ PubkeyOf[by_pubkey'[p]] = p
                      /\ pc'[by_pubkey'[p]] \in Registered
    BY SMTT(30) DEF RegistryEntriesLive
  <2>1. CASE p = PubkeyOf[c]
    <3>1. by_pubkey'[p] = c
      BY SMTT(30), <1>2, <2>1, InsertPeerEffect DEF TypeOK, RegistryTypeOK
    <3> QED BY SMTT(30), <1>2, <2>1, <3>1, InsertPeerEffect DEF Registered
  <2>2. CASE p # PubkeyOf[c]
    <3>1. by_pubkey'[p] = by_pubkey[p] /\ IsOnline(p)
      BY SMTT(30), <1>2, <2>2, InsertPeerEffect
         DEF TypeOK, RegistryTypeOK, IsOnline
    <3>2. LiveEntry(p)
      BY ZenonT(30), <3>1, LiveEntries
    <3> QED BY ZenonT(30), <1>2, <2>2, <3>1, <3>2, InsertPeerEffect DEF LiveEntry
  <2> QED BY SMTT(30), <2>1, <2>2
<1>3. ASSUME NEW c \in Conn, RemovePeer(c) PROVE RegistryEntriesLive'
  <2> SUFFICES ASSUME NEW p \in Peer, IsOnline(p)'
               PROVE  /\ PubkeyOf[by_pubkey'[p]] = p
                      /\ pc'[by_pubkey'[p]] \in Registered
    BY SMTT(30) DEF RegistryEntriesLive
  <2>1. p # PubkeyOf[c] /\ by_pubkey'[p] = by_pubkey[p] /\ IsOnline(p)
    BY SMTT(30), <1>3, RemovePeerEffect DEF TypeOK, RegistryTypeOK, IsOnline
  <2>2. LiveEntry(p)
    BY SMTT(30), <2>1, LiveEntries
  <2> QED BY SMTT(30), <1>3, <2>1, <2>2, RemovePeerEffect DEF LiveEntry
<1>4. ASSUME NEW c \in Conn,
             \/ CheckIndex(c) \/ RemoveIndex(c) \/ ClearSubscriber(c)
             \/ CollectSession(c) \/ RemoveSession(c) \/ SessionsDropped(c)
      PROVE  RegistryEntriesLive'
  <2>1. /\ by_pubkey' = by_pubkey
        /\ pc[c] \notin Registered
        /\ \A k \in Conn \ {c} : pc'[k] = pc[k]
    BY SMTT(30), <1>4, CleanupEffect DEF Registered, Unregistering
  <2> SUFFICES ASSUME NEW p \in Peer, IsOnline(p)
               PROVE  PubkeyOf[by_pubkey[p]] = p /\ pc'[by_pubkey[p]] \in Registered
    BY <2>1 DEF RegistryEntriesLive, IsOnline
  <2>2. LiveEntry(p)
    BY SMTT(30), LiveEntries
  <2> QED BY SMTT(30), <2>1, <2>2 DEF LiveEntry
<1>5. ASSUME NEW c \in Conn, TaskStep(c) PROVE RegistryEntriesLive'
  BY ZenonT(30), <1>2, <1>3, <1>4, <1>5, OrdinaryLive, StillOrdinary,
     OutsideOrdinary, BroadcastOrdinary, OnlineSetOrdinary, RelayOrdinary
     DEF TaskStep
<1>6. ASSUME NEW c \in Conn, ClientStep(c) PROVE RegistryEntriesLive'
  BY ZenonT(30), <1>6, OrdinaryLive, StillOrdinary, OutsideOrdinary,
     HandlerOrdinary, OnlineSetOrdinary, RelayOrdinary DEF ClientStep
<1> QED BY SMTT(30), <1>1, <1>5, <1>6, OrdinaryLive, StillOrdinary
           DEF Next, Terminated

-----------------------------------------------------------------------------
(***************************************************************************)
(* The relay sessions.                                                     *)
(***************************************************************************)
\* A task that will drop a session goes on to do so after an ordinary step.
LEMMA OrdinaryAttends ==
    ASSUME TypeOK, NEW c \in Conn, Ordinary(c), NEW k \in Conn, NEW i \in Sid,
           WillDrop(k, i)
    PROVE  WillDrop(k, i)'
BY SMTT(30) DEF Ordinary, WillDrop, Unregistering, Registered

\* An ordinary step that leaves the sessions alone leaves none unattended.
LEMMA OrdinaryAttended ==
    ASSUME TypeOK, RelaySessionsAttended, NEW c \in Conn, Ordinary(c),
           UNCHANGED sessions
    PROVE  RelaySessionsAttended'
BY SMTT(30), OrdinaryAttends DEF RelaySessionsAttended

\* The relay handlers: only InsertSession adds a session, which its own task
\* attends to, and AcceptRelay keeps the parties of the session it promotes.
LEMMA RelayAttended ==
    ASSUME TypeOK, RelaySessionsAttended, NEW c \in Conn,
           \/ RequestRelay(c) \/ InsertSession(c) \/ AcceptRelay(c)
           \/ AcceptInitiator(c) \/ AcceptResponder(c)
           \/ RelayFrame(c) \/ ForwardFrame(c)
    PROVE  RelaySessionsAttended'
<1>1. Ordinary(c) /\ pc'[c] \in Registered
  BY SMTT(30), RelayOrdinary
<1>2. CASE UNCHANGED sessions
  BY SMTT(30), <1>1, <1>2, OrdinaryAttended
<1>3. CASE InsertSession(c)
  <2> SUFFICES ASSUME NEW i \in Sid, sessions'[i] # None
               PROVE  \E k \in Conn : PubkeyOf[k] = sessions'[i].initiator
                                        /\ WillDrop(k, i)'
    BY SMTT(30) DEF RelaySessionsAttended
  <2>1. CASE i = loc[c].sid
    <3>1. sessions'[i] = SessionOf(PubkeyOf[c], loc[c].target, "pending")
      BY ZenonT(30), <1>3, <2>1
         DEF InsertSession, OpenSession, TypeOK, RelayTypeOK
    <3>2. sessions'[i].initiator = PubkeyOf[c]
      BY SMTT(30), <3>1 DEF SessionOf
    <3>3. WillDrop(c, i)'
      BY SMTT(30), <1>1 DEF WillDrop
    <3> QED BY SMTT(30), <3>2, <3>3
  <2>2. CASE i # loc[c].sid
    <3>1. sessions'[i] = sessions[i]
      BY ZenonT(30), <1>3, <2>2
         DEF InsertSession, OpenSession, TypeOK, RelayTypeOK
    <3> QED BY SMTT(30), <1>1, <3>1, OrdinaryAttends DEF RelaySessionsAttended
  <2> QED BY SMTT(30), <2>1, <2>2
<1>4. CASE AcceptRelay(c)
  <2>1. CASE UNCHANGED sessions
    BY SMTT(30), <1>2, <2>1
  <2>2. CASE sessions' # sessions
    <3>1. PICK j \in Sid : MayAccept(j, PubkeyOf[c]) /\ ActivateSession(j)
      BY SMTT(30), <1>4, <2>2 DEF AcceptRelay, relayVars
    <3>2. \A i \in Sid : sessions'[i] # None =>
             sessions[i] # None /\ sessions'[i].initiator = sessions[i].initiator
      BY ZenonT(30), <3>1
         DEF MayAccept, ActivateSession, SessionOf, TypeOK, RelayTypeOK
    <3> QED BY ZenonT(30), <1>1, <3>2, OrdinaryAttends DEF RelaySessionsAttended
  <2> QED BY SMTT(30), <2>1, <2>2
<1> QED
  BY ZenonT(30), <1>2, <1>3, <1>4
     DEF RequestRelay, AcceptInitiator, AcceptResponder, RelayFrame,
         ForwardFrame, DrawId, relayVars

\* The cleanup: a task gives up a session only by removing it.
LEMMA CleanupAttended ==
    ASSUME TypeOK, RelaySessionsAttended, NEW c \in Conn,
           \/ CheckIndex(c) \/ RemoveIndex(c) \/ ClearSubscriber(c)
           \/ CollectSession(c) \/ RemoveSession(c) \/ SessionsDropped(c)
    PROVE  RelaySessionsAttended'
<1> SUFFICES ASSUME NEW i \in Sid, sessions'[i] # None
             PROVE  \E k \in Conn : PubkeyOf[k] = sessions'[i].initiator
                                      /\ WillDrop(k, i)'
  BY SMTT(30) DEF RelaySessionsAttended
<1>1. sessions[i] # None /\ sessions'[i] = sessions[i]
  BY ZenonT(30)
     DEF CheckIndex, RemoveIndex, ClearSubscriber, CollectSession,
         RemoveSession, SessionsDropped, DropSession, relayVars, TypeOK,
         RelayTypeOK
<1>2. PICK k \in Conn : PubkeyOf[k] = sessions[i].initiator /\ WillDrop(k, i)
  BY SMTT(30), <1>1 DEF RelaySessionsAttended
<1>3. CASE k # c
  <2>1. WillDrop(k, i)'
    BY SMTT(30), <1>2, <1>3, CleanupEffect DEF WillDrop
  <2> QED BY SMTT(30), <1>1, <1>2, <2>1
<1>4. CASE k = c
  <2>1. CASE CheckIndex(c) \/ RemoveIndex(c)
    <3>1. pc'[c] \in Unregistering
      BY ZenonT(30), <2>1, GotoEffect
         DEF CheckIndex, RemoveIndex, Unregistering
    <3> QED BY SMTT(30), <1>1, <1>2, <1>4, <3>1 DEF WillDrop
  <2>2. CASE ClearSubscriber(c)
    <3>1. pc'[c] = "drop" /\ loc'[c].unread = Sid
      BY SMTT(30), <2>2, GotoEffect, DroppingType DEF ClearSubscriber
    <3> QED BY ZenonT(30), <1>1, <1>2, <1>4, <3>1 DEF WillDrop
  <2>3. CASE CollectSession(c)
    <3>1. loc[c].unread \in SUBSET Sid /\ loc[c].stale \in SUBSET Sid
      BY ZenonT(30) DEF TypeOK, Locals
    <3>2. PICK j \in loc[c].unread :
            Goto(c, "drop", <<>>,
                 Dropping(loc[c].unread \ {j},
                          loc[c].stale \cup ({j} \cap SessionsOf(PubkeyOf[c]))))
      BY ZenonT(30), <2>3 DEF CollectSession
    <3>3. /\ pc'[c] = "drop"
          /\ loc'[c].unread = loc[c].unread \ {j}
          /\ loc'[c].stale = loc[c].stale \cup ({j} \cap SessionsOf(PubkeyOf[c]))
      <4>1. /\ loc[c].unread \ {j} \in SUBSET Sid
            /\ loc[c].stale \cup ({j} \cap SessionsOf(PubkeyOf[c])) \in SUBSET Sid
        BY ZenonT(30), <3>1
      <4> QED BY SMT, <3>2, <4>1, DropEffect
    <3>4. i \in loc[c].unread \cup loc[c].stale
      BY ZenonT(30), <1>2, <1>4, <2>3
      DEF WillDrop, CollectSession, Registered, Unregistering
    <3>5. i \in SessionsOf(PubkeyOf[c])
      BY ZenonT(30), <1>1, <1>2, <1>4 DEF SessionsOf, IsParty
    <3>6. i \in loc'[c].unread \cup loc'[c].stale
      BY ZenonT(30), <3>3, <3>4, <3>5
    <3> QED BY ZenonT(30), <1>1, <1>2, <1>4, <3>3, <3>6 DEF WillDrop
  <2>4. CASE RemoveSession(c)
    <3>1. loc[c].stale \in SUBSET Sid
      BY ZenonT(30) DEF TypeOK, Locals
    <3>2. PICK j \in loc[c].stale :
            DropSession(j) /\ Goto(c, "drop", <<>>, Dropping({}, loc[c].stale \ {j}))
      BY ZenonT(30), <2>4 DEF RemoveSession
    <3>3. pc'[c] = "drop" /\ loc'[c].stale = loc[c].stale \ {j}
      <4>1. {} \in SUBSET Sid /\ loc[c].stale \ {j} \in SUBSET Sid
        BY ZenonT(30), <3>1
      <4> QED BY SMT, <3>2, <4>1, DropEffect
    <3>4. i \in loc[c].stale
      BY ZenonT(30), <1>2, <1>4, <2>4
         DEF WillDrop, RemoveSession, Registered, Unregistering
    <3>5. i # j
      BY ZenonT(30), <3>1, <3>2 DEF DropSession, TypeOK, RelayTypeOK
    <3> QED BY ZenonT(30), <1>1, <1>2, <1>4, <3>3, <3>4, <3>5 DEF WillDrop
  <2>5. CASE SessionsDropped(c)
    BY ZenonT(30), <1>2, <1>4, <2>5
       DEF WillDrop, SessionsDropped, Registered, Unregistering
  <2> QED BY SMTT(30), <2>1, <2>2, <2>3, <2>4, <2>5
<1> QED BY SMTT(30), <1>3, <1>4

\* No step leaves a relay session unattended.
LEMMA NextAttended ==
    TypeOK /\ RelaySessionsAttended /\ [Next]_vars => RelaySessionsAttended'
<1> SUFFICES ASSUME TypeOK, RelaySessionsAttended, [Next]_vars
             PROVE  RelaySessionsAttended'
  OBVIOUS
<1>1. CASE UNCHANGED vars
  BY ZenonT(30), <1>1
     DEF vars, relayVars, taskVars, RelaySessionsAttended, WillDrop
<1>2. ASSUME NEW c \in Conn, InsertPeer(c) \/ RemovePeer(c)
      PROVE  RelaySessionsAttended'
  <2>1. UNCHANGED sessions
    BY SMTT(30), <1>2, InsertPeerEffect, RemovePeerEffect
  <2>2. ASSUME NEW k \in Conn, NEW i \in Sid, WillDrop(k, i)
        PROVE  WillDrop(k, i)'
    <3>1. CASE k = c
      BY ZenonT(30), <1>2, <2>2, <3>1, InsertPeerEffect, RemovePeerEffect
      DEF WillDrop, Registered, Unregistering
    <3>2. CASE k # c
      BY ZenonT(30), <1>2, <2>2, <3>2, InsertPeerEffect, RemovePeerEffect
         DEF WillDrop
    <3> QED BY SMTT(30), <3>1, <3>2
  <2> QED BY SMTT(30), <2>1, <2>2 DEF RelaySessionsAttended
<1>3. ASSUME NEW c \in Conn, TaskStep(c) PROVE RelaySessionsAttended'
  BY ZenonT(30), <1>2, <1>3, OrdinaryAttended, StillOrdinary, OutsideOrdinary,
     BroadcastOrdinary, OnlineSetOrdinary, RelayAttended, CleanupAttended
  DEF TaskStep
<1>4. ASSUME NEW c \in Conn, ClientStep(c) PROVE RelaySessionsAttended'
  BY ZenonT(30), <1>4, OrdinaryAttended, StillOrdinary, OutsideOrdinary,
     HandlerOrdinary, OnlineSetOrdinary, RelayAttended DEF ClientStep
<1> QED BY SMTT(30), <1>1, <1>3, <1>4, OrdinaryAttended, StillOrdinary
           DEF Next, Terminated

-----------------------------------------------------------------------------
(***************************************************************************)
(* serve_socket after the pump keeps the broker well typed.                *)
(***************************************************************************)
\* A step of the cleanup that keeps no locals.
LEMMA CleanupGoto ==
    ASSUME TypeOK, NEW c \in Conn,
           NEW label \in {"remove", "clear", "withdraw", "closed"},
           Goto(c, label, <<>>, NoLocals), UNCHANGED claimed
    PROVE  TaskTypeOK'
<1>1. label \in Labels /\ LocalsFit(c, label, NoLocals)
  BY ZenonT(30) DEF Labels, Registered, Unregistering, LocalsFit
<1> QED BY ZenonT(30), <1>1, NoLocalsType, SendsType, GotoType

\* The pump ends.
LEMMA StreamEndType ==
    ASSUME TypeOK, NEW c \in Conn, StreamEnd(c)
    PROVE  TypeOK'
BY ZenonT(30), CleanupGoto, OwnStepType DEF StreamEnd, dbVars, TypeOK

\* registry.remove, the peer itself.
LEMMA RemovePeerType ==
    ASSUME TypeOK, NEW c \in Conn, RemovePeer(c)
    PROVE  TypeOK'
<1> DEFINE entry == by_pubkey[PubkeyOf[c]]
<1>1. entry \in Conn \cup {None}
  BY ZenonT(30), BrokerAssumption DEF TypeOK, RegistryTypeOK
<1>2. RegistryTypeOK'
  BY ZenonT(30) DEF RemovePeer, TakePeer, TypeOK, RegistryTypeOK
<1>3. TaskTypeOK'
  <2>1. CASE entry # None /\ claimed[entry]
    <3>1. entry \in Conn /\ HandleOf[entry] # None
      BY ZenonT(30), <1>1, <2>1 DEF TypeOK, LocalsOK
    <3>2. Goto(c, "unindex_check", <<>>, Removed(entry))
      BY ZenonT(30), <2>1 DEF RemovePeer
    <3> HIDE DEF entry
    <3>3. Removed(entry) \in Locals /\ Removed(entry).held = entry
      BY ZenonT(30), <3>1, LocalsType DEF Removed, LocalsOf
    <3>4. /\ "unindex_check" \in Labels
          /\ LocalsFit(c, "unindex_check", Removed(entry))
      BY SMTT(30), <3>1, <3>3 DEF Labels, Unregistering, LocalsFit
    <3> QED BY ZenonT(30), <3>2, <3>3, <3>4, SendsType, GotoType
               DEF RemovePeer, dbVars
  <2>2. CASE ~(entry # None /\ claimed[entry])
    BY ZenonT(30), <2>2, CleanupGoto DEF RemovePeer, dbVars
  <2> QED BY ZenonT(30), <2>1, <2>2
<1>4. connected_peers' \in Int
  <2>1. connected_peers' = connected_peers - 1
    BY ZenonT(30) DEF RemovePeer
  <2>2. connected_peers \in Int
    BY SMTT(30) DEF TypeOK
  <2> QED BY SMTT(30), <2>1, <2>2
<1>5. /\ told' \in [Conn -> SUBSET (Peer \X BOOLEAN)]
      /\ last' \in [Conn -> [Peer -> BOOLEAN \cup {None}]]
  BY SMTT(30), ForgetType, BrokerAssumption DEF RemovePeer
<1>6. overlapped' \subseteq Conn
  BY ZenonT(30) DEF RemovePeer, OthersOf, TypeOK
<1> QED
  BY ZenonT(30), <1>2, <1>3, <1>4, <1>5, <1>6
     DEF RemovePeer, TypeOK, TaskTypeOK, PresenceTypeOK, RelayTypeOK,
         presenceVars, relayVars, netVars, dbVars

\* registry.remove reads the handle index.
LEMMA CheckIndexType ==
    ASSUME TypeOK, NEW c \in Conn, CheckIndex(c)
    PROVE  TypeOK'
<1>1. loc[c].held \in Conn /\ HandleOf[loc[c].held] # None /\ loc[c] \in Locals
  BY ZenonT(30) DEF CheckIndex, TypeOK, LocalsOK, LocalsFit
<1>2. /\ "unindex" \in Labels
      /\ LocalsFit(c, "unindex", loc[c])
  BY ZenonT(30), <1>1 DEF Labels, Unregistering, LocalsFit
<1>3. TaskTypeOK'
  BY ZenonT(30), <1>1, <1>2, SendsType, GotoType, CleanupGoto
     DEF CheckIndex, dbVars
<1> QED BY ZenonT(30), <1>3, OwnStepType DEF CheckIndex, TypeOK

\* registry.remove takes the handle out of the index.
LEMMA RemoveIndexType ==
    ASSUME TypeOK, NEW c \in Conn, RemoveIndex(c)
    PROVE  TypeOK'
<1>1. RegistryTypeOK'
  BY ZenonT(30) DEF RemoveIndex, UnindexHandle, TypeOK, RegistryTypeOK
<1>2. TaskTypeOK'
  BY ZenonT(30), CleanupGoto DEF RemoveIndex, dbVars
<1> QED
  BY ZenonT(30), <1>1, <1>2
     DEF RemoveIndex, TypeOK, TaskTypeOK, PresenceTypeOK, RelayTypeOK,
         presenceVars, relayVars, netVars, dbVars, gauges, news

\* drop_sessions_for looks at one session.
LEMMA CollectSessionType ==
    ASSUME TypeOK, NEW c \in Conn, CollectSession(c)
    PROVE  TypeOK'
<1>1. loc[c].unread \in SUBSET Sid /\ loc[c].stale \in SUBSET Sid
  BY ZenonT(30) DEF TypeOK, Locals
<1>2. TaskTypeOK'
  BY ZenonT(30), <1>1, DropGoto DEF CollectSession, SessionsOf, dbVars
<1> QED BY ZenonT(30), <1>2, OwnStepType DEF CollectSession, TypeOK

\* drop_sessions_for removes one session.
LEMMA RemoveSessionType ==
    ASSUME TypeOK, NEW c \in Conn, RemoveSession(c)
    PROVE  TypeOK'
<1>1. PICK i \in loc[c].stale :
        DropSession(i) /\ Goto(c, "drop", <<>>, Dropping({}, loc[c].stale \ {i}))
  BY ZenonT(30) DEF RemoveSession
<1>2. loc[c].stale \in SUBSET Sid
  BY SMTT(30) DEF TypeOK, Locals
<1>3. RelayTypeOK'
  BY ZenonT(30), <1>1 DEF DropSession, TypeOK, RelayTypeOK
<1>4. TaskTypeOK'
  BY ZenonT(30), <1>1, <1>2, DropGoto DEF RemoveSession, dbVars
<1> QED BY ZenonT(30), <1>3, <1>4, RelayHandlerType DEF RemoveSession, TypeOK

\* drop_sessions_for returns.
LEMMA SessionsDroppedType ==
    ASSUME TypeOK, NEW c \in Conn, SessionsDropped(c)
    PROVE  TypeOK'
BY ZenonT(30), CleanupGoto, OwnStepType DEF SessionsDropped, dbVars, TypeOK

\* The session task ends.
LEMMA EndSessionType ==
    ASSUME TypeOK, NEW c \in Conn, EndSession(c)
    PROVE  TypeOK'
BY ZenonT(30), CleanupGoto, OwnStepType DEF EndSession, dbVars, TypeOK

-----------------------------------------------------------------------------
(***************************************************************************)
(* Where a step leaves its task.                                           *)
(***************************************************************************)
\* The task of c did not just reach the handle index or the registry.
Kept(c) ==
    /\ pc'[c] = "index" => pc[c] = "index"
    /\ pc'[c] \in Registered => pc[c] \in Registered

\* A handler runs in a registered session.
LEMMA HandlerKept ==
    ASSUME NEW c \in Conn,
           \/ Answer(c) \/ LookupPeer(c) \/ LookupHandle(c) \/ Signal(c)
           \/ SubscribePresence(c) \/ ReadOnline(c) \/ OnlineSetDone(c)
           \/ StreamEnd(c)
    PROVE  pc[c] \in Registered
BY ZenonT(30) DEF Answer, LookupPeer, LookupHandle, Signal, SubscribePresence,
                  ReadOnline, OnlineSetDone, StreamEnd, Receive, Registered

\* A registered session stays one after an ordinary step.
LEMMA RegisteredKept ==
    ASSUME NEW c \in Conn, Ordinary(c), pc[c] \in Registered
    PROVE  Kept(c)
BY ZenonT(30) DEF Ordinary, Kept, Registered

\* serve_socket outside of the registry.
LEMMA OutsideKept ==
    ASSUME TypeOK, NEW c \in Conn,
           \/ Register(c) \/ RejectRegister(c) \/ InsertIndex(c) \/ EndSession(c)
    PROVE  Kept(c)
<1>1. \E label \in {"claim", "insert", "drain", "closed"} : \E sends :
         Goto(c, label, sends, NoLocals)
  BY ZenonT(30) DEF Register, RejectRegister, InsertIndex, EndSession
<1> QED BY SMTT(30), <1>1, GotoEffect DEF Kept, Registered

\* handles::claim does not register the session.
LEMMA ClaimKept ==
    ASSUME TypeOK, NEW c \in Conn, ClaimHandle(c)
    PROVE  pc'[c] \notin Registered
<1>1. \E label \in {"index", "insert"} : Goto(c, label, <<>>, NoLocals)
  BY ZenonT(30) DEF ClaimHandle
<1> QED BY SMTT(30), <1>1, GotoEffect DEF Registered

\* The broadcasts.
LEMMA BroadcastKept ==
    ASSUME TypeOK, NEW c \in Conn,
           Snapshot(c) \/ NotifyWatcher(c) \/ BroadcastDone(c)
    PROVE  Kept(c)
<1>1. CASE Snapshot(c)
  BY SMTT(30), <1>1, GotoEffect DEF Snapshot, Kept, Registered
<1>2. CASE NotifyWatcher(c)
  <2>1. \E sends, locals : Goto(c, pc[c], sends, locals)
    BY ZenonT(30), <1>2 DEF NotifyWatcher
  <2>2. pc'[c] = pc[c]
    BY SMTT(30), <2>1 DEF Goto, TypeOK
  <2> QED BY ZenonT(30), <2>2 DEF Kept
<1>3. CASE BroadcastDone(c)
  BY SMTT(30), <1>3, GotoEffect DEF BroadcastDone, Kept, Registered
<1> QED BY <1>1, <1>2, <1>3

\* The cleanup.
LEMMA CleanupKept ==
    ASSUME TypeOK, NEW c \in Conn,
           \/ CheckIndex(c) \/ RemoveIndex(c) \/ ClearSubscriber(c)
           \/ CollectSession(c) \/ RemoveSession(c) \/ SessionsDropped(c)
    PROVE  Kept(c)
<1>1. \E label \in {"unindex", "clear", "drop", "withdraw"} : \E locals :
         Goto(c, label, <<>>, locals)
  BY ZenonT(30)
     DEF CheckIndex, RemoveIndex, ClearSubscriber, CollectSession,
         RemoveSession, SessionsDropped
<1> QED BY SMTT(30), <1>1, GotoEffect DEF Kept, Registered

-----------------------------------------------------------------------------
(***************************************************************************)
(* The handle index.  A task about to write it has claimed its handle.     *)
(***************************************************************************)
IndexInv ==
    /\ HandleIndexOwned
    /\ \A c \in Conn : pc[c] = "index" => owner[HandleOf[c]] = PubkeyOf[c]

\* A step that leaves the index and the handles table alone.
LEMMA IndexKept ==
    ASSUME IndexInv, NEW c \in Conn, Kept(c),
           \A k \in Conn \ {c} : pc'[k] = pc[k],
           UNCHANGED <<handle_to_pubkey, owner>>
    PROVE  IndexInv'
BY ZenonT(30) DEF IndexInv, HandleIndexOwned, Kept

\* The same, for an ordinary step.
LEMMA OrdinaryIndexKept ==
    ASSUME IndexInv, NEW c \in Conn, Kept(c), Ordinary(c),
           UNCHANGED <<handle_to_pubkey, owner>>
    PROVE  IndexInv'
BY ZenonT(30), IndexKept DEF Ordinary

\* Steps of the session tasks and the writers that touch neither.
LEMMA TaskIndexSame ==
    ASSUME NEW c \in Conn,
           \/ Send(c) \/ PresenceCall(c) \/ InsertPeer(c) \/ Snapshot(c)
           \/ NotifyWatcher(c) \/ BroadcastDone(c) \/ ReadOnline(c)
           \/ OnlineSetDone(c) \/ InsertSession(c) \/ AcceptInitiator(c)
           \/ AcceptResponder(c) \/ ForwardFrame(c) \/ StreamEnd(c)
           \/ RemovePeer(c) \/ CheckIndex(c) \/ ClearSubscriber(c)
           \/ CollectSession(c) \/ RemoveSession(c) \/ SessionsDropped(c)
           \/ EndSession(c) \/ Deliver(c) \/ WriterEnd(c)
    PROVE  UNCHANGED <<handle_to_pubkey, owner>>
BY ZenonT(30)
   DEF Send, PresenceCall, InsertPeer, PutPeer, Snapshot, NotifyWatcher,
       BroadcastDone, ReadOnline, OnlineSetDone, InsertSession, AcceptInitiator,
       AcceptResponder, ForwardFrame, StreamEnd, RemovePeer, TakePeer, CheckIndex,
       ClearSubscriber, CollectSession, RemoveSession, SessionsDropped, EndSession,
       Deliver, WriterEnd, registryVars, dbVars

\* Neither do the steps that a client makes happen.
LEMMA ClientIndexSame ==
    ASSUME NEW c \in Conn, ClientStep(c)
    PROVE  UNCHANGED <<handle_to_pubkey, owner>>
BY ZenonT(30)
   DEF ClientStep, Register, RejectRegister, ClientClose, Answer, LookupPeer,
       LookupHandle, Signal, SubscribePresence, UnsubscribePresence, RequestRelay,
       AcceptRelay, RelayFrame, registryVars, dbVars

\* A task that claims or indexes a handle was asked for one.
LEMMA WantsHandle ==
    ASSUME TypeOK, NEW c \in Conn, pc[c] \in {"claim", "index"}
    PROVE  HandleOf[c] \in Handle /\ PubkeyOf[c] \in Peer /\ PubkeyOf[c] # None
<1>1. HandleOf[c] # None
  BY ZenonT(30) DEF TypeOK, LocalsOK, LocalsFit
<1>2. HandleOf[c] \in Handle \cup {None} /\ PubkeyOf[c] \in Peer
  BY SMTT(30), BrokerAssumption
<1> QED BY SMTT(30), <1>1, <1>2, NoneAssumption

\* handles::claim gives the handle to the key that is about to be indexed, and
\* takes it from nobody.
LEMMA ClaimIndex ==
    ASSUME TypeOK, IndexInv, NEW c \in Conn, ClaimHandle(c)
    PROVE  IndexInv'
<1>1. PICK label \in {"index", "insert"} :
         /\ Goto(c, label, <<>>, NoLocals)
         /\ \/ /\ owner[HandleOf[c]] \in {None, PubkeyOf[c]}
               /\ owner' = [owner EXCEPT ![HandleOf[c]] = PubkeyOf[c]]
            \/ label = "insert" /\ UNCHANGED owner
  BY ZenonT(30) DEF ClaimHandle, dbVars
<1>2. /\ pc'[c] = label /\ \A k \in Conn \ {c} : pc'[k] = pc[k]
      /\ UNCHANGED handle_to_pubkey
  BY ZenonT(30), <1>1, GotoEffect DEF ClaimHandle, registryVars
<1>3. HandleOf[c] \in Handle /\ PubkeyOf[c] \in Peer /\ PubkeyOf[c] # None
  BY ZenonT(30), WantsHandle DEF ClaimHandle
<1>4. \A h \in Handle : owner[h] # None => owner'[h] = owner[h]
  BY ZenonT(30), <1>1, <1>3 DEF TypeOK
<1>5. HandleIndexOwned'
  <2> SUFFICES ASSUME NEW h \in Handle, handle_to_pubkey[h] # None
               PROVE  handle_to_pubkey[h] = owner'[h]
    BY ZenonT(30), <1>2 DEF HandleIndexOwned
  <2> QED BY ZenonT(30), <1>4 DEF IndexInv, HandleIndexOwned
<1>6. ASSUME NEW k \in Conn, pc'[k] = "index"
      PROVE  owner'[HandleOf[k]] = PubkeyOf[k]
  <2>1. CASE k = c
    BY ZenonT(30), <1>1, <1>2, <1>3, <1>6, <2>1 DEF TypeOK
  <2>2. CASE k # c
    <3>1. pc[k] = "index" /\ owner[HandleOf[k]] = PubkeyOf[k]
      BY ZenonT(30), <1>2, <1>6, <2>2 DEF IndexInv
    <3>2. HandleOf[k] \in Handle /\ PubkeyOf[k] # None
      BY ZenonT(30), <3>1, WantsHandle
    <3> QED BY ZenonT(30), <1>4, <3>1, <3>2
  <2> QED BY <2>1, <2>2
<1> QED BY ZenonT(30), <1>5, <1>6 DEF IndexInv

\* registry.insert and registry.remove at the index.
LEMMA WriteIndex ==
    ASSUME TypeOK, IndexInv, NEW c \in Conn, InsertIndex(c) \/ RemoveIndex(c)
    PROVE  IndexInv'
<1>1. Kept(c) /\ \A k \in Conn \ {c} : pc'[k] = pc[k]
  BY ZenonT(30), OutsideKept, CleanupKept, OutsideOrdinary, CleanupEffect
     DEF Ordinary
<1>2. UNCHANGED owner
  BY ZenonT(30) DEF InsertIndex, RemoveIndex, dbVars
<1>3. \A h \in Handle : handle_to_pubkey'[h] # None =>
         \/ handle_to_pubkey'[h] = handle_to_pubkey[h]
         \/ handle_to_pubkey'[h] = owner[h]
  BY ZenonT(30)
     DEF InsertIndex, IndexHandle, RemoveIndex, UnindexHandle, IndexInv, TypeOK,
         RegistryTypeOK
<1>4. HandleIndexOwned'
  <2> SUFFICES ASSUME NEW h \in Handle, handle_to_pubkey'[h] # None
               PROVE  handle_to_pubkey'[h] = owner[h]
    BY ZenonT(30), <1>2 DEF HandleIndexOwned
  <2> QED BY ZenonT(30), <1>3 DEF IndexInv, HandleIndexOwned
<1> QED BY ZenonT(30), <1>1, <1>2, <1>4 DEF IndexInv, Kept

\* Every step keeps the index and the table together.
LEMMA NextIndex == TypeOK /\ IndexInv /\ [Next]_vars => IndexInv'
<1> SUFFICES ASSUME TypeOK, IndexInv, [Next]_vars PROVE IndexInv'
  OBVIOUS
<1>1. CASE UNCHANGED vars
  BY ZenonT(30), <1>1
     DEF vars, registryVars, dbVars, taskVars, IndexInv, HandleIndexOwned
<1>2. ASSUME NEW c \in Conn,
             \/ Send(c) \/ PresenceCall(c) \/ Deliver(c) \/ WriterEnd(c)
             \/ ClientClose(c) \/ UnsubscribePresence(c)
      PROVE  IndexInv'
  <2>1. pc' = pc
    BY ZenonT(30), <1>2 DEF Send, PresenceCall, Deliver, WriterEnd, ClientClose,
                            UnsubscribePresence, taskVars
  <2>2. UNCHANGED <<handle_to_pubkey, owner>>
    BY ZenonT(30), <1>2, TaskIndexSame, ClientIndexSame DEF ClientStep
  <2> QED BY ZenonT(30), <2>1, <2>2 DEF IndexInv, HandleIndexOwned
<1>3. ASSUME NEW c \in Conn,
             \/ Answer(c) \/ LookupPeer(c) \/ LookupHandle(c) \/ Signal(c)
             \/ SubscribePresence(c) \/ ReadOnline(c) \/ OnlineSetDone(c)
             \/ StreamEnd(c)
      PROVE  IndexInv'
  BY ZenonT(30), <1>3, HandlerKept, RegisteredKept, HandlerOrdinary,
     OnlineSetOrdinary, OrdinaryIndexKept, TaskIndexSame, ClientIndexSame
     DEF ClientStep
<1>4. ASSUME NEW c \in Conn,
             \/ RequestRelay(c) \/ InsertSession(c) \/ AcceptRelay(c)
             \/ AcceptInitiator(c) \/ AcceptResponder(c)
             \/ RelayFrame(c) \/ ForwardFrame(c)
      PROVE  IndexInv'
  BY ZenonT(30), <1>4, RelayOrdinary, RegisteredKept, OrdinaryIndexKept,
     TaskIndexSame, ClientIndexSame DEF ClientStep
<1>5. ASSUME NEW c \in Conn,
             \/ Register(c) \/ RejectRegister(c) \/ EndSession(c)
             \/ Snapshot(c) \/ NotifyWatcher(c) \/ BroadcastDone(c)
      PROVE  IndexInv'
  BY ZenonT(30), <1>5, OutsideKept, OutsideOrdinary, BroadcastKept,
     BroadcastOrdinary, OrdinaryIndexKept, TaskIndexSame, ClientIndexSame
     DEF ClientStep
<1>6. ASSUME NEW c \in Conn,
             \/ CheckIndex(c) \/ ClearSubscriber(c) \/ CollectSession(c)
             \/ RemoveSession(c) \/ SessionsDropped(c)
      PROVE  IndexInv'
  BY ZenonT(30), <1>6, CleanupKept, CleanupEffect, IndexKept, TaskIndexSame
<1>7. ASSUME NEW c \in Conn, InsertPeer(c) \/ RemovePeer(c) PROVE IndexInv'
  <2>1. pc'[c] # "index" /\ \A k \in Conn \ {c} : pc'[k] = pc[k]
    BY ZenonT(30), <1>7, InsertPeerEffect, RemovePeerEffect DEF Unregistering
  <2> QED BY ZenonT(30), <1>7, <2>1, TaskIndexSame DEF IndexInv, HandleIndexOwned
<1>8. ASSUME NEW c \in Conn, TaskStep(c) PROVE IndexInv'
  BY ZenonT(30), <1>2, <1>3, <1>4, <1>5, <1>6, <1>7, <1>8, ClaimIndex, WriteIndex
     DEF TaskStep
<1>9. ASSUME NEW c \in Conn, ClientStep(c) PROVE IndexInv'
  BY ZenonT(30), <1>2, <1>3, <1>4, <1>5, <1>9 DEF ClientStep
<1> QED BY ZenonT(30), <1>1, <1>2, <1>8, <1>9 DEF Next, Terminated

-----------------------------------------------------------------------------
(***************************************************************************)
(* The broker drives the presence indexes only through their operations.   *)
(***************************************************************************)
\* The steps of session tasks and writers outside of a presence call.  A task
\* that moves is not inside of one.
LEMMA TaskPresenceSame ==
    ASSUME NEW c \in Conn,
           \/ Send(c) \/ ClaimHandle(c) \/ InsertIndex(c) \/ InsertPeer(c)
           \/ Snapshot(c) \/ NotifyWatcher(c) \/ BroadcastDone(c)
           \/ ReadOnline(c) \/ OnlineSetDone(c) \/ InsertSession(c)
           \/ AcceptInitiator(c) \/ AcceptResponder(c) \/ ForwardFrame(c)
           \/ StreamEnd(c) \/ RemovePeer(c) \/ CheckIndex(c) \/ RemoveIndex(c)
           \/ CollectSession(c) \/ RemoveSession(c) \/ SessionsDropped(c)
           \/ EndSession(c) \/ Deliver(c) \/ WriterEnd(c)
    PROVE  UNCHANGED presenceVars /\ (UNCHANGED pc \/ call[c] = Idle)
BY ZenonT(30)
   DEF Send, ClaimHandle, InsertIndex, InsertPeer, Snapshot, NotifyWatcher,
       BroadcastDone, ReadOnline, OnlineSetDone, InsertSession, AcceptInitiator,
       AcceptResponder, ForwardFrame, StreamEnd, RemovePeer, CheckIndex,
       RemoveIndex, CollectSession, RemoveSession, SessionsDropped, EndSession,
       Deliver, WriterEnd, Ready, taskVars

\* The steps a client makes happen, other than its presence messages.
LEMMA ClientPresenceSame ==
    ASSUME NEW c \in Conn,
           \/ Register(c) \/ RejectRegister(c) \/ ClientClose(c) \/ Answer(c)
           \/ LookupPeer(c) \/ LookupHandle(c) \/ Signal(c) \/ RequestRelay(c)
           \/ AcceptRelay(c) \/ RelayFrame(c)
    PROVE  /\ UNCHANGED presenceVars
           /\ UNCHANGED pc \/ call[c] = Idle \/ pc[c] = "first"
BY ZenonT(30)
   DEF Register, RejectRegister, ClientClose, Answer, LookupPeer, LookupHandle,
       Signal, RequestRelay, AcceptRelay, RelayFrame, Receive, Ready, taskVars

\* Every step of the broker is one of the presence manager, or none.
LEMMA PresenceNextStep == [Next]_vars => [PresenceNext]_presenceVars
<1> SUFFICES ASSUME [Next]_vars PROVE [PresenceNext]_presenceVars
  OBVIOUS
<1>1. CASE UNCHANGED vars
  BY ZenonT(30), <1>1 DEF vars
<1>2. ASSUME NEW c \in Conn,
             \/ SubscribePresence(c) \/ UnsubscribePresence(c)
             \/ ClearSubscriber(c) \/ PresenceCall(c)
      PROVE  PresenceNext
  <2>1. PubkeyOf[c] \in Peer /\ PeerLists \subseteq SUBSET Peer
    BY SMTT(30), BrokerAssumption
  <2> QED BY ZenonT(30), <1>2, <2>1
             DEF SubscribePresence, UnsubscribePresence, ClearSubscriber,
                 PresenceCall, PresenceNext
<1>3. ASSUME NEW c \in Conn, TaskStep(c) PROVE [PresenceNext]_presenceVars
  BY ZenonT(30), <1>2, <1>3, TaskPresenceSame DEF TaskStep
<1>4. ASSUME NEW c \in Conn, ClientStep(c) PROVE [PresenceNext]_presenceVars
  BY ZenonT(30), <1>2, <1>4, ClientPresenceSame DEF ClientStep
<1> QED BY ZenonT(30), <1>1, <1>3, <1>4, TaskPresenceSame DEF Next, Terminated

-----------------------------------------------------------------------------
(***************************************************************************)
(* Subscribers.  A task is inside a presence call only for its own key,    *)
(* between its insert and the end of its cleanup; and a key that has       *)
(* subscriptions has a connection that has yet to clear them.              *)
(***************************************************************************)
MayClear(c) == pc[c] \in Registered \cup Unregistering

CallsOwn ==
    \A k \in Conn : call[k] # Idle =>
        /\ call[k].who = PubkeyOf[k]
        /\ pc[k] \in Registered \cup {"drop"}
        /\ call[k].op = "subscribe" => pc[k] \in Registered

SubscribersHere ==
    \A s \in Peer : SubscriptionsOf(s) # {} =>
        \E c \in Conn : PubkeyOf[c] = s /\ MayClear(c)

WatchInv == CallsOwn /\ SubscribersHere

\* A step that leaves the indexes alone.
LEMMA SteadyWatch ==
    ASSUME WatchInv, NEW c \in Conn, UNCHANGED presenceVars,
           \A k \in Conn \ {c} : pc'[k] = pc[k],
           \/ pc'[c] = pc[c]
           \/ call[c] = Idle
           \/ pc[c] = "first",
           MayClear(c) => MayClear(c)'
    PROVE  WatchInv'
<1>1. call[c] = Idle \/ pc'[c] = pc[c]
  BY ZenonT(30) DEF WatchInv, CallsOwn, Registered
<1>2. UNCHANGED <<call, subscriptions>>
  BY ZenonT(30) DEF presenceVars
<1>3. CallsOwn'
  BY ZenonT(30), <1>1, <1>2 DEF WatchInv, CallsOwn
<1>4. \A k \in Conn : MayClear(k) => MayClear(k)'
  BY ZenonT(30) DEF MayClear
<1>5. \A s : SubscriptionsOf(s)' = SubscriptionsOf(s)
  BY ZenonT(30), <1>2 DEF SubscriptionsOf, SetOf
<1> QED BY ZenonT(30), <1>3, <1>4, <1>5 DEF WatchInv, SubscribersHere

\* An ordinary step keeps a connection that has yet to clear.
LEMMA OrdinaryMayClear ==
    ASSUME NEW c \in Conn, Ordinary(c)
    PROVE  /\ MayClear(c) => MayClear(c)'
           /\ \A k \in Conn \ {c} : pc'[k] = pc[k]
BY ZenonT(30) DEF Ordinary, MayClear, Registered, Unregistering

\* The call of a task after a step of it: over, or the same call.
LEMMA ContinueEffect ==
    ASSUME PresenceTypeOK, NEW c \in Conn, NEW todo, NEW reap,
           Continue(c, todo, reap)
    PROVE  /\ \A k \in Conn \ {c} : call'[k] = call[k]
           /\ \/ call'[c] = Idle
              \/ call'[c].op = call[c].op /\ call'[c].who = call[c].who
BY SMTT(30) DEF Continue, PresenceTypeOK, CallOf

\* A step inside a presence call.
LEMMA PresenceCallWatch ==
    ASSUME TypeOK, WatchInv, NEW c \in Conn, PresenceCall(c)
    PROVE  WatchInv'
<1>1. UNCHANGED pc /\ PresenceTypeOK
  BY ZenonT(30) DEF PresenceCall, taskVars, TypeOK
<1>2. \E todo, reap : Continue(c, todo, reap)
  BY ZenonT(30) DEF PresenceCall, PresenceStep, SubscribeTarget, UnwatchTarget,
                    ReapTarget
<1>3. call[c] # Idle
  BY SMTT(30) DEF PresenceCall, PresenceStep, SubscribeTarget, UnwatchTarget,
                  ReapTarget, Idle, CallOf
<1>4. CallsOwn'
  BY ZenonT(30), <1>1, <1>2, <1>3, ContinueEffect DEF WatchInv, CallsOwn
<1>5. \A s \in Peer : SubscriptionsOf(s)' # {} =>
         \/ SubscriptionsOf(s) # {}
         \/ s = PubkeyOf[c] /\ pc[c] \in Registered
  <2>1. CASE SubscribeTarget(c)
    <3>1. call[c].who = PubkeyOf[c] /\ pc[c] \in Registered
      BY ZenonT(30), <1>3, <2>1 DEF SubscribeTarget, WatchInv, CallsOwn
    <3>2. PICK t : subscriptions' = [subscriptions EXCEPT
                      ![call[c].who] = SubscriptionsOf(call[c].who) \cup {t}]
      BY ZenonT(30), <2>1 DEF SubscribeTarget
    <3>3. \A s \in Peer : s # PubkeyOf[c] => subscriptions'[s] = subscriptions[s]
      BY ZenonT(30), <1>1, <3>1, <3>2 DEF PresenceTypeOK
    <3> QED BY ZenonT(30), <3>1, <3>3 DEF SubscriptionsOf, SetOf
  <2>2. CASE UnwatchTarget(c)
    <3>1. PICK t : subscriptions' = SubscriptionAfter(c, t)
      BY ZenonT(30), <2>2 DEF UnwatchTarget
    <3>2. \A s \in Peer : \/ subscriptions'[s] = subscriptions[s]
                          \/ subscriptions'[s] = SubscriptionsOf(s) \ {t}
      BY ZenonT(30), <1>1, <3>1 DEF SubscriptionAfter, PresenceTypeOK
    <3>3. ASSUME NEW s \in Peer, SubscriptionsOf(s)' # {}
          PROVE  SubscriptionsOf(s) # {}
      <4>1. CASE subscriptions'[s] = subscriptions[s]
        BY ZenonT(30), <3>3, <4>1 DEF SubscriptionsOf, SetOf
      <4>2. CASE subscriptions'[s] = SubscriptionsOf(s) \ {t}
        BY ZenonT(30), <3>3, <4>2 DEF SubscriptionsOf, SetOf
      <4> QED BY <3>2, <4>1, <4>2
    <3> QED BY ZenonT(30), <3>3
  <2>3. CASE ReapTarget(c)
    BY ZenonT(30), <2>3 DEF ReapTarget, SubscriptionsOf, SetOf
  <2> QED BY ZenonT(30), <2>1, <2>2, <2>3 DEF PresenceCall, PresenceStep
<1>6. SubscribersHere'
  BY ZenonT(30), <1>1, <1>5 DEF WatchInv, SubscribersHere, MayClear
<1> QED BY <1>4, <1>6 DEF WatchInv

\* A task that starts a call for its own key.
LEMMA EnterOwn ==
    ASSUME TypeOK, WatchInv, NEW c \in Conn, NEW op, NEW todo, NEW lock,
           UNCHANGED call \/ Enter(c, op, PubkeyOf[c], todo, lock),
           call[c] = Idle,
           \A k \in Conn \ {c} : pc'[k] = pc[k],
           pc'[c] \in Registered \cup {"drop"},
           op = "subscribe" => pc'[c] \in Registered
    PROVE  CallsOwn'
<1>1. \A k \in Conn \ {c} : call'[k] = call[k]
  BY SMTT(30) DEF Enter, TypeOK, PresenceTypeOK
<1>2. \/ call'[c] = Idle
      \/ call'[c].who = PubkeyOf[c] /\ call'[c].op = op
  BY SMTT(30) DEF Enter, TypeOK, PresenceTypeOK, CallOf
<1> QED BY ZenonT(30), <1>1, <1>2 DEF WatchInv, CallsOwn

\* subscribe.
LEMMA SubscribeWatch ==
    ASSUME TypeOK, WatchInv, NEW c \in Conn, SubscribePresence(c)
    PROVE  WatchInv'
<1>1. PICK peers \in PeerLists :
        /\ BeginSubscribe(c, PubkeyOf[c], peers)
        /\ Goto(c, "online_set", <<Tell(c, Plain("ack"))>>, ToVisit(peers))
  BY ZenonT(30) DEF SubscribePresence
<1>2. pc'[c] = "online_set" /\ \A k \in Conn \ {c} : pc'[k] = pc[k]
  BY SMTT(30), <1>1, GotoEffect
<1>3. CallsOwn'
  BY ZenonT(30), <1>1, <1>2, EnterOwn DEF BeginSubscribe, Registered
<1>4. \A s \in Peer : SubscriptionsOf(s)' # {} => SubscriptionsOf(s) # {}
  BY ZenonT(30), <1>1
     DEF BeginSubscribe, SubscriptionsOf, SetOf, TypeOK, PresenceTypeOK
<1>5. \A k \in Conn : MayClear(k) => MayClear(k)'
  BY ZenonT(30), <1>2 DEF MayClear, Registered
<1> QED BY ZenonT(30), <1>3, <1>4, <1>5 DEF WatchInv, SubscribersHere

\* unsubscribe.
LEMMA UnsubscribeWatch ==
    ASSUME TypeOK, WatchInv, NEW c \in Conn, UnsubscribePresence(c)
    PROVE  WatchInv'
<1>1. PICK peers \in PeerLists : BeginUnsubscribe(c, PubkeyOf[c], peers)
  BY ZenonT(30) DEF UnsubscribePresence
<1>2. UNCHANGED pc /\ pc[c] = "pump"
  BY ZenonT(30) DEF UnsubscribePresence, Receive, taskVars
<1>3. CallsOwn'
  BY ZenonT(30), <1>1, <1>2, EnterOwn DEF BeginUnsubscribe, Registered
<1>4. UNCHANGED subscriptions
  BY ZenonT(30), <1>1 DEF BeginUnsubscribe
<1> QED BY ZenonT(30), <1>2, <1>3, <1>4
           DEF WatchInv, SubscribersHere, MayClear, SubscriptionsOf, SetOf

\* clear_subscriber takes every subscription of the key out at once.
LEMMA ClearWatch ==
    ASSUME TypeOK, WatchInv, NEW c \in Conn, ClearSubscriber(c)
    PROVE  WatchInv'
<1>1. /\ BeginClear(c, PubkeyOf[c])
      /\ Goto(c, "drop", <<>>, Dropping(Sid, {}))
  BY ZenonT(30) DEF ClearSubscriber
<1>2. pc'[c] = "drop" /\ \A k \in Conn \ {c} : pc'[k] = pc[k]
  BY SMTT(30), <1>1, GotoEffect
<1>3. CallsOwn'
  <2>1. /\ call[c] = Idle
        /\ \/ UNCHANGED call
           \/ Enter(c, "clear", PubkeyOf[c], SubscriptionsOf(PubkeyOf[c]), FALSE)
    BY ZenonT(30), <1>1 DEF BeginClear
  <2>2. pc'[c] \in Registered \cup {"drop"}
    BY ZenonT(30), <1>2
  <2>3. "clear" = "subscribe" => pc'[c] \in Registered
    OBVIOUS
  <2> QED BY ZenonT(30), <1>2, <2>1, <2>2, <2>3, EnterOwn
<1>4. \A s \in Peer : SubscriptionsOf(s)' # {} =>
         SubscriptionsOf(s) # {} /\ s # PubkeyOf[c]
  BY ZenonT(30), <1>1
     DEF BeginClear, SubscriptionsOf, SetOf, TypeOK, PresenceTypeOK
<1>5. \A k \in Conn : PubkeyOf[k] # PubkeyOf[c] /\ MayClear(k) => MayClear(k)'
  BY ZenonT(30), <1>2 DEF MayClear
<1> QED BY ZenonT(30), <1>3, <1>4, <1>5 DEF WatchInv, SubscribersHere

\* The cleanup before clear_subscriber, and after it.
LEMMA CleanupMayClear ==
    ASSUME TypeOK, NEW c \in Conn,
           \/ CheckIndex(c) \/ RemoveIndex(c) \/ CollectSession(c)
           \/ RemoveSession(c) \/ SessionsDropped(c)
    PROVE  MayClear(c) => MayClear(c)'
<1>1. CASE CheckIndex(c) \/ RemoveIndex(c)
  BY ZenonT(30), <1>1, GotoEffect
     DEF CheckIndex, RemoveIndex, MayClear, Unregistering
<1>2. CASE CollectSession(c) \/ RemoveSession(c) \/ SessionsDropped(c)
  BY ZenonT(30), <1>2 DEF CollectSession, RemoveSession, SessionsDropped,
                          MayClear, Registered, Unregistering
<1> QED BY <1>1, <1>2

\* Every step keeps a connection for every subscriber.
LEMMA NextWatch == TypeOK /\ WatchInv /\ [Next]_vars => WatchInv'
<1> SUFFICES ASSUME TypeOK, WatchInv, [Next]_vars PROVE WatchInv'
  OBVIOUS
<1>1. CASE UNCHANGED vars
  BY ZenonT(30), <1>1
     DEF vars, presenceVars, taskVars, WatchInv, CallsOwn, SubscribersHere,
         MayClear, SubscriptionsOf, SetOf
<1>2. ASSUME NEW c \in Conn, Send(c) \/ Deliver(c) \/ WriterEnd(c) \/ ClientClose(c)
      PROVE  WatchInv'
  BY ZenonT(30), <1>2, TaskPresenceSame, ClientPresenceSame, StillOrdinary,
     OrdinaryMayClear, SteadyWatch DEF ClientStep
<1>3. ASSUME NEW c \in Conn,
             \/ Answer(c) \/ LookupPeer(c) \/ LookupHandle(c) \/ Signal(c)
             \/ ReadOnline(c) \/ OnlineSetDone(c) \/ StreamEnd(c)
      PROVE  WatchInv'
  BY ZenonT(30), <1>3, TaskPresenceSame, ClientPresenceSame, HandlerOrdinary,
     OnlineSetOrdinary, OrdinaryMayClear, SteadyWatch
<1>4. ASSUME NEW c \in Conn,
             \/ RequestRelay(c) \/ InsertSession(c) \/ AcceptRelay(c)
             \/ AcceptInitiator(c) \/ AcceptResponder(c)
             \/ RelayFrame(c) \/ ForwardFrame(c)
      PROVE  WatchInv'
  BY ZenonT(30), <1>4, TaskPresenceSame, ClientPresenceSame, RelayOrdinary,
     OrdinaryMayClear, SteadyWatch
<1>5. ASSUME NEW c \in Conn,
             \/ Register(c) \/ RejectRegister(c) \/ ClaimHandle(c)
             \/ InsertIndex(c) \/ EndSession(c)
             \/ Snapshot(c) \/ NotifyWatcher(c) \/ BroadcastDone(c)
      PROVE  WatchInv'
  BY ZenonT(30), <1>5, TaskPresenceSame, ClientPresenceSame, OutsideOrdinary,
     BroadcastOrdinary, OrdinaryMayClear, SteadyWatch
<1>6. ASSUME NEW c \in Conn,
             \/ CheckIndex(c) \/ RemoveIndex(c) \/ CollectSession(c)
             \/ RemoveSession(c) \/ SessionsDropped(c)
      PROVE  WatchInv'
  BY ZenonT(30), <1>6, TaskPresenceSame, CleanupEffect, CleanupMayClear,
     SteadyWatch
<1>7. ASSUME NEW c \in Conn, InsertPeer(c) \/ RemovePeer(c) PROVE WatchInv'
  <2>1. MayClear(c)' /\ \A k \in Conn \ {c} : pc'[k] = pc[k]
    BY ZenonT(30), <1>7, InsertPeerEffect, RemovePeerEffect
       DEF MayClear, Registered
  <2> QED BY ZenonT(30), <1>7, <2>1, TaskPresenceSame, SteadyWatch
<1>8. ASSUME NEW c \in Conn, TaskStep(c) PROVE WatchInv'
  BY ZenonT(30), <1>2, <1>3, <1>4, <1>5, <1>6, <1>7, <1>8, PresenceCallWatch,
     ClearWatch DEF TaskStep
<1>9. ASSUME NEW c \in Conn, ClientStep(c) PROVE WatchInv'
  BY ZenonT(30), <1>2, <1>3, <1>4, <1>5, <1>9, SubscribeWatch, UnsubscribeWatch
     DEF ClientStep
<1> QED BY ZenonT(30), <1>1, <1>2, <1>8, <1>9 DEF Next, Terminated

\* A watcher that is no ghost has a connection.
LEMMA WatchersHere ==
    ASSUME TypeOK, WatchInv, NoGhostWatcher
    PROVE  WatchersConnected
<1> SUFFICES ASSUME NEW t \in Peer, NEW s \in WatchersOf(t)
             PROVE  \E c \in Conn : PubkeyOf[c] = s /\ MayWatch(c)
  BY ZenonT(30) DEF WatchersConnected
<1>1. s \in Peer
  BY SMTT(30) DEF TypeOK, PresenceTypeOK, WatchersOf, SetOf
<1>2. CASE t \in SubscriptionsOf(s)
  BY ZenonT(30), <1>1, <1>2 DEF WatchInv, SubscribersHere, MayClear, MayWatch
<1>3. ASSUME NEW k \in Conn, Clearing(k, s, t)
      PROVE  PubkeyOf[k] = s /\ MayWatch(k)
  <2>1. call[k] # Idle
    BY SMTT(30), <1>3 DEF Clearing, Idle, CallOf
  <2> QED BY ZenonT(30), <1>3, <2>1 DEF Clearing, WatchInv, CallsOwn, MayWatch
<1> QED BY ZenonT(30), <1>2, <1>3 DEF NoGhostWatcher

-----------------------------------------------------------------------------
(***************************************************************************)
(* Reachability.  A connection that shares its key with no other has its   *)
(* own entry; one that shares it has some entry until an overlap.          *)
(***************************************************************************)
SessionsOnline ==
    \A c \in Conn :
        OnlyConnection(c) /\ pc[c] \in Registered => by_pubkey[PubkeyOf[c]] = c

OnlineInv == SessionsOnline /\ OnlineUnlessOverlapped

\* No step forgets an overlap.
LEMMA OverlapsGrow ==
    ASSUME [Next]_vars
    PROVE  overlapped \subseteq overlapped'
<1>1. CASE UNCHANGED vars
  BY ZenonT(30), <1>1 DEF vars, news
<1>2. ASSUME NEW c \in Conn, TaskStep(c) PROVE overlapped \subseteq overlapped'
  BY ZenonT(30), <1>2
     DEF TaskStep, Send, Record, PresenceCall, ClaimHandle, InsertIndex, InsertPeer,
         Snapshot, NotifyWatcher, BroadcastDone, ReadOnline, OnlineSetDone,
         InsertSession, AcceptInitiator, AcceptResponder, ForwardFrame, StreamEnd,
         RemovePeer, CheckIndex, RemoveIndex, ClearSubscriber, CollectSession,
         RemoveSession, SessionsDropped, EndSession, news
<1>3. ASSUME NEW c \in Conn, ClientStep(c) \/ Deliver(c) \/ WriterEnd(c)
      PROVE  overlapped \subseteq overlapped'
  BY ZenonT(30), <1>3
     DEF ClientStep, Register, RejectRegister, ClientClose, Answer, LookupPeer,
         LookupHandle, Signal, SubscribePresence, UnsubscribePresence, RequestRelay,
         AcceptRelay, RelayFrame, Deliver, WriterEnd, news
<1> QED BY ZenonT(30), <1>1, <1>2, <1>3 DEF Next, Terminated

\* A step that leaves the registry alone and registers nobody.
LEMMA KeptOnline ==
    ASSUME OnlineInv, NEW c \in Conn, Kept(c), UNCHANGED by_pubkey,
           \A k \in Conn \ {c} : pc'[k] = pc[k], overlapped \subseteq overlapped'
    PROVE  OnlineInv'
<1>1. SessionsOnline'
  BY ZenonT(30) DEF OnlineInv, SessionsOnline, Kept
<1>2. OnlineUnlessOverlapped'
  BY ZenonT(30) DEF OnlineInv, OnlineUnlessOverlapped, IsOnline, Kept
<1> QED BY ZenonT(30), <1>1, <1>2 DEF OnlineInv

\* The same, for an ordinary step.
LEMMA OrdinaryOnline ==
    ASSUME OnlineInv, NEW c \in Conn, Kept(c), Ordinary(c),
           overlapped \subseteq overlapped'
    PROVE  OnlineInv'
BY ZenonT(30), KeptOnline DEF Ordinary

\* And for a step that moves no task.
LEMMA SamePlacesOnline ==
    ASSUME OnlineInv, pc' = pc, UNCHANGED by_pubkey, overlapped \subseteq overlapped'
    PROVE  OnlineInv'
BY ZenonT(30) DEF OnlineInv, SessionsOnline, OnlineUnlessOverlapped, IsOnline

\* Every step leaves a registered session its entry, unless it is an overlap.
LEMMA NextOnline ==
    ASSUME TypeOK, OnlineInv, [Next]_vars
    PROVE  OnlineInv'
<1> overlapped \subseteq overlapped'
  BY OverlapsGrow
<1>1. CASE UNCHANGED vars
  BY ZenonT(30), <1>1
     DEF vars, registryVars, taskVars, OnlineInv, SessionsOnline,
         OnlineUnlessOverlapped, IsOnline
<1>2. ASSUME NEW c \in Conn,
             \/ Send(c) \/ PresenceCall(c) \/ Deliver(c) \/ WriterEnd(c)
             \/ ClientClose(c) \/ UnsubscribePresence(c)
      PROVE  OnlineInv'
  <2>1. pc' = pc
    BY ZenonT(30), <1>2 DEF Send, PresenceCall, Deliver, WriterEnd, ClientClose,
                            UnsubscribePresence, taskVars
  <2> QED BY ZenonT(30), <1>2, <2>1, StillOrdinary, SamePlacesOnline DEF Ordinary
<1>3. ASSUME NEW c \in Conn,
             \/ Answer(c) \/ LookupPeer(c) \/ LookupHandle(c) \/ Signal(c)
             \/ SubscribePresence(c) \/ ReadOnline(c) \/ OnlineSetDone(c)
             \/ StreamEnd(c)
      PROVE  OnlineInv'
  BY ZenonT(30), <1>3, HandlerKept, RegisteredKept, HandlerOrdinary,
     OnlineSetOrdinary, OrdinaryOnline
<1>4. ASSUME NEW c \in Conn,
             \/ RequestRelay(c) \/ InsertSession(c) \/ AcceptRelay(c)
             \/ AcceptInitiator(c) \/ AcceptResponder(c)
             \/ RelayFrame(c) \/ ForwardFrame(c)
      PROVE  OnlineInv'
  BY ZenonT(30), <1>4, RelayOrdinary, RegisteredKept, OrdinaryOnline
<1>5. ASSUME NEW c \in Conn,
             \/ Register(c) \/ RejectRegister(c) \/ InsertIndex(c) \/ EndSession(c)
             \/ Snapshot(c) \/ NotifyWatcher(c) \/ BroadcastDone(c)
      PROVE  OnlineInv'
  BY ZenonT(30), <1>5, OutsideKept, OutsideOrdinary, BroadcastKept,
     BroadcastOrdinary, OrdinaryOnline
<1>6. ASSUME NEW c \in Conn, ClaimHandle(c) PROVE OnlineInv'
  <2>1. SessionsOnline'
    BY ZenonT(30), <1>6, ClaimKept, OutsideOrdinary
       DEF Ordinary, OnlineInv, SessionsOnline
  <2>2. OnlineUnlessOverlapped'
    BY ZenonT(30), <1>6, ClaimKept, OutsideOrdinary
       DEF Ordinary, OnlineInv, OnlineUnlessOverlapped, IsOnline
  <2> QED BY <2>1, <2>2 DEF OnlineInv
<1>7. ASSUME NEW c \in Conn,
             \/ CheckIndex(c) \/ RemoveIndex(c) \/ ClearSubscriber(c)
             \/ CollectSession(c) \/ RemoveSession(c) \/ SessionsDropped(c)
      PROVE  OnlineInv'
  BY ZenonT(30), <1>7, CleanupKept, CleanupEffect, KeptOnline
<1>8. ASSUME NEW c \in Conn, InsertPeer(c) \/ RemovePeer(c)
      PROVE  SessionsOnline'
  <2>1. PubkeyOf \in [Conn -> Peer] /\ by_pubkey \in [Peer -> Conn \cup {None}]
    BY ZenonT(30), BrokerAssumption DEF TypeOK, RegistryTypeOK
  <2>2. ASSUME NEW k \in Conn \ {c}, OnlyConnection(k)
        PROVE  by_pubkey'[PubkeyOf[k]] = by_pubkey[PubkeyOf[k]] /\ pc'[k] = pc[k]
    <3>1. PubkeyOf[k] \in Peer /\ PubkeyOf[k] # PubkeyOf[c]
      BY SMTT(30), <2>1, <2>2 DEF OnlyConnection
    <3>2. \E v : by_pubkey' = [by_pubkey EXCEPT ![PubkeyOf[c]] = v]
      BY ZenonT(30), <1>8, InsertPeerEffect, RemovePeerEffect
    <3>3. pc'[k] = pc[k]
      BY ZenonT(30), <1>8, <2>2, InsertPeerEffect, RemovePeerEffect
    <3> QED BY SMTT(30), <2>1, <3>1, <3>2, <3>3
  <2>3. pc'[c] \in Registered => by_pubkey'[PubkeyOf[c]] = c
    <3>1. CASE InsertPeer(c)
      BY ZenonT(30), <2>1, <3>1, InsertPeerEffect
    <3>2. CASE RemovePeer(c)
      BY ZenonT(30), <3>2, RemovePeerEffect DEF Registered, Unregistering
    <3> QED BY <1>8, <3>1, <3>2
  <2> QED BY ZenonT(30), <2>2, <2>3 DEF OnlineInv, SessionsOnline
<1>9. ASSUME NEW c \in Conn, InsertPeer(c) \/ RemovePeer(c)
      PROVE  OnlineUnlessOverlapped'
  <2> SUFFICES ASSUME NEW k \in Conn, pc'[k] \in Registered, k \notin overlapped'
               PROVE  by_pubkey'[PubkeyOf[k]] # None
    BY ZenonT(30) DEF OnlineUnlessOverlapped, IsOnline
  <2>1. /\ PubkeyOf[k] \in Peer /\ PubkeyOf[c] \in Peer
        /\ by_pubkey \in [Peer -> Conn \cup {None}]
    BY ZenonT(30), BrokerAssumption DEF TypeOK, RegistryTypeOK
  <2>2. k # c => by_pubkey[PubkeyOf[k]] # None
    BY ZenonT(30), <1>9, InsertPeerEffect, RemovePeerEffect
       DEF OnlineInv, OnlineUnlessOverlapped, IsOnline
  <2>3. CASE InsertPeer(c)
    <3>1. by_pubkey' = [by_pubkey EXCEPT ![PubkeyOf[c]] = c]
      BY ZenonT(30), <2>3, InsertPeerEffect
    <3> QED BY SMTT(30), <2>1, <2>2, <3>1, NoneAssumption
  <2>4. CASE RemovePeer(c)
    <3>1. by_pubkey' = [by_pubkey EXCEPT ![PubkeyOf[c]] = None]
      BY ZenonT(30), <2>4, RemovePeerEffect
    <3>2. k # c
      BY SMTT(30), <2>4, RemovePeerEffect DEF Registered, Unregistering
    <3>3. PubkeyOf[k] # PubkeyOf[c]
      <4>1. pc[k] \in Registered
        BY ZenonT(30), <2>4, <3>2, RemovePeerEffect
      <4> QED BY ZenonT(30), <2>4, <3>2, <4>1 DEF RemovePeer, OthersOf
    <3> QED BY SMTT(30), <2>1, <2>2, <3>1, <3>2, <3>3
  <2> QED BY <1>9, <2>3, <2>4
<1>10. ASSUME NEW c \in Conn, InsertPeer(c) \/ RemovePeer(c) PROVE OnlineInv'
  BY ZenonT(30), <1>8, <1>9, <1>10 DEF OnlineInv
<1>11. ASSUME NEW c \in Conn, TaskStep(c) PROVE OnlineInv'
  BY ZenonT(30), <1>2, <1>3, <1>4, <1>5, <1>6, <1>7, <1>10, <1>11 DEF TaskStep
<1>12. ASSUME NEW c \in Conn, ClientStep(c) PROVE OnlineInv'
  BY ZenonT(30), <1>2, <1>3, <1>4, <1>5, <1>12 DEF ClientStep
<1> QED BY ZenonT(30), <1>1, <1>2, <1>11, <1>12 DEF Next, Terminated
=============================================================================
