--------------------------- MODULE BrokerTheorems ---------------------------
(***************************************************************************)
(* What the broker guarantees, for every value of its constants: the step  *)
(* lemmas of BrokerSafety, WatchProofs and RelayProofs take type           *)
(* correctness as given, BrokerProofs proves it, and here they meet.       *)
(***************************************************************************)
EXTENDS BrokerProofs, BrokerSafety, WatchProofs, RelayProofs

\* Every step keeps the broker well typed.
LEMMA NextType == TypeOK /\ [Next]_vars => TypeOK'
<1> SUFFICES ASSUME TypeOK, [Next]_vars PROVE TypeOK'
  OBVIOUS
<1>1. ASSUME NEW c \in Conn, TaskStep(c) PROVE TypeOK'
  BY ZenonT(30), <1>1, SendStepType, PresenceCallType, ClaimHandleType,
     InsertIndexType, InsertPeerType, SnapshotType, NotifyWatcherType,
     BroadcastDoneType, ReadOnlineType, OnlineSetDoneType, InsertSessionType,
     AcceptInitiatorType, AcceptResponderType, ForwardFrameType, StreamEndType,
     RemovePeerType, CheckIndexType, RemoveIndexType, ClearSubscriberType,
     CollectSessionType, RemoveSessionType, SessionsDroppedType, EndSessionType
     DEF TaskStep
<1>2. ASSUME NEW c \in Conn, ClientStep(c) PROVE TypeOK'
  BY ZenonT(30), <1>2, RegisterType, RejectRegisterType, ClientCloseType,
     AnswerType, LookupPeerType, LookupHandleType, SignalType,
     SubscribePresenceType, UnsubscribePresenceType, RequestRelayType,
     AcceptRelayType, RelayFrameType DEF ClientStep
<1> QED
  BY <1>1, <1>2, DeliverType, WriterEndType, StutterType DEF Next, Terminated

(***************************************************************************)
(* Type correctness of the broker.  Besides the types it says that a       *)
(* handler finds set the locals it left for itself before an await, and    *)
(* that a channel never holds more than its capacity.                      *)
(***************************************************************************)
THEOREM TypeCorrect == Spec => []TypeOK
BY InitType, NextType, PTL DEF Spec

(***************************************************************************)
(* A registry entry leads to a session of its key that has inserted itself *)
(* and has not yet run registry.remove, however many connections share a   *)
(* key: insert replaces and remove takes out an entry of another           *)
(* connection, and still none of an ended session stays behind.            *)
(***************************************************************************)
THEOREM RegistryLive == Spec => []RegistryEntriesLive
<1>1. Init => RegistryEntriesLive
  BY DEF Init, RegistryInit, RegistryEntriesLive, IsOnline
<1> QED BY <1>1, NextLive, TypeCorrect, PTL DEF Spec

(***************************************************************************)
(* Every relay session in the map has a connection of its initiator that   *)
(* has yet to drop it: RelayManager::request runs inside the initiator's   *)
(* own pump, so the session it inserts is there when that connection runs  *)
(* drop_sessions_for.  Sessions do not outlive their initiators, for any   *)
(* number of connections, of sessions and of messages.                     *)
(***************************************************************************)
THEOREM RelayAttention == Spec => []RelaySessionsAttended
<1>1. Init => RelaySessionsAttended
  BY DEF Init, RelayInit, RelaySessionsAttended
<1> QED BY <1>1, NextAttended, TypeCorrect, PTL DEF Spec

(***************************************************************************)
(* A relay frame is only ever queued for a connection whose key is the     *)
(* other party of a session that its responder accepted, although forward  *)
(* drops the session's guard before it looks the recipient up and sends,   *)
(* and the session or the recipient's connection may be gone by then.      *)
(***************************************************************************)
THEOREM Consent == Spec => []RelayConsent
<1>1. ConsentInv => RelayConsent
  BY DEF ConsentInv
<1> QED BY <1>1, InitConsent, NextConsent, TypeCorrect, RegistryLive, PTL DEF Spec

(***************************************************************************)
(* The broker's tasks use the presence indexes as module PresenceManager   *)
(* lets its callers use them: whatever it guarantees holds in the broker.  *)
(***************************************************************************)
THEOREM BrokerPresence == Spec => PresenceSpec
<1>1. Init => PresenceInit
  BY DEF Init
<1> QED BY <1>1, PresenceNextStep, PTL DEF Spec, PresenceSpec

\* So broadcast finds no ghost watcher in the running broker either.
THEOREM BrokerNoGhost == Spec => []NoGhostWatcher
BY BrokerPresence, PresenceNoGhost, PTL

\* Subscriptions are those of connected sessions, made by their own tasks.
LEMMA WatchStays == Spec => []WatchInv
<1>1. Init => WatchInv
  BY DEF Init, PresenceInit, WatchInv, CallsOwn, SubscribersHere,
         SubscriptionsOf, SetOf
<1> QED BY <1>1, NextWatch, TypeCorrect, PTL DEF Spec

(***************************************************************************)
(* Every watcher has a connection that has yet to finish clear_subscriber: *)
(* a call runs for the key of its own connection, and the last of them to  *)
(* clear a key takes out every subscription there is.                      *)
(***************************************************************************)
THEOREM WatchersStay == Spec => []WatchersConnected
<1>1. TypeOK /\ WatchInv /\ NoGhostWatcher => WatchersConnected
  BY WatchersHere
<1> QED BY <1>1, WatchStays, TypeCorrect, BrokerNoGhost, PTL

\* Sessions are in the registry, alone on their key or not overlapped.
LEMMA SessionsStay == Spec => []OnlineInv
<1>1. Init => OnlineInv
  BY DEF Init, OnlineInv, SessionsOnline, OnlineUnlessOverlapped, Registered
<1>2. TypeOK /\ OnlineInv /\ [Next]_vars => OnlineInv'
  BY NextOnline
<1> QED BY <1>1, <1>2, TypeCorrect, PTL DEF Spec

(***************************************************************************)
(* A watcher that is connected, by one connection only, ends up told of    *)
(* every peer it watches: once no task is still to tell it anything, it    *)
(* was told of the peer's present state after the peer last came or went.  *)
(* No update is lost between subscribe, the reads that follow it, and the  *)
(* broadcasts of peers that come and go meanwhile.                         *)
(***************************************************************************)
THEOREM WatchersTold == Spec => []WatcherTold
<1>1. TypeOK /\ WatchInv /\ WatchersConnected /\ SessionsOnline /\ UpdateInv
        /\ SubscribeInv /\ ToldInv /\ [Next]_vars => ToldInv'
  BY NextTold DEF WatchInv
<1>2. TypeOK /\ UpdateInv /\ ToldInv => WatcherTold
  BY SettledTold
<1>3. OnlineInv => SessionsOnline
  BY DEF OnlineInv
<1> QED BY <1>1, <1>2, <1>3, InitTold, NextUpdates, NextSubscribe, TypeCorrect, WatchStays,
           WatchersStay, SessionsStay, PTL DEF Spec

(***************************************************************************)
(* The handle index never names a key that does not own the handle: the    *)
(* table changes owner only from nobody, before the index is written.      *)
(***************************************************************************)
THEOREM IndexOwned == Spec => []HandleIndexOwned
<1>1. Init => IndexInv
  BY DEF Init, RegistryInit, IndexInv, HandleIndexOwned
<1>2. IndexInv => HandleIndexOwned
  BY DEF IndexInv
<1> QED BY <1>1, <1>2, NextIndex, TypeCorrect, PTL DEF Spec

\* What each session's claim was answered, as the table of owners records it.
Granted == [c \in Conn |-> IF claimed[c] THEN <<PubkeyOf[c], HandleOf[c]>> ELSE None]

Table == INSTANCE HandleTable WITH Task <- Conn, outcome <- Granted

\* Only a claim changes the handles table or what a session thinks it owns.
LEMMA OthersKeepTable ==
    ASSUME NEW c \in Conn,
           (TaskStep(c) /\ ~ClaimHandle(c)) \/ ClientStep(c) \/ Deliver(c) \/ WriterEnd(c)
    PROVE  UNCHANGED <<owner, claimed>>
<1>1. CASE TaskStep(c) /\ ~ClaimHandle(c)
  BY ZenonT(30), <1>1
     DEF TaskStep, Send, PresenceCall, InsertIndex, InsertPeer, Snapshot, NotifyWatcher,
         BroadcastDone, ReadOnline, OnlineSetDone, InsertSession, AcceptInitiator,
         AcceptResponder, ForwardFrame, StreamEnd, RemovePeer, CheckIndex, RemoveIndex,
         ClearSubscriber, CollectSession, RemoveSession, SessionsDropped, EndSession,
         dbVars
<1>2. CASE ClientStep(c)
  BY ZenonT(30), <1>2
     DEF ClientStep, Register, RejectRegister, ClientClose, Answer, LookupPeer,
         LookupHandle, Signal, SubscribePresence, UnsubscribePresence, RequestRelay,
         AcceptRelay, RelayFrame, dbVars
<1>3. CASE Deliver(c) \/ WriterEnd(c)
  BY ZenonT(30), <1>3 DEF Deliver, WriterEnd, dbVars
<1> QED BY <1>1, <1>2, <1>3

\* The claim of a registration is granted or refused by the table.
LEMMA ClaimIsGrant ==
    ASSUME TypeOK, NEW c \in Conn, ClaimHandle(c)
    PROVE  [Table!TableNext]_Table!tableVars
<1>1. HandleOf[c] \in Handle /\ PubkeyOf[c] \in Peer
  BY WantsHandle DEF ClaimHandle
<1>2. CASE UNCHANGED dbVars
  BY ZenonT(30), <1>2 DEF dbVars, Granted, Table!tableVars
<1>3. CASE /\ owner[HandleOf[c]] \in {None, PubkeyOf[c]}
           /\ owner' = [owner EXCEPT ![HandleOf[c]] = PubkeyOf[c]]
           /\ claimed' = claimed \/ claimed' = [claimed EXCEPT ![c] = TRUE]
  <2>1. claimed \in [Conn -> BOOLEAN]
    BY DEF TypeOK
  <2>2. \E answer \in {None, <<PubkeyOf[c], HandleOf[c]>>} :
          Granted' = [Granted EXCEPT ![c] = answer]
    <3>1. CASE claimed' = claimed
      <4>1. /\ Granted' = Granted
            /\ Granted[c] \in {None, <<PubkeyOf[c], HandleOf[c]>>}
        BY <3>1 DEF Granted
      <4>2. Granted = [Granted EXCEPT ![c] = Granted[c]]
        BY DEF Granted
      <4> QED BY ZenonT(30), <4>1, <4>2
    <3>2. CASE claimed' = [claimed EXCEPT ![c] = TRUE]
      <4>1. Granted' = [Granted EXCEPT ![c] = <<PubkeyOf[c], HandleOf[c]>>]
        BY <2>1, <3>2 DEF Granted
      <4> QED BY ZenonT(30), <4>1
    <3> QED BY <1>3, <3>1, <3>2
  <2>3. Table!Grant(c, PubkeyOf[c], HandleOf[c])
    BY ZenonT(30), <1>3, <2>2 DEF Table!Grant
  <2> QED BY ZenonT(30), <1>1, <2>3 DEF Table!TableNext
<1> QED BY ZenonT(30), <1>2, <1>3 DEF ClaimHandle, dbVars

(***************************************************************************)
(* The broker's registrations use the handles table as HandleTable has it, *)
(* which is what the transactions of claim_handle implement: what a        *)
(* session holds in its PeerHandle was granted to it, and no session,      *)
(* through failures, reconnects and cleanups, takes a handle from a key.   *)
(***************************************************************************)
THEOREM BrokerClaims == Spec => Table!TableSpec
<1>1. Init => Table!TableInit
  BY DEF Init, Granted, Table!TableInit
<1>2. TypeOK /\ [Next]_vars => [Table!TableNext]_Table!tableVars
  <2> SUFFICES ASSUME TypeOK, [Next]_vars PROVE [Table!TableNext]_Table!tableVars
    OBVIOUS
  <2>1. ASSUME UNCHANGED <<owner, claimed>> PROVE UNCHANGED Table!tableVars
    BY ZenonT(30), <2>1 DEF Granted, Table!tableVars
  <2>2. CASE UNCHANGED vars
    BY ZenonT(30), <2>1, <2>2 DEF vars, dbVars
  <2>3. ASSUME NEW c \in Conn,
               TaskStep(c) \/ ClientStep(c) \/ Deliver(c) \/ WriterEnd(c)
        PROVE  [Table!TableNext]_Table!tableVars
    BY ZenonT(30), <2>1, <2>3, OthersKeepTable, ClaimIsGrant
  <2> QED BY ZenonT(30), <2>2, <2>3 DEF Next, Terminated
<1> QED BY <1>1, <1>2, TypeCorrect, PTL DEF Spec, Table!TableSpec

(***************************************************************************)
(* Only an overlap makes a connected client unreachable.  However many     *)
(* connections a key has, and in whatever order they are refused, register *)
(* and end, a registered session finds its key in the registry until       *)
(* another connection of the key, registered at the same time, runs        *)
(* registry.remove on the entry they share.                                *)
(***************************************************************************)
THEOREM OverlapsOnly == Spec => []OnlineUnlessOverlapped
<1>1. OnlineInv => OnlineUnlessOverlapped
  BY DEF OnlineInv
<1> QED BY <1>1, SessionsStay, PTL
=============================================================================
