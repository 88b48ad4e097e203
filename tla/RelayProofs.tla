----------------------------- MODULE RelayProofs -----------------------------
(***************************************************************************)
(* Relay frames reach only the other party of a session that its responder *)
(* accepted, for every value of the constants.                             *)
(*                                                                         *)
(* RelayConsent speaks of frames on their way.  It becomes inductive with  *)
(* what makes a frame legitimate: an active session has been consented to, *)
(* and a task about to forward has seen such a session.  The frame goes to *)
(* whatever connection the registry holds then, which is one of the right  *)
(* key because of RegistryEntriesLive.  The types of the relay actions are *)
(* at the end.                                                             *)
(***************************************************************************)
EXTENDS BrokerProofs

ActiveConsented ==
    \A i \in Sid :
        sessions[i] # None /\ sessions[i].state = "active" =>
            <<i, sessions[i].initiator, sessions[i].responder>> \in consents

\* p and q are the two parties of a session i that was accepted.
Linked(i, p, q) == <<i, p, q>> \in consents \/ <<i, q, p>> \in consents

ForwardingConsented ==
    \A c \in Conn :
        pc[c] = "forward" => Linked(loc[c].sid, PubkeyOf[c], loc[c].target)

ConsentInv == RelayConsent /\ ActiveConsented /\ ForwardingConsented

-----------------------------------------------------------------------------
(***************************************************************************)
(* Frames on their way: a step puts no frame of its own among the sends.   *)
(***************************************************************************)
NoNewFrame ==
    \A k \in Conn : \A n \in DOMAIN out'[k] :
        out'[k][n].msg.kind = "data" =>
            n \in DOMAIN out[k] /\ out'[k][n] = out[k][n]

Frameless(sends) == \A n \in DOMAIN sends : sends[n].msg.kind # "data"

\* The sends of every handler but forward hold no frame.
LEMMA FramelessSends ==
    ASSUME NEW d, NEW e, NEW p, NEW q, NEW i, NEW online
    PROVE  /\ Frameless(<<>>)
           /\ Frameless(<<Tell(d, Plain("error"))>>)
           /\ Frameless(<<Tell(d, Plain("registered"))>>)
           /\ Frameless(<<Tell(d, Plain("reply"))>>)
           /\ Frameless(<<Tell(d, Plain("ack"))>>)
           /\ Frameless(<<Tell(d, PeerInfo(p))>>)
           /\ Frameless(<<Tell(d, PresenceUpdate(p, online))>>)
           /\ Frameless(<<TellOrFail(d, SignalFrom(p))>>)
           /\ Frameless(<<TellOrFail(d, RelayMsg("offer", i, p)),
                          Tell(e, RelayMsg("established", i, q))>>)
           /\ Frameless(<<TellOrFail(d, RelayMsg("established", i, p)),
                          TellOrFail(e, RelayMsg("established", i, q))>>)
BY SMTT(30)
   DEF Frameless, Tell, TellOrFail, Plain, PeerInfo, PresenceUpdate,
       SignalFrom, RelayMsg

\* A task that moves with frameless sends adds no frame.
LEMMA GotoNoFrame ==
    ASSUME TypeOK, NEW c \in Conn, NEW label, NEW sends, NEW locals,
           Goto(c, label, sends, locals), Frameless(sends)
    PROVE  NoNewFrame
BY SMTT(30), GotoEffect DEF NoNewFrame, Frameless

\* Nor does a handler that returns with such sends.
LEMMA FinishNoFrame ==
    ASSUME TypeOK, NEW c \in Conn, NEW sends, Finish(c, sends), Frameless(sends)
    PROVE  NoNewFrame
BY SMTT(30), GotoNoFrame DEF Finish

\* Nor does one that answers with an error.
LEMMA FailNoFrame ==
    ASSUME TypeOK, NEW c \in Conn, Fail(c)
    PROVE  NoNewFrame
BY ZenonT(30), FinishNoFrame, FramelessSends DEF Fail

\* Nor does a step that leaves the sends alone.
LEMMA StillNoFrame ==
    ASSUME UNCHANGED out
    PROVE  NoNewFrame
BY DEF NoNewFrame

-----------------------------------------------------------------------------
(***************************************************************************)
(* Steps that neither queue a frame nor set out to forward one.            *)
(***************************************************************************)
Silent ==
    /\ NoNewFrame
    /\ UNCHANGED chan
    /\ \A k \in Conn : pc'[k] = "forward" => pc[k] = "forward" /\ loc'[k] = loc[k]

\* A task that moves anywhere but to forward, with frameless sends, is silent.
LEMMA GotoSilent ==
    ASSUME TypeOK, NEW c \in Conn, NEW label, NEW sends, NEW locals,
           Goto(c, label, sends, locals), Frameless(sends), label # "forward",
           UNCHANGED chan
    PROVE  Silent
BY SMTT(30), GotoNoFrame, GotoEffect DEF Silent

\* So is a handler that returns.
LEMMA FinishSilent ==
    ASSUME TypeOK, NEW c \in Conn, NEW sends, Finish(c, sends), Frameless(sends),
           UNCHANGED chan
    PROVE  Silent
BY SMTT(30), GotoSilent DEF Finish

\* So is one that answers with an error.
LEMMA FailSilent ==
    ASSUME TypeOK, NEW c \in Conn, Fail(c), UNCHANGED chan
    PROVE  Silent
BY ZenonT(30), FinishSilent, FramelessSends DEF Fail

\* Silent: the presence calls, unsubscribe and the client that closes.
LEMMA IdleSilent ==
    ASSUME TypeOK, NEW c \in Conn,
           PresenceCall(c) \/ ClientClose(c) \/ UnsubscribePresence(c)
    PROVE  Silent /\ UNCHANGED <<sessions, consents>>
BY SMTT(30), StillNoFrame
   DEF PresenceCall, ClientClose, UnsubscribePresence, Silent,
   relayVars, taskVars, netVars

\* Silent: serve_socket up to the pump.
LEMMA StartSilent ==
    ASSUME TypeOK, NEW c \in Conn,
           \/ Register(c) \/ RejectRegister(c) \/ ClaimHandle(c)
           \/ InsertIndex(c) \/ InsertPeer(c)
    PROVE  Silent /\ UNCHANGED <<sessions, consents>>
<1>1. UNCHANGED <<chan, sessions, consents>>
  BY SMTT(30)
     DEF Register, RejectRegister, ClaimHandle, InsertIndex, InsertPeer,
         relayVars, netVars
<1>2. \E label \in Labels \ {"forward"},
         sends \in {<<>>, <<Tell(c, Plain("error"))>>, <<Tell(c, Plain("registered"))>>} :
           Goto(c, label, sends, NoLocals)
  BY SMTT(30)
     DEF Register, RejectRegister, ClaimHandle, InsertIndex, InsertPeer,
         Labels, Registered
<1> QED BY ZenonT(30), <1>1, <1>2, FramelessSends, GotoSilent

\* Silent: the broadcasts.
LEMMA BroadcastSilent ==
    ASSUME TypeOK, NEW c \in Conn,
           Snapshot(c) \/ NotifyWatcher(c) \/ BroadcastDone(c)
    PROVE  Silent /\ UNCHANGED <<sessions, consents>>
<1>1. UNCHANGED <<chan, sessions, consents>>
  BY SMTT(30) DEF Snapshot, NotifyWatcher, BroadcastDone, relayVars, netVars
<1>2. \A w : Frameless(Notify(c, w))
  BY ZenonT(30), FramelessSends DEF Notify
<1>3. \E label \in {"online", "offline", "pump", "drain"} : \E sends, locals :
         Frameless(sends) /\ Goto(c, label, sends, locals)
  BY ZenonT(30), <1>2, FramelessSends DEF Snapshot, NotifyWatcher, BroadcastDone
<1> QED BY SMTT(30), <1>1, <1>3, GotoSilent

\* Silent: the lookups and the signals.
LEMMA AnswerSilent ==
    ASSUME TypeOK, NEW c \in Conn,
           Answer(c) \/ LookupPeer(c) \/ LookupHandle(c) \/ Signal(c)
    PROVE  Silent /\ UNCHANGED <<sessions, consents>>
<1>1. UNCHANGED <<chan, sessions, consents>>
  BY SMTT(30) DEF Answer, LookupPeer, LookupHandle, Signal, relayVars, netVars
<1>2. Fail(c) \/ \E sends : Frameless(sends) /\ Finish(c, sends)
  BY ZenonT(30), FramelessSends DEF Answer, LookupPeer, LookupHandle, Signal
<1> QED BY SMTT(30), <1>1, <1>2, FinishSilent, FailSilent

\* Silent: the subscription snapshot.
LEMMA OnlineSetSilent ==
    ASSUME TypeOK, NEW c \in Conn,
           SubscribePresence(c) \/ ReadOnline(c) \/ OnlineSetDone(c)
    PROVE  Silent /\ UNCHANGED <<sessions, consents>>
<1>1. UNCHANGED <<chan, sessions, consents>>
  BY SMTT(30)
     DEF SubscribePresence, ReadOnline, OnlineSetDone, relayVars, netVars
<1>2. CASE SubscribePresence(c)
  BY ZenonT(30), <1>1, <1>2, FramelessSends, GotoSilent DEF SubscribePresence
<1>3. CASE ReadOnline(c)
  <2>1. PICK p \in loc[c].todo :
          Goto(c, "online_set",
               Append(out[c], Tell(c, PresenceUpdate(p, IsOnline(p)))),
               ToVisit(loc[c].todo \ {p}))
    BY SMTT(30), <1>3 DEF ReadOnline
  <2> DEFINE s == Tell(c, PresenceUpdate(p, IsOnline(p)))
  <2>2. s.msg.kind # "data" /\ s \in PendingSend
    BY ZenonT(30), <2>1, PresenceUpdateType, SendType
    DEF Tell, PresenceUpdate, IsOnline, TypeOK, Locals
  <2>3. /\ out'[c] = Append(out[c], s) /\ out[c] \in Seq(PendingSend)
        /\ \A k \in Conn \ {c} : out'[k] = out[k]
    BY SMTT(30), <2>1 DEF Goto, TypeOK
  <2> HIDE DEF s
  <2>4. NoNewFrame
    BY SMTT(30), <2>2, <2>3 DEF NoNewFrame
  <2> QED BY SMTT(30), <1>1, <2>1, <2>4, GotoEffect DEF Silent
<1>4. CASE OnlineSetDone(c)
  <2>1. out' = out
    BY SMTT(30), <1>4 DEF OnlineSetDone, Goto, TypeOK
  <2> QED BY <1>1, <1>4, <2>1, StillNoFrame, GotoEffect DEF OnlineSetDone, Silent
<1> QED BY SMTT(30), <1>2, <1>3, <1>4

\* Silent: serve_socket after the pump.
LEMMA CleanupSilent ==
    ASSUME TypeOK, NEW c \in Conn,
           \/ StreamEnd(c) \/ RemovePeer(c) \/ CheckIndex(c) \/ RemoveIndex(c)
           \/ ClearSubscriber(c) \/ CollectSession(c) \/ RemoveSession(c)
           \/ SessionsDropped(c) \/ EndSession(c)
    PROVE  Silent /\ UNCHANGED consents
<1>1. UNCHANGED <<chan, consents>>
  BY ZenonT(30)
     DEF StreamEnd, RemovePeer, CheckIndex, RemoveIndex, ClearSubscriber,
         CollectSession, RemoveSession, DropSession, SessionsDropped,
         EndSession, relayVars, netVars
<1>2. \E label \in {"remove", "unindex_check", "unindex", "clear", "drop",
                    "withdraw", "closed"} : \E locals : Goto(c, label, <<>>, locals)
  BY ZenonT(30)
     DEF StreamEnd, RemovePeer, CheckIndex, RemoveIndex, ClearSubscriber,
         CollectSession, RemoveSession, SessionsDropped, EndSession
<1> QED BY ZenonT(30), <1>1, <1>2, FramelessSends, GotoSilent

\* Silent: the relay handlers other than forward.
LEMMA RelaySilent ==
    ASSUME TypeOK, NEW c \in Conn,
           \/ RequestRelay(c) \/ InsertSession(c) \/ AcceptRelay(c)
           \/ AcceptInitiator(c) \/ AcceptResponder(c)
    PROVE  Silent
<1>1. UNCHANGED chan
  BY ZenonT(30) DEF RequestRelay, InsertSession, AcceptRelay, AcceptInitiator,
         AcceptResponder, netVars
<1>2. CASE RequestRelay(c)
  BY ZenonT(30), <1>1, <1>2, FramelessSends, GotoSilent, FailSilent
     DEF RequestRelay
<1>3. CASE InsertSession(c)
  BY ZenonT(30), <1>1, <1>3, FramelessSends, FinishSilent DEF InsertSession
<1>4. CASE AcceptRelay(c)
  BY ZenonT(30), <1>1, <1>4, FramelessSends, GotoSilent, FailSilent
     DEF AcceptRelay
<1>5. CASE AcceptInitiator(c)
  BY ZenonT(30), <1>1, <1>5, FramelessSends, GotoSilent, FailSilent
     DEF AcceptInitiator
<1>6. CASE AcceptResponder(c)
  BY ZenonT(30), <1>1, <1>6, FramelessSends, FinishSilent, FailSilent
     DEF AcceptResponder
<1> QED BY SMTT(30), <1>2, <1>3, <1>4, <1>5, <1>6

-----------------------------------------------------------------------------
(***************************************************************************)
(* Preservation.                                                           *)
(***************************************************************************)
\* Consented, of a given set of consents.
ConsentedBy(links, m, d) ==
    \/ <<m.sid, m.peer, PubkeyOf[d]>> \in links
    \/ <<m.sid, PubkeyOf[d], m.peer>> \in links

\* Consents are never withdrawn: a silent step keeps what was consented to.
LEMMA FrameConsent ==
    ASSUME RelayConsent, NoNewFrame, UNCHANGED chan, consents \subseteq consents'
    PROVE  RelayConsent'
<1>1. \A m, d : ConsentedBy(consents, m, d) => ConsentedBy(consents', m, d)
  BY DEF ConsentedBy
<1>2. ASSUME NEW d \in Conn, NEW n \in DOMAIN chan'[d], chan'[d][n].kind = "data"
      PROVE  ConsentedBy(consents', chan'[d][n], d)
  <2>1. ConsentedBy(consents, chan[d][n], d)
    BY ZenonT(30), <1>2 DEF RelayConsent, Consented, ConsentedBy
  <2> QED BY SMTT(30), <1>1, <2>1
<1>3. ASSUME NEW c \in Conn, NEW n \in DOMAIN out'[c], out'[c][n].msg.kind = "data"
      PROVE  ConsentedBy(consents', out'[c][n].msg, out'[c][n].to)
  <2>1. n \in DOMAIN out[c] /\ out'[c][n] = out[c][n]
    BY SMTT(30), <1>3 DEF NoNewFrame
  <2>2. ConsentedBy(consents, out[c][n].msg, out[c][n].to)
    BY ZenonT(30), <1>3, <2>1 DEF RelayConsent, Consented, ConsentedBy
  <2> QED BY SMTT(30), <1>1, <2>1, <2>2
<1> QED BY ZenonT(30), <1>2, <1>3 DEF RelayConsent, Consented, ConsentedBy

\* A silent step keeps what it does not touch.
LEMMA SilentConsent ==
    ASSUME TypeOK, ConsentInv, Silent, consents \subseteq consents'
    PROVE  RelayConsent' /\ ForwardingConsented'
<1>1. RelayConsent'
  BY SMTT(30), FrameConsent DEF ConsentInv, Silent
<1>2. ForwardingConsented'
  BY DEF Silent, ConsentInv, ForwardingConsented, Linked
<1> QED BY SMTT(30), <1>1, <1>2

\* A silent step that leaves the sessions alone keeps the consent.
LEMMA QuietConsent ==
    ASSUME TypeOK, ConsentInv, Silent, UNCHANGED <<sessions, consents>>
    PROVE  ConsentInv'
BY SMTT(30), SilentConsent DEF ConsentInv, ActiveConsented

\* The cleanup only takes sessions away.
LEMMA CleanupConsent ==
    ASSUME TypeOK, ConsentInv, NEW c \in Conn,
           \/ StreamEnd(c) \/ RemovePeer(c) \/ CheckIndex(c) \/ RemoveIndex(c)
           \/ ClearSubscriber(c) \/ CollectSession(c) \/ RemoveSession(c)
           \/ SessionsDropped(c) \/ EndSession(c)
    PROVE  ConsentInv'
<1>1. Silent /\ UNCHANGED consents
  BY SMTT(30), CleanupSilent
<1>2. \A i \in Sid : sessions'[i] # None => sessions'[i] = sessions[i]
  BY ZenonT(30)
     DEF StreamEnd, RemovePeer, CheckIndex, RemoveIndex, ClearSubscriber,
         CollectSession, RemoveSession, DropSession, SessionsDropped,
         EndSession, relayVars, TypeOK, RelayTypeOK
<1> QED BY SMTT(30), <1>1, <1>2, SilentConsent DEF ConsentInv, ActiveConsented

\* request opens a pending session; accept activates it with consent.
LEMMA RelayStepConsent ==
    ASSUME TypeOK, ConsentInv, NEW c \in Conn,
           \/ RequestRelay(c) \/ InsertSession(c) \/ AcceptRelay(c)
           \/ AcceptInitiator(c) \/ AcceptResponder(c)
    PROVE  ConsentInv'
<1>1. Silent
  BY SMTT(30), RelaySilent
<1>2. consents \subseteq consents'
  BY ZenonT(30) DEF RequestRelay, DrawId, InsertSession, OpenSession, AcceptRelay,
         ActivateSession, AcceptInitiator, AcceptResponder, relayVars
<1>3. RelayConsent' /\ ForwardingConsented'
  BY SMTT(30), <1>1, <1>2, SilentConsent
<1>4. ActiveConsented'
  <2>1. CASE UNCHANGED <<sessions, consents>>
    BY SMTT(30), <2>1 DEF ConsentInv, ActiveConsented
  <2>2. CASE InsertSession(c)
    <3>1. \A i \in Sid : sessions'[i] = sessions[i]
            \/ sessions'[i] = SessionOf(PubkeyOf[c], loc[c].target, "pending")
      BY ZenonT(30), <2>2 DEF InsertSession, OpenSession, TypeOK, RelayTypeOK
    <3> QED BY SMTT(30), <1>2, <3>1 DEF SessionOf, ConsentInv, ActiveConsented
  <2>3. ASSUME NEW j \in Sid, ActivateSession(j)
        PROVE  ActiveConsented'
    <3> SUFFICES ASSUME NEW i \in Sid, sessions'[i] # None,
                        sessions'[i].state = "active"
                 PROVE  <<i, sessions'[i].initiator, sessions'[i].responder>>
                          \in consents'
      BY SMTT(30) DEF ActiveConsented
    <3>1. CASE i = j
      BY SMTT(30), <2>3, <3>1
         DEF ActivateSession, SessionOf, TypeOK, RelayTypeOK
    <3>2. CASE i # j
      <4>1. sessions'[i] = sessions[i]
        BY ZenonT(30), <2>3, <3>2 DEF ActivateSession, TypeOK, RelayTypeOK
      <4> QED BY SMTT(30), <1>2, <4>1 DEF ConsentInv, ActiveConsented
    <3> QED BY SMTT(30), <3>1, <3>2
  <2> QED
    BY ZenonT(30), <2>1, <2>2, <2>3
       DEF RequestRelay, DrawId, AcceptRelay, AcceptInitiator,
       AcceptResponder, relayVars
<1> QED BY SMTT(30), <1>3, <1>4 DEF ConsentInv

\* forward's checks: the sender and the other party are linked.
LEMMA RelayFrameConsent ==
    ASSUME TypeOK, ConsentInv, NEW c \in Conn, RelayFrame(c)
    PROVE  ConsentInv'
<1>1. UNCHANGED <<chan, sessions, consents>>
  BY DEF RelayFrame, netVars, relayVars
<1>2. CASE Fail(c)
  BY SMTT(30), <1>1, <1>2, FailSilent, QuietConsent
<1>3. ASSUME NEW i \in Sid, MayForward(i, PubkeyOf[c]),
             Goto(c, "forward", <<>>, AtWork(i, OtherParty(i, PubkeyOf[c]), None))
      PROVE  ConsentInv'
  <2> DEFINE q == OtherParty(i, PubkeyOf[c])
  <2>1. Linked(i, PubkeyOf[c], q)
    BY SMTT(30), <1>3 DEF MayForward, IsParty, OtherParty, ConsentInv,
       ActiveConsented, Linked
  <2>2. /\ pc'[c] = "forward" /\ loc'[c] = AtWork(i, q, None)
        /\ \A k \in Conn \ {c} : pc'[k] = pc[k] /\ loc'[k] = loc[k]
    BY SMTT(30), <1>3, GotoEffect
  <2>3. NoNewFrame
    BY ZenonT(30), <1>3, FramelessSends, GotoNoFrame
  <2> HIDE DEF q
  <2>4. loc'[c].sid = i /\ loc'[c].target = q
    BY SMTT(30), <2>2 DEF AtWork, LocalsOf
  <2>5. ForwardingConsented'
    BY SMTT(30), <1>1, <2>1, <2>2, <2>4
       DEF ForwardingConsented, ConsentInv, Linked
  <2>6. RelayConsent'
    BY SMTT(30), <1>1, <2>3, FrameConsent DEF ConsentInv
  <2> QED BY SMTT(30), <1>1, <2>5, <2>6 DEF ConsentInv, ActiveConsented
<1> QED BY SMTT(30), <1>2, <1>3 DEF RelayFrame

\* forward's send: the registry's connection for the other party is of its key.
LEMMA ForwardFrameConsent ==
    ASSUME TypeOK, RegistryEntriesLive, ConsentInv, NEW c \in Conn, ForwardFrame(c)
    PROVE  ConsentInv'
<1> DEFINE p == loc[c].target
           i == loc[c].sid
           m == RelayMsg("data", i, PubkeyOf[c])
           d == by_pubkey[p]
<1>1. UNCHANGED <<chan, sessions, consents>>
  BY SMTT(30) DEF ForwardFrame, netVars, relayVars
<1>2. CASE ~IsOnline(p)
  BY SMTT(30), <1>1, <1>2, FailSilent, QuietConsent DEF ForwardFrame
<1>3. CASE IsOnline(p)
  <2>1. p \in Peer
    BY ZenonT(30) DEF ForwardFrame, TypeOK, LocalsOK, LocalsFit
  <2>2. LiveEntry(p)
    BY SMTT(30), <1>3, <2>1, LiveEntries
  <2>3. Linked(i, PubkeyOf[c], PubkeyOf[d])
    BY ZenonT(30), <2>2
       DEF LiveEntry, ForwardFrame, ConsentInv, ForwardingConsented
  <2>4. ConsentedBy(consents, m, d)
    BY ZenonT(30), <2>3 DEF Linked, ConsentedBy, RelayMsg
  <2>5. Goto(c, "pump", <<TellOrFail(d, m)>>, NoLocals)
    BY ZenonT(30), <1>3 DEF ForwardFrame, Finish
  <2> HIDE DEF d, m
  <2>6. /\ pc'[c] = "pump" /\ out'[c] = <<TellOrFail(d, m)>>
        /\ \A k \in Conn \ {c} : /\ pc'[k] = pc[k] /\ out'[k] = out[k]
                                 /\ loc'[k] = loc[k]
    BY SMTT(30), <2>5, GotoEffect
  <2>7. ASSUME NEW k \in Conn, NEW n \in DOMAIN out'[k], out'[k][n].msg.kind = "data"
        PROVE  ConsentedBy(consents, out'[k][n].msg, out'[k][n].to)
    <3>1. CASE k = c
      <4>1. out'[k][n] = TellOrFail(d, m)
        BY SMTT(30), <2>6, <2>7, <3>1
      <4> QED BY SMTT(30), <2>4, <4>1 DEF TellOrFail
    <3>2. CASE k # c
      <4>1. out'[k] = out[k]
        BY SMTT(30), <2>6, <3>2
      <4> QED BY ZenonT(30), <2>7, <4>1
                 DEF ConsentInv, RelayConsent, Consented, ConsentedBy
    <3> QED BY SMTT(30), <3>1, <3>2
  <2>8. RelayConsent'
    BY ZenonT(30), <1>1, <2>7
       DEF RelayConsent, Consented, ConsentedBy, ConsentInv
  <2>9. ForwardingConsented'
    BY ZenonT(30), <1>1, <2>6 DEF ForwardingConsented, ConsentInv, Linked
  <2> QED BY SMTT(30), <1>1, <2>8, <2>9 DEF ConsentInv, ActiveConsented
<1> QED BY SMTT(30), <1>2, <1>3

\* A frame that moves from the sends into the channel it is for.
LEMMA SendConsent ==
    ASSUME TypeOK, ConsentInv, NEW c \in Conn, Send(c)
    PROVE  ConsentInv'
<1> DEFINE d == Head(out[c]).to
           m == Head(out[c]).msg
<1>1. UNCHANGED <<pc, loc, sessions, consents>>
  <2>1. pc' = pc /\ loc' = loc /\ relayVars' = relayVars
    BY ZenonT(30) DEF Send
  <2> QED BY SMTT(30), <2>1 DEF relayVars
<1>2. out[c] \in Seq(PendingSend) /\ out[c] # <<>>
  BY ZenonT(30) DEF Send, TypeOK
<1>3. /\ Head(out[c]) = out[c][1] /\ 1 \in DOMAIN out[c]
      /\ out[c][1] \in PendingSend
      /\ \A n \in DOMAIN Tail(out[c]) :
            n + 1 \in DOMAIN out[c] /\ Tail(out[c])[n] = out[c][n + 1]
  BY SMTT(30), <1>2
<1>4. d \in Conn /\ m \in Msg
  BY SMTT(30), <1>3 DEF PendingSend
<1>5. m.kind = "data" => ConsentedBy(consents, m, d)
  BY ZenonT(30), <1>3 DEF ConsentInv, RelayConsent, Consented, ConsentedBy
<1>6. /\ out'[c] \in {Tail(out[c]), <<Tell(c, Plain("error"))>>}
      /\ \A k \in Conn \ {c} : out'[k] = out[k]
  BY ZenonT(30) DEF Send, AfterFailure, TypeOK
<1>7. ASSUME NEW k \in Conn, NEW n \in DOMAIN out'[k], out'[k][n].msg.kind = "data"
      PROVE  ConsentedBy(consents, out'[k][n].msg, out'[k][n].to)
  <2>1. CASE k # c
    BY ZenonT(30), <1>6, <1>7, <2>1
       DEF ConsentInv, RelayConsent, Consented, ConsentedBy
  <2>2. CASE k = c /\ out'[c] = Tail(out[c])
    <3>1. n + 1 \in DOMAIN out[c] /\ out'[k][n] = out[c][n + 1]
      BY ZenonT(30), <1>3, <1>7, <2>2
    <3> QED BY ZenonT(30), <1>7, <3>1
               DEF ConsentInv, RelayConsent, Consented, ConsentedBy
  <2>3. CASE k = c /\ out'[c] = <<Tell(c, Plain("error"))>>
    BY ZenonT(30), <1>7, <2>3, FramelessSends DEF Frameless
  <2> QED BY ZenonT(30), <1>6, <2>1, <2>2, <2>3
<1>8. ASSUME NEW k \in Conn, NEW n \in DOMAIN chan'[k], chan'[k][n].kind = "data"
      PROVE  ConsentedBy(consents, chan'[k][n], k)
  <2>1. CASE UNCHANGED chan
    BY ZenonT(30), <1>8, <2>1
       DEF ConsentInv, RelayConsent, Consented, ConsentedBy
  <2>2. CASE chan' = [chan EXCEPT ![d] = Append(@, m)]
    <3>1. chan[d] \in Seq(Msg)
      BY ZenonT(30), <1>4 DEF TypeOK
    <3> HIDE DEF d, m
    <3>2. CASE k = d
      <4>1. chan'[k] = Append(chan[d], m)
        BY ZenonT(30), <2>2, <3>2 DEF TypeOK
      <4>2. \/ n \in DOMAIN chan[d] /\ chan'[k][n] = chan[d][n]
            \/ chan'[k][n] = m
        BY SMTT(30), <1>4, <1>8, <3>1, <4>1
      <4> QED
        BY ZenonT(30), <1>4, <1>5, <1>8, <3>2, <4>2
        DEF ConsentInv, RelayConsent, Consented, ConsentedBy
    <3>3. CASE k # d
      <4>1. chan'[k] = chan[k]
        BY SMTT(30), <2>2, <3>3 DEF TypeOK
      <4> QED BY ZenonT(30), <1>8, <4>1
                 DEF ConsentInv, RelayConsent, Consented, ConsentedBy
    <3> QED BY SMTT(30), <3>2, <3>3
  <2> QED BY ZenonT(30), <2>1, <2>2 DEF Send
<1>9. RelayConsent'
  BY ZenonT(30), <1>1, <1>7, <1>8 DEF RelayConsent, Consented, ConsentedBy
<1> QED
  BY ZenonT(30), <1>1, <1>9
     DEF ConsentInv, ActiveConsented, ForwardingConsented, Linked

\* The writer takes a message out, or ends and loses what is left.
LEMMA WriterConsent ==
    ASSUME TypeOK, ConsentInv, NEW c \in Conn, Deliver(c) \/ WriterEnd(c)
    PROVE  ConsentInv'
<1>1. UNCHANGED <<pc, loc, out, sessions, consents>>
  BY ZenonT(30) DEF Deliver, WriterEnd, relayVars, taskVars
<1>2. chan[c] \in Seq(Msg)
  BY SMTT(30) DEF TypeOK
<1>3. /\ chan'[c] = <<>> \/ (chan[c] # <<>> /\ chan'[c] = Tail(chan[c]))
      /\ \A k \in Conn \ {c} : chan'[k] = chan[k]
  BY ZenonT(30) DEF Deliver, WriterEnd, TypeOK
<1>4. ASSUME NEW k \in Conn, NEW n \in DOMAIN chan'[k]
      PROVE  \E j \in DOMAIN chan[k] : chan'[k][n] = chan[k][j]
  <2>1. CASE k # c
    BY SMTT(30), <1>3, <1>4, <2>1
  <2>2. CASE k = c
    <3>1. chan[c] # <<>> /\ chan'[c] = Tail(chan[c])
      BY SMTT(30), <1>3, <1>4, <2>2
    <3>2. n + 1 \in DOMAIN chan[c] /\ chan'[c][n] = chan[c][n + 1]
      BY SMTT(30), <1>2, <1>4, <2>2, <3>1
    <3> QED BY SMTT(30), <2>2, <3>2
  <2> QED BY ZenonT(30), <2>1, <2>2
<1>5. RelayConsent'
  <2>1. ASSUME NEW k \in Conn, NEW n \in DOMAIN chan'[k], chan'[k][n].kind = "data"
        PROVE  ConsentedBy(consents, chan'[k][n], k)
    <3>1. PICK j \in DOMAIN chan[k] : chan'[k][n] = chan[k][j]
      BY ZenonT(30), <1>4, <2>1
    <3> QED BY ZenonT(30), <2>1, <3>1
               DEF ConsentInv, RelayConsent, Consented, ConsentedBy
  <2> QED BY ZenonT(30), <1>1, <2>1
             DEF ConsentInv, RelayConsent, Consented, ConsentedBy
<1> QED
  BY ZenonT(30), <1>1, <1>5
     DEF ConsentInv, ActiveConsented, ForwardingConsented, Linked

\* Every step keeps the consent.
LEMMA NextConsent ==
    TypeOK /\ RegistryEntriesLive /\ ConsentInv /\ [Next]_vars => ConsentInv'
<1> SUFFICES ASSUME TypeOK, RegistryEntriesLive, ConsentInv, [Next]_vars
             PROVE  ConsentInv'
  OBVIOUS
<1>1. CASE UNCHANGED vars
  BY ZenonT(30), <1>1
     DEF vars, relayVars, taskVars, netVars, ConsentInv, RelayConsent,
     Consented, ActiveConsented, ForwardingConsented, Linked
<1>2. ASSUME NEW c \in Conn, TaskStep(c) PROVE ConsentInv'
  BY ZenonT(30), <1>2, QuietConsent, SendConsent, IdleSilent, StartSilent,
     BroadcastSilent, OnlineSetSilent, RelayStepConsent, ForwardFrameConsent,
     CleanupConsent DEF TaskStep
<1>3. ASSUME NEW c \in Conn, ClientStep(c) PROVE ConsentInv'
  BY ZenonT(30), <1>3, QuietConsent, StartSilent, IdleSilent, AnswerSilent,
     OnlineSetSilent, RelayStepConsent, RelayFrameConsent DEF ClientStep
<1> QED BY SMTT(30), <1>1, <1>2, <1>3, WriterConsent DEF Next, Terminated

\* Nothing is on its way at the start.
LEMMA InitConsent == Init => ConsentInv
<1> SUFFICES ASSUME Init PROVE ConsentInv
  OBVIOUS
<1>1. \A c \in Conn : chan[c] = <<>> /\ out[c] = <<>> /\ pc[c] = "first"
  BY SMTT(30) DEF Init
<1>2. \A i \in Sid : sessions[i] = None
  BY SMTT(30) DEF Init, RelayInit
<1>3. RelayConsent
  BY SMTT(30), <1>1 DEF RelayConsent
<1>4. ActiveConsented /\ ForwardingConsented
  BY SMTT(30), <1>1, <1>2 DEF ActiveConsented, ForwardingConsented
<1> QED BY SMTT(30), <1>3, <1>4 DEF ConsentInv

-----------------------------------------------------------------------------
(***************************************************************************)
(* The relay handlers keep the broker well typed.                          *)
(***************************************************************************)
LEMMA AtWorkType ==
    ASSUME NEW i \in Sid, NEW p \in Peer, NEW d \in Conn \cup {None}
    PROVE  /\ AtWork(i, p, d) \in Locals
           /\ AtWork(i, p, d).sid \in Sid
           /\ AtWork(i, p, d).target \in Peer
           /\ AtWork(i, p, d).held = d
BY ZenonT(30), LocalsType DEF AtWork, LocalsOf

\* A relay handler moves on to the next lookup it makes.
LEMMA AtWorkGoto ==
    ASSUME TypeOK, NEW c \in Conn, NEW label \in {"open", "accept_resp"},
           NEW i \in Sid, NEW p \in Peer, NEW d \in Conn,
           Goto(c, label, <<>>, AtWork(i, p, d)), UNCHANGED claimed
    PROVE  TaskTypeOK'
<1>1. label \in Labels /\ LocalsFit(c, label, AtWork(i, p, d))
  BY ZenonT(30), AtWorkType DEF Labels, Registered, LocalsFit
<1> QED BY ZenonT(30), <1>1, AtWorkType, SendsType, GotoType

\* The same for the labels that hold no PeerHandle.
LEMMA AtWorkGotoNone ==
    ASSUME TypeOK, NEW c \in Conn, NEW label \in {"accept_init", "forward"},
           NEW i \in Sid, NEW p \in Peer,
           Goto(c, label, <<>>, AtWork(i, p, None)), UNCHANGED claimed
    PROVE  TaskTypeOK'
<1>1. label \in Labels /\ LocalsFit(c, label, AtWork(i, p, None))
  BY ZenonT(30), AtWorkType DEF Labels, Registered, LocalsFit
<1> QED BY ZenonT(30), <1>1, AtWorkType, SendsType, GotoType

\* A session in the map is a Session.
LEMMA SessionType ==
    ASSUME RelayTypeOK, NEW i \in Sid, sessions[i] # None
    PROVE  /\ sessions[i].initiator \in Peer
           /\ sessions[i].responder \in Peer
           /\ sessions[i].state \in {"pending", "active"}
BY DEF RelayTypeOK, Session

\* A session that request opens or accept activates.
LEMMA SessionOfType ==
    ASSUME NEW p \in Peer, NEW q \in Peer, NEW s \in {"pending", "active"}
    PROVE  SessionOf(p, q, s) \in Session
BY SMTT(30) DEF SessionOf, Session

\* RelayRequest looks the responder up.
LEMMA RequestRelayType ==
    ASSUME TypeOK, NEW c \in Conn, RequestRelay(c)
    PROVE  TypeOK'
<1>1. PICK p \in Peer :
        IF IsOnline(p)
        THEN \E i \in Sid : /\ DrawId(i)
                            /\ Goto(c, "open", <<>>, AtWork(i, p, by_pubkey[p]))
        ELSE Fail(c) /\ UNCHANGED relayVars
  BY SMTT(30) DEF RequestRelay
<1>2. RelayTypeOK'
  BY ZenonT(30), <1>1 DEF DrawId, RelayTypeOK, TypeOK, relayVars
<1>3. TaskTypeOK'
  <2>1. CASE IsOnline(p)
    BY SMTT(30), <1>1, <2>1, OnlineType, AtWorkGoto DEF RequestRelay, dbVars
  <2>2. CASE ~IsOnline(p)
    BY ZenonT(30), <1>1, <2>2, FailType DEF RequestRelay, dbVars
  <2> QED BY SMTT(30), <2>1, <2>2
<1>4. budget' \in [Conn -> Nat]
  BY SMTT(30), ReceiveType DEF RequestRelay
<1> QED BY SMTT(30), <1>2, <1>3, <1>4, RelayHandlerType DEF RequestRelay

\* request inserts the session and asks the responder.
LEMMA InsertSessionType ==
    ASSUME TypeOK, NEW c \in Conn, InsertSession(c)
    PROVE  TypeOK'
<1> DEFINE i == loc[c].sid
           p == PubkeyOf[c]
           q == loc[c].target
           d == loc[c].held
           offer == TellOrFail(d, RelayMsg("offer", i, p))
           reply == Tell(c, RelayMsg("established", i, q))
<1>1. i \in Sid /\ p \in Peer /\ q \in Peer /\ d \in Conn
  BY ZenonT(30), BrokerAssumption DEF InsertSession, TypeOK, LocalsOK, LocalsFit
<1>2. OpenSession(i, p, q) /\ Finish(c, <<offer, reply>>)
  BY ZenonT(30) DEF InsertSession
<1>3. offer \in PendingSend /\ reply \in PendingSend
  BY ZenonT(30), <1>1, RelayMsgType, SendType DEF Kinds
<1> HIDE DEF i, p, q, d, offer, reply
<1>4. RelayTypeOK'
  BY ZenonT(30), <1>1, <1>2, SessionOfType DEF OpenSession, RelayTypeOK, TypeOK
<1>5. TaskTypeOK'
  BY ZenonT(30), <1>2, <1>3, SendsType, FinishType DEF InsertSession, dbVars
<1> QED BY ZenonT(30), <1>4, <1>5, RelayHandlerType DEF InsertSession, TypeOK

\* accept activates the session.
LEMMA AcceptRelayType ==
    ASSUME TypeOK, NEW c \in Conn, AcceptRelay(c)
    PROVE  TypeOK'
<1>1. PICK i \in Sid :
        IF MayAccept(i, PubkeyOf[c])
        THEN /\ ActivateSession(i)
             /\ Goto(c, "accept_init", <<>>, AtWork(i, sessions[i].initiator, None))
        ELSE Fail(c) /\ UNCHANGED relayVars
  BY SMTT(30) DEF AcceptRelay
<1>2. budget' \in [Conn -> Nat]
  BY SMTT(30), ReceiveType DEF AcceptRelay
<1>3. CASE MayAccept(i, PubkeyOf[c])
  <2>1. sessions[i].initiator \in Peer /\ sessions[i].responder \in Peer
    BY ZenonT(30), <1>3, SessionType DEF MayAccept, TypeOK
  <2>2. SessionOf(sessions[i].initiator, sessions[i].responder, "active") \in Session
    BY ZenonT(30), <2>1, SessionOfType
  <2>3. <<i, sessions[i].initiator, sessions[i].responder>> \in Sid \X Peer \X Peer
    BY ZenonT(30), <2>1
  <2>4. sessions' \in [Sid -> {None} \cup Session]
    BY ZenonT(30), <1>1, <1>3, <2>2 DEF ActivateSession, RelayTypeOK, TypeOK
  <2>5. consents' \subseteq Sid \X Peer \X Peer
    BY SMTT(30), <1>1, <1>3, <2>3 DEF ActivateSession, RelayTypeOK, TypeOK
  <2>6. RelayTypeOK'
    BY ZenonT(30), <1>1, <1>3, <2>4, <2>5
       DEF ActivateSession, RelayTypeOK, TypeOK
  <2>7. TaskTypeOK'
    BY ZenonT(30), <1>1, <1>3, <2>1, AtWorkGotoNone DEF AcceptRelay, dbVars
  <2> QED BY SMTT(30), <1>2, <2>6, <2>7, RelayHandlerType DEF AcceptRelay
<1>4. CASE ~MayAccept(i, PubkeyOf[c])
  <2>1. RelayTypeOK'
    BY ZenonT(30), <1>1, <1>4 DEF RelayTypeOK, TypeOK, relayVars
  <2>2. TaskTypeOK'
    BY ZenonT(30), <1>1, <1>4, FailType DEF AcceptRelay, dbVars
  <2> QED BY ZenonT(30), <1>2, <2>1, <2>2, RelayHandlerType DEF AcceptRelay
<1> QED BY SMTT(30), <1>3, <1>4

\* accept tells the initiator.
LEMMA AcceptInitiatorType ==
    ASSUME TypeOK, NEW c \in Conn, AcceptInitiator(c)
    PROVE  TypeOK'
<1>1. loc[c].sid \in Sid /\ loc[c].target \in Peer
  BY ZenonT(30) DEF AcceptInitiator, TypeOK, LocalsOK, LocalsFit
<1>2. TaskTypeOK'
  <2>1. CASE IsOnline(loc[c].target)
    BY ZenonT(30), <1>1, <2>1, OnlineType, AtWorkGoto
       DEF AcceptInitiator, dbVars
  <2>2. CASE ~IsOnline(loc[c].target)
    BY ZenonT(30), <2>2, FailType DEF AcceptInitiator, dbVars
  <2> QED BY <2>1, <2>2
<1> QED BY ZenonT(30), <1>2, OwnStepType DEF AcceptInitiator, TypeOK

\* accept tells the responder.
LEMMA AcceptResponderType ==
    ASSUME TypeOK, NEW c \in Conn, AcceptResponder(c)
    PROVE  TypeOK'
<1> DEFINE i == loc[c].sid
           p == PubkeyOf[c]
           first == TellOrFail(loc[c].held, RelayMsg("established", i, p))
           second == TellOrFail(by_pubkey[p],
                                RelayMsg("established", i, loc[c].target))
<1>1. i \in Sid /\ p \in Peer /\ loc[c].target \in Peer /\ loc[c].held \in Conn
  BY ZenonT(30), BrokerAssumption
     DEF AcceptResponder, TypeOK, LocalsOK, LocalsFit
<1>2. CASE IsOnline(p)
  <2>1. by_pubkey[p] \in Conn
    BY ZenonT(30), <1>1, <1>2, OnlineType
  <2>2. first \in PendingSend /\ second \in PendingSend
    BY ZenonT(30), <1>1, <2>1, RelayMsgType, SendType DEF Kinds
  <2>3. Finish(c, <<first, second>>)
    BY ZenonT(30), <1>2 DEF AcceptResponder
  <2> HIDE DEF first, second
  <2>4. TaskTypeOK'
    BY ZenonT(30), <2>2, <2>3, SendsType, FinishType
       DEF AcceptResponder, dbVars
  <2> QED BY ZenonT(30), <2>4, OwnStepType DEF AcceptResponder, TypeOK
<1>3. CASE ~IsOnline(p)
  <2>1. TaskTypeOK'
    BY ZenonT(30), <1>3, FailType DEF AcceptResponder, dbVars
  <2> QED BY ZenonT(30), <2>1, OwnStepType DEF AcceptResponder, TypeOK
<1> QED BY SMTT(30), <1>2, <1>3

\* forward reads the session.
LEMMA RelayFrameType ==
    ASSUME TypeOK, NEW c \in Conn, RelayFrame(c)
    PROVE  TypeOK'
<1>1. PICK i \in Sid :
        \/ Fail(c)
        \/ /\ MayForward(i, PubkeyOf[c])
           /\ Goto(c, "forward", <<>>, AtWork(i, OtherParty(i, PubkeyOf[c]), None))
  BY SMTT(30) DEF RelayFrame
<1>2. MayForward(i, PubkeyOf[c]) => OtherParty(i, PubkeyOf[c]) \in Peer
  BY ZenonT(30), SessionType DEF MayForward, OtherParty, TypeOK
<1>3. TaskTypeOK'
  BY ZenonT(30), <1>1, <1>2, FailType, AtWorkGotoNone DEF RelayFrame, dbVars
<1> QED BY SMTT(30), <1>3, HandlerType DEF RelayFrame

\* forward looks the recipient up and sends.
LEMMA ForwardFrameType ==
    ASSUME TypeOK, NEW c \in Conn, ForwardFrame(c)
    PROVE  TypeOK'
<1> DEFINE p == loc[c].target
           frame == TellOrFail(by_pubkey[p],
                               RelayMsg("data", loc[c].sid, PubkeyOf[c]))
<1>1. loc[c].sid \in Sid /\ p \in Peer /\ PubkeyOf[c] \in Peer
  BY ZenonT(30), BrokerAssumption DEF ForwardFrame, TypeOK, LocalsOK, LocalsFit
<1>2. TaskTypeOK'
  <2>1. CASE IsOnline(p)
    <3>1. frame \in PendingSend
      BY ZenonT(30), <1>1, <2>1, OnlineType, RelayMsgType, SendType DEF Kinds
    <3>2. Finish(c, <<frame>>)
      BY ZenonT(30), <2>1 DEF ForwardFrame
    <3> HIDE DEF frame
    <3> QED BY ZenonT(30), <3>1, <3>2, SendsType, FinishType
               DEF ForwardFrame, dbVars
  <2>2. CASE ~IsOnline(p)
    BY ZenonT(30), <2>2, FailType DEF ForwardFrame, dbVars
  <2> QED BY ZenonT(30), <2>1, <2>2
<1> QED BY ZenonT(30), <1>2, OwnStepType DEF ForwardFrame, TypeOK
=============================================================================
