---------------------------- MODULE WatchProofs -----------------------------
(***************************************************************************)
(* A connected watcher is told of the state of the peers it watches, for   *)
(* every value of the constants.                                           *)
(*                                                                         *)
(* WatcherTold speaks of the moments when no task has anything left to say *)
(* to a watcher.  ToldInv is what holds in between: a watcher that was not *)
(* told yet has the update among the sends of some task, or is still to be *)
(* looked up by the task of the peer that came or went, or is still inside *)
(* the subscribe handler that reads the registry afterwards.  It needs     *)
(* UpdateInv (an update among the sends of a task is not given up for      *)
(* another send) and SubscribeInv (subscribe adds only watchers of peers   *)
(* whose entry the handler reads next).                                    *)
(***************************************************************************)
EXTENDS BrokerSafety

-----------------------------------------------------------------------------
(***************************************************************************)
(* What watchers are told.  The sends that a task has left to make decide  *)
(* it: an update is among them only while the task broadcasts or answers   *)
(* its own client's subscribe, and then a failed send is ignored, so that  *)
(* none of the others is given up for it.                                  *)
(***************************************************************************)
\* None of these sends is a presence update.
NoUpdate(sends) == \A n \in DOMAIN sends : sends[n].msg.kind # "presence"

\* The task of k ignores the failure of every send it has left.
Ignores(k) == \A n \in DOMAIN out[k] : ~out[k][n].must

\* Send s of k answers its own client's subscribe, or tells of k's own key.
UpdateBy(k, s) ==
    \/ s.to = k /\ pc[k] \in {"online_set", "pump"}
    \/ s.msg.peer = PubkeyOf[k] /\ pc[k] \in {"online", "offline"}

UpdateInv ==
    \A k \in Conn :
        /\ pc[k] = "first" => out[k] = <<>>
        /\ pc[k] \in {"online_set", "online", "offline"} => Ignores(k)
        /\ \A n \in DOMAIN out[k] : out[k][n].msg.kind = "presence" =>
               Ignores(k) /\ UpdateBy(k, out[k][n])

\* subscribe has yet to add its key to the watchers of peers whose registry
\* entry the handler reads afterwards.
SubscribeInv ==
    \A k \in Conn : call[k].op = "subscribe" =>
        pc[k] = "online_set" /\ call[k].todo \subseteq loc[k].todo

\* Labels from a registry.remove to the snapshot of the broadcast after it.
Leaving == Unregistering \cup {"drop", "withdraw"}

\* The task of d has yet to look watcher w up, to tell it that d came or went.
WillTell(d, w, online) ==
    IF online THEN pc[d] = "announce" \/ (pc[d] = "online" /\ w \in loc[d].todo)
    ELSE pc[d] \in Leaving \/ (pc[d] = "offline" /\ w \in loc[d].todo)

\* An update of t for c is among the sends that k has left.
Queued(k, c, t, online) ==
    \E n \in DOMAIN out[k] :
        out[k][n].to = c /\ out[k][n].msg = PresenceUpdate(t, online)

\* c was told that t is online, or that it is not; or it will be.
Informed(c, t, online) ==
    \/ <<t, online>> \in told[c]
    \/ pc[c] = "online_set" /\ t \in loc[c].todo
    \/ \E k \in Conn : Queued(k, c, t, online)
    \/ \E d \in Conn : PubkeyOf[d] = t /\ WillTell(d, PubkeyOf[c], online)

\* c, the only connection of its key, watches t and can be told of it.
Watching(c, t) ==
    /\ OnlyConnection(c)
    /\ pc[c] \in Registered
    /\ writer[c] = "running"
    /\ PubkeyOf[c] \in WatchersOf(t)

ToldInv == \A c \in Conn, t \in Peer : Watching(c, t) => Informed(c, t, IsOnline(t))

-----------------------------------------------------------------------------
(***************************************************************************)
(* Most steps tell nobody anything: they leave the registry and the        *)
(* watchers alone, and move at most one task, which has no update to send. *)
(***************************************************************************)
Steady(k) ==
    /\ UNCHANGED <<by_pubkey, watchers, told>>
    /\ \A c \in Conn : writer'[c] = "running" => writer[c] = "running"
    /\ \A j \in Conn \ {k} : /\ pc'[j] = pc[j] /\ out'[j] = out[j]
                             /\ loc'[j] = loc[j]
    /\ \/ pc'[k] = pc[k] /\ out'[k] = out[k] /\ loc'[k] = loc[k]
       \/ /\ out[k] = <<>> /\ NoUpdate(out'[k])
          /\ pc'[k] \in Registered => pc[k] \in Registered
          /\ pc[k] \notin {"announce", "online_set"}
          /\ pc[k] \in {"online", "offline"} => loc[k].todo = {}
          /\ pc[k] \in Leaving => pc'[k] \in Leaving
          /\ pc'[k] \notin {"first", "online", "offline"}
          /\ pc'[k] = "online_set" => Ignores(k)'

\* The updates that are left to send, after a steady step.
LEMMA SteadyUpdates ==
    ASSUME UpdateInv, NEW k \in Conn, Steady(k)
    PROVE  UpdateInv'
<1>1. ASSUME NEW j \in Conn, pc'[j] = pc[j], out'[j] = out[j]
      PROVE  /\ pc'[j] = "first" => out'[j] = <<>>
             /\ pc'[j] \in {"online_set", "online", "offline"} => Ignores(j)'
             /\ \A n \in DOMAIN out'[j] : out'[j][n].msg.kind = "presence" =>
                    Ignores(j)' /\ UpdateBy(j, out[j][n])'
  BY ZenonT(30), <1>1 DEF UpdateInv, Ignores, UpdateBy
<1>2. ASSUME pc'[k] # pc[k] \/ out'[k] # out[k]
      PROVE  /\ pc'[k] = "first" => out'[k] = <<>>
             /\ pc'[k] \in {"online_set", "online", "offline"} => Ignores(k)'
             /\ \A n \in DOMAIN out'[k] : out'[k][n].msg.kind # "presence"
  BY ZenonT(30), <1>2 DEF Steady, NoUpdate
<1>3. \A j \in Conn \ {k} : pc'[j] = pc[j] /\ out'[j] = out[j]
  BY ZenonT(30) DEF Steady
<1> QED BY ZenonT(30), <1>1, <1>2, <1>3 DEF UpdateInv

\* A task that has yet to tell a watcher still has, after a steady step.
LEMMA SteadyWillTell ==
    ASSUME NEW k \in Conn, Steady(k), NEW d \in Conn, NEW w, NEW b \in BOOLEAN,
           WillTell(d, w, b)
    PROVE  WillTell(d, w, b)'
<1>1. CASE pc'[d] = pc[d] /\ loc'[d] = loc[d]
  BY ZenonT(30), <1>1 DEF WillTell
<1>2. CASE ~(pc'[d] = pc[d] /\ loc'[d] = loc[d])
  <2>1. d = k
    BY ZenonT(30), <1>2 DEF Steady
  <2>2. /\ pc[k] \notin {"announce", "online_set"}
        /\ pc[k] \in {"online", "offline"} => loc[k].todo = {}
        /\ pc[k] \in Leaving => pc'[k] \in Leaving
    BY ZenonT(30), <1>2, <2>1 DEF Steady
  <2> QED BY ZenonT(30), <2>1, <2>2 DEF WillTell
<1> QED BY <1>1, <1>2

\* A queued update stays queued in a steady step.
LEMMA SteadyQueued ==
    ASSUME NEW k \in Conn, Steady(k), NEW j \in Conn, NEW c, NEW t,
           NEW b \in BOOLEAN, Queued(j, c, t, b)
    PROVE  Queued(j, c, t, b)'
<1>1. out[j] # <<>>
  BY SMTT(30) DEF Queued
<1>2. out'[j] = out[j]
  BY ZenonT(30), <1>1 DEF Steady
<1> QED BY ZenonT(30), <1>2 DEF Queued, PresenceUpdate

\* What a watcher is told, after a steady step.
LEMMA SteadyInformed ==
    ASSUME NEW k \in Conn, Steady(k), NEW c \in Conn, NEW t \in Peer,
           NEW b \in BOOLEAN, Informed(c, t, b)
    PROVE  Informed(c, t, b)'
<1>1. CASE <<t, b>> \in told[c]
  BY ZenonT(30), <1>1 DEF Informed, Steady
<1>2. CASE pc[c] = "online_set" /\ t \in loc[c].todo
  <2>1. pc'[c] = pc[c] /\ loc'[c] = loc[c]
    BY ZenonT(30), <1>2 DEF Steady
  <2> QED BY ZenonT(30), <1>2, <2>1 DEF Informed
<1>3. ASSUME NEW j \in Conn, Queued(j, c, t, b)
      PROVE  Informed(c, t, b)'
  BY ZenonT(30), <1>3, SteadyQueued DEF Informed
<1>4. ASSUME NEW d \in Conn, PubkeyOf[d] = t, WillTell(d, PubkeyOf[c], b)
      PROVE  Informed(c, t, b)'
  BY ZenonT(30), <1>4, SteadyWillTell DEF Informed
<1> QED BY ZenonT(30), <1>1, <1>2, <1>3, <1>4 DEF Informed

\* A step that keeps the registry keeps what it says of a key.
LEMMA SameOnline ==
    ASSUME NEW t, by_pubkey'[t] = by_pubkey[t]
    PROVE  IsOnline(t)' = IsOnline(t) /\ IsOnline(t) \in BOOLEAN
BY ZenonT(30) DEF IsOnline

\* The invariant, after a steady step.
LEMMA SteadyTold ==
    ASSUME ToldInv, NEW k \in Conn, Steady(k)
    PROVE  ToldInv'
<1> SUFFICES ASSUME NEW c \in Conn, NEW t \in Peer, Watching(c, t)'
             PROVE  Informed(c, t, IsOnline(t))'
  BY ZenonT(30) DEF ToldInv
<1>1. Watching(c, t)
  <2>1. writer[c] = "running" /\ pc[c] \in Registered
    BY ZenonT(30) DEF Watching, Steady
  <2> QED BY ZenonT(30), <2>1 DEF Watching, WatchersOf, SetOf, Steady
<1>2. Informed(c, t, IsOnline(t))
  BY ZenonT(30), <1>1 DEF ToldInv
<1> QED BY ZenonT(30), <1>2, SameOnline, SteadyInformed DEF Steady

-----------------------------------------------------------------------------
(***************************************************************************)
(* Which steps are steady.                                                 *)
(***************************************************************************)
\* Sends that are no updates.
LEMMA PlainSends ==
    ASSUME NEW a, NEW b, a.msg.kind # "presence", b.msg.kind # "presence"
    PROVE  NoUpdate(<<>>) /\ NoUpdate(<<a>>) /\ NoUpdate(<<a, b>>)
BY SMTT(30) DEF NoUpdate

\* The messages of the handlers are no updates.
LEMMA PlainMessages ==
    ASSUME NEW d, NEW i, NEW p, NEW kind, kind # "presence"
    PROVE  /\ Tell(d, Plain(kind)).msg.kind # "presence"
           /\ Tell(d, RelayMsg(kind, i, p)).msg.kind # "presence"
           /\ TellOrFail(d, RelayMsg(kind, i, p)).msg.kind # "presence"
BY SMTT(30) DEF Tell, TellOrFail, Plain, RelayMsg

\* The error that pump_messages reports is none either.
LEMMA ErrorSends ==
    ASSUME NEW d
    PROVE  NoUpdate(<<Tell(d, Plain("error"))>>) /\ NoUpdate(<<>>)
<1>1. Tell(d, Plain("error")).msg.kind # "presence"
  BY ZenonT(30), PlainMessages
<1> QED BY ZenonT(30), <1>1, PlainSends

\* Where a task stands that has these peers left to visit.
LEMMA VisitEffect ==
    ASSUME TypeOK, NEW c \in Conn, NEW label, NEW sends, NEW peers,
           Goto(c, label, sends, ToVisit(peers))
    PROVE  /\ pc'[c] = label /\ out'[c] = sends /\ loc'[c].todo = peers
           /\ \A k \in Conn \ {c} : /\ pc'[k] = pc[k] /\ out'[k] = out[k]
                                    /\ loc'[k] = loc[k]
<1>1. ToVisit(peers).todo = peers
  BY ZenonT(30) DEF ToVisit, LocalsOf
<1>2. /\ pc'[c] = label /\ out'[c] = sends /\ loc'[c] = ToVisit(peers)
      /\ \A k \in Conn \ {c} : /\ pc'[k] = pc[k] /\ out'[k] = out[k]
                               /\ loc'[k] = loc[k]
  BY SMTT(30) DEF Goto, TypeOK
<1> QED BY ZenonT(30), <1>1, <1>2

\* A task moves on, with nothing left to tell.
LEMMA GotoSteady ==
    ASSUME TypeOK, NEW k \in Conn, NEW label, NEW sends, NEW locals,
           Goto(k, label, sends, locals), UNCHANGED <<by_pubkey, watchers, told, writer>>,
           out[k] = <<>>, NoUpdate(sends),
           label \in Registered => pc[k] \in Registered,
           pc[k] \notin {"announce", "online_set", "online", "offline"},
           pc[k] \in Leaving => label \in Leaving,
           label \notin {"first", "online_set", "online", "offline"}
    PROVE  Steady(k)
<1>1. /\ pc'[k] = label /\ out'[k] = sends
      /\ \A j \in Conn \ {k} : /\ pc'[j] = pc[j] /\ out'[j] = out[j]
                               /\ loc'[j] = loc[j]
  BY SMTT(30) DEF Goto, TypeOK
<1> QED BY ZenonT(30), <1>1 DEF Steady

\* Steps that move no task.
LEMMA StillSteady ==
    ASSUME TypeOK, NEW c \in Conn,
           Deliver(c) \/ WriterEnd(c) \/ ClientClose(c) \/ UnsubscribePresence(c)
    PROVE  Steady(c)
<1>1. UNCHANGED <<by_pubkey, watchers, told, pc, out, loc>>
  BY ZenonT(30)
     DEF Deliver, WriterEnd, ClientClose, UnsubscribePresence, BeginUnsubscribe,
         registryVars, presenceVars, taskVars, news
<1>2. \/ UNCHANGED writer
      \/ writer' = [writer EXCEPT ![c] = "done"]
  BY ZenonT(30)
     DEF Deliver, WriterEnd, ClientClose, UnsubscribePresence, netVars
<1>3. \A d \in Conn : writer'[d] = "running" => writer[d] = "running"
  BY SMTT(30), <1>2 DEF TypeOK
<1> QED BY ZenonT(30), <1>1, <1>3 DEF Steady

\* The handlers that answer at once, or send a signal.
LEMMA HandlerSteady ==
    ASSUME TypeOK, NEW c \in Conn,
           Answer(c) \/ LookupPeer(c) \/ LookupHandle(c) \/ Signal(c)
    PROVE  Steady(c)
<1>1. /\ pc[c] = "pump" /\ out[c] = <<>>
      /\ UNCHANGED <<by_pubkey, watchers, told, writer>>
  BY ZenonT(30) DEF Answer, LookupPeer, LookupHandle, Signal, Receive, Ready,
         registryVars, presenceVars, netVars, news
<1>2. \A p, d : /\ Tell(c, PeerInfo(p)).msg.kind # "presence"
                /\ TellOrFail(d, SignalFrom(p)).msg.kind # "presence"
  BY SMTT(30) DEF Tell, TellOrFail, PeerInfo, SignalFrom
<1>3. \A p, d : /\ NoUpdate(<<Tell(c, PeerInfo(p))>>)
                /\ NoUpdate(<<TellOrFail(d, SignalFrom(p))>>)
  BY ZenonT(30), <1>2, PlainSends
<1>4. \E sends : NoUpdate(sends) /\ Finish(c, sends)
  <2>1. CASE Answer(c)
    <3>1. \A kind \in {"error", "registered", "reply"} :
             Tell(c, Plain(kind)).msg.kind # "presence"
      BY ZenonT(30), PlainMessages
    <3> QED BY ZenonT(30), <2>1, <3>1, PlainSends DEF Answer
  <2>2. CASE LookupPeer(c)
    BY ZenonT(30), <1>3, <2>2, ErrorSends DEF LookupPeer, Fail
  <2>3. CASE LookupHandle(c)
    BY ZenonT(30), <1>3, <2>3, ErrorSends DEF LookupHandle, Fail
  <2>4. CASE Signal(c)
    BY ZenonT(30), <1>3, <2>4, ErrorSends DEF Signal, Fail
  <2> QED BY <2>1, <2>2, <2>3, <2>4
<1>5. PICK sends : NoUpdate(sends) /\ Goto(c, "pump", sends, NoLocals)
  BY ZenonT(30), <1>4 DEF Finish
<1> QED BY ZenonT(30), <1>1, <1>5, GotoSteady
           DEF Registered, Leaving, Unregistering

\* The relay handlers.
LEMMA RelaySteady ==
    ASSUME TypeOK, NEW c \in Conn,
           \/ RequestRelay(c) \/ InsertSession(c) \/ AcceptRelay(c)
           \/ AcceptInitiator(c) \/ AcceptResponder(c)
           \/ RelayFrame(c) \/ ForwardFrame(c)
    PROVE  Steady(c)
<1> DEFINE At == {"pump", "open", "accept_init", "accept_resp", "forward"}
<1>1. /\ pc[c] \in At /\ out[c] = <<>>
      /\ UNCHANGED <<by_pubkey, watchers, told, writer>>
  BY ZenonT(30) DEF RequestRelay, InsertSession, AcceptRelay, AcceptInitiator,
         AcceptResponder, RelayFrame, ForwardFrame, Receive, Ready,
         registryVars, presenceVars, netVars, news
<1>2. ASSUME Fail(c)
      PROVE  \E sends : NoUpdate(sends) /\ Goto(c, "pump", sends, NoLocals)
  BY ZenonT(30), <1>2, ErrorSends DEF Fail, Finish
<1>3. NoUpdate(<<>>)
  BY ErrorSends
<1>4. \E label \in At : \E sends, locals :
         NoUpdate(sends) /\ Goto(c, label, sends, locals)
  <2>1. CASE RequestRelay(c)
    BY ZenonT(30), <1>2, <1>3, <2>1 DEF RequestRelay
  <2>2. CASE InsertSession(c)
    BY ZenonT(30), <2>2, PlainMessages, PlainSends DEF InsertSession, Finish
  <2>3. CASE AcceptRelay(c)
    BY ZenonT(30), <1>2, <1>3, <2>3 DEF AcceptRelay
  <2>4. CASE AcceptInitiator(c)
    BY ZenonT(30), <1>2, <1>3, <2>4 DEF AcceptInitiator
  <2>5. CASE AcceptResponder(c)
    BY ZenonT(30), <1>2, <2>5, PlainMessages, PlainSends DEF AcceptResponder, Finish
  <2>6. CASE RelayFrame(c)
    BY ZenonT(30), <1>2, <1>3, <2>6 DEF RelayFrame
  <2>7. CASE ForwardFrame(c)
    BY ZenonT(30), <1>2, <2>7, PlainMessages, PlainSends DEF ForwardFrame, Finish
  <2> QED BY ZenonT(30), <2>1, <2>2, <2>3, <2>4, <2>5, <2>6, <2>7
<1>5. PICK label, sends, locals :
         label \in At /\ NoUpdate(sends) /\ Goto(c, label, sends, locals)
  BY ZenonT(30), <1>4
<1> QED BY ZenonT(30), <1>1, <1>5, GotoSteady
           DEF Registered, Leaving, Unregistering

\* serve_socket before the registry insert and after drop(tx).
LEMMA OutsideSteady ==
    ASSUME TypeOK, UpdateInv, NEW c \in Conn,
           \/ Register(c) \/ RejectRegister(c) \/ ClaimHandle(c)
           \/ InsertIndex(c) \/ EndSession(c)
    PROVE  Steady(c)
<1> DEFINE After == {"claim", "index", "insert", "drain", "closed"}
<1>1. /\ pc[c] \in {"first", "claim", "index", "drain"}
      /\ UNCHANGED <<by_pubkey, watchers, told, writer>>
  BY ZenonT(30)
     DEF Register, RejectRegister, ClaimHandle, InsertIndex, IndexHandle,
         EndSession, registryVars, presenceVars, netVars, news
<1>2. out[c] = <<>>
  BY ZenonT(30)
     DEF Register, RejectRegister, ClaimHandle, InsertIndex, EndSession, Ready,
         UpdateInv
<1>3. NoUpdate(<<>>) /\ NoUpdate(<<Tell(c, Plain("error"))>>)
  BY ErrorSends
<1>4. \E label \in After : \E sends :
         NoUpdate(sends) /\ Goto(c, label, sends, NoLocals)
  <2>1. CASE Register(c)
    BY ZenonT(30), <1>3, <2>1 DEF Register
  <2>2. CASE RejectRegister(c)
    BY ZenonT(30), <1>3, <2>2 DEF RejectRegister
  <2>3. CASE ClaimHandle(c) \/ InsertIndex(c) \/ EndSession(c)
    BY ZenonT(30), <1>3, <2>3 DEF ClaimHandle, InsertIndex, EndSession
  <2> QED BY <2>1, <2>2, <2>3
<1>5. PICK label, sends :
         label \in After /\ NoUpdate(sends) /\ Goto(c, label, sends, NoLocals)
  BY ZenonT(30), <1>4
<1> QED BY ZenonT(30), <1>1, <1>2, <1>5, GotoSteady
           DEF Registered, Leaving, Unregistering

\* The end of the stream, and the cleanup after registry.remove.
LEMMA CleanupSteady ==
    ASSUME TypeOK, NEW c \in Conn,
           \/ StreamEnd(c) \/ CheckIndex(c) \/ RemoveIndex(c)
           \/ ClearSubscriber(c) \/ CollectSession(c) \/ RemoveSession(c)
           \/ SessionsDropped(c)
    PROVE  Steady(c)
<1>1. out[c] = <<>> /\ UNCHANGED <<by_pubkey, watchers, told, writer>>
  BY ZenonT(30)
     DEF StreamEnd, CheckIndex, RemoveIndex, UnindexHandle, ClearSubscriber,
         BeginClear, CollectSession, RemoveSession, SessionsDropped, Ready,
         registryVars, presenceVars, netVars, news
<1>2. NoUpdate(<<>>)
  BY SMTT(30) DEF NoUpdate
<1>3. CASE StreamEnd(c)
  BY ZenonT(30), <1>1, <1>2, <1>3, GotoSteady
     DEF StreamEnd, Registered, Leaving, Unregistering
<1>4. CASE ~StreamEnd(c)
  <2>1. pc[c] \in Leaving
    BY ZenonT(30), <1>4
       DEF CheckIndex, RemoveIndex, ClearSubscriber, CollectSession,
           RemoveSession, SessionsDropped, Leaving, Unregistering
  <2>2. \E label \in {"unindex", "clear", "drop", "withdraw"} : \E locals :
           Goto(c, label, <<>>, locals)
    BY ZenonT(30), <1>4
       DEF CheckIndex, RemoveIndex, ClearSubscriber, CollectSession,
           RemoveSession, SessionsDropped
  <2>3. PICK label, locals : /\ label \in {"unindex", "clear", "drop", "withdraw"}
                             /\ Goto(c, label, <<>>, locals)
    BY SMTT(30), <2>2
  <2> QED BY ZenonT(30), <1>1, <1>2, <2>1, <2>3, GotoSteady
             DEF Registered, Leaving, Unregistering
<1> QED BY <1>3, <1>4

\* The end of a broadcast.
LEMMA BroadcastDoneSteady ==
    ASSUME TypeOK, NEW c \in Conn, BroadcastDone(c)
    PROVE  Steady(c)
<1>1. /\ pc[c] \in {"online", "offline"} /\ out[c] = <<>> /\ loc[c].todo = {}
      /\ UNCHANGED <<by_pubkey, watchers, told, writer>>
  BY ZenonT(30) DEF BroadcastDone, Ready, registryVars, presenceVars, netVars, news
<1>2. /\ pc'[c] = (IF pc[c] = "online" THEN "pump" ELSE "drain")
      /\ out'[c] = <<>>
      /\ \A j \in Conn \ {c} : /\ pc'[j] = pc[j] /\ out'[j] = out[j]
                               /\ loc'[j] = loc[j]
  BY SMTT(30) DEF BroadcastDone, Goto, TypeOK
<1>3. NoUpdate(out'[c])
  BY SMTT(30), <1>2 DEF NoUpdate
<1> QED BY ZenonT(30), <1>1, <1>2, <1>3
           DEF Steady, Registered, Leaving, Unregistering

\* subscribe: the ack waits for the updates that the handler will add to it.
LEMMA SubscribeSteady ==
    ASSUME TypeOK, NEW c \in Conn, SubscribePresence(c)
    PROVE  Steady(c)
<1>1. /\ pc[c] = "pump" /\ out[c] = <<>>
      /\ UNCHANGED <<by_pubkey, watchers, told, writer>>
  BY ZenonT(30) DEF SubscribePresence, BeginSubscribe, Receive, Ready,
         registryVars, netVars, news
<1>2. /\ pc'[c] = "online_set" /\ out'[c] = <<Tell(c, Plain("ack"))>>
      /\ \A j \in Conn \ {c} : /\ pc'[j] = pc[j] /\ out'[j] = out[j]
                               /\ loc'[j] = loc[j]
  BY SMTT(30) DEF SubscribePresence, Goto, TypeOK
<1>3. NoUpdate(out'[c])
  BY ZenonT(30), <1>2, PlainMessages, PlainSends
<1>4. Ignores(c)'
  <2>1. \A n \in DOMAIN out'[c] : n = 1 /\ out'[c][n] = Tell(c, Plain("ack"))
    BY SMTT(30), <1>2
  <2>2. ~Tell(c, Plain("ack")).must
    BY ZenonT(30) DEF Tell
  <2> QED BY ZenonT(30), <2>1, <2>2 DEF Ignores
<1> QED BY ZenonT(30), <1>1, <1>2, <1>3, <1>4
           DEF Steady, Registered, Leaving, Unregistering

-----------------------------------------------------------------------------
(***************************************************************************)
(* The updates that are left to send, in the steps that are not steady.    *)
(***************************************************************************)
\* The sends after the first one, and where the others are.
LEMMA TailSends ==
    ASSUME NEW q \in Seq(PendingSend), q # <<>>, NEW r, r = Tail(q)
    PROVE  /\ \A n \in DOMAIN r : \E m \in DOMAIN q : r[n] = q[m]
           /\ \A n \in DOMAIN q : q[n] = Head(q) \/ \E m \in DOMAIN r : r[m] = q[n]
<1>1. \A n \in DOMAIN r : n + 1 \in DOMAIN q /\ r[n] = q[n + 1]
  BY SMTT(30)
<1>2. \A n \in DOMAIN q : n # 1 => n - 1 \in DOMAIN r /\ r[n - 1] = q[n]
  BY SMTT(30)
<1>3. Head(q) = q[1]
  BY SMTT(30)
<1> QED BY ZenonT(30), <1>1, <1>2, <1>3

\* One send more.
LEMMA AppendSends ==
    ASSUME NEW q \in Seq(PendingSend), NEW s \in PendingSend, NEW r, r = Append(q, s)
    PROVE  /\ \A n \in DOMAIN r : r[n] = s \/ \E m \in DOMAIN q : r[n] = q[m]
           /\ \A n \in DOMAIN q : n \in DOMAIN r /\ r[n] = q[n]
           /\ \E n \in DOMAIN r : r[n] = s
<1>1. \A n \in DOMAIN r : n = Len(q) + 1 \/ n \in DOMAIN q
  BY SMTT(30)
<1>2. \A n \in DOMAIN q : n \in DOMAIN r /\ r[n] = q[n]
  BY SMTT(30)
<1>3. Len(q) + 1 \in DOMAIN r /\ r[Len(q) + 1] = s
  BY SMTT(30)
<1> QED BY ZenonT(30), <1>1, <1>2, <1>3

\* A task whose sends are, from now on, what UpdateInv says.
LEMMA OwnUpdates ==
    ASSUME UpdateInv, NEW k \in Conn,
           \A j \in Conn \ {k} : pc'[j] = pc[j] /\ out'[j] = out[j],
           pc'[k] = "first" => out'[k] = <<>>,
           pc'[k] \in {"online_set", "online", "offline"} => Ignores(k)',
           \A n \in DOMAIN out'[k] : out'[k][n].msg.kind = "presence" =>
               Ignores(k)' /\ UpdateBy(k, out[k][n])'
    PROVE  UpdateInv'
<1>1. ASSUME NEW j \in Conn \ {k}
      PROVE  /\ pc'[j] = "first" => out'[j] = <<>>
             /\ pc'[j] \in {"online_set", "online", "offline"} => Ignores(j)'
             /\ \A n \in DOMAIN out'[j] : out'[j][n].msg.kind = "presence" =>
                    Ignores(j)' /\ UpdateBy(j, out[j][n])'
  <2>1. pc'[j] = pc[j] /\ out'[j] = out[j]
    BY ZenonT(30), <1>1
  <2>2. Ignores(j)' <=> Ignores(j)
    BY ZenonT(30), <2>1 DEF Ignores
  <2>3. \A n \in DOMAIN out[j] : UpdateBy(j, out[j][n])' <=> UpdateBy(j, out[j][n])
    BY ZenonT(30), <2>1 DEF UpdateBy
  <2> QED BY ZenonT(30), <2>1, <2>2, <2>3 DEF UpdateInv
<1> QED BY ZenonT(30), <1>1 DEF UpdateInv

\* A task that has sent its sends and has no update to add.
LEMMA NoOwnUpdates ==
    ASSUME UpdateInv, NEW k \in Conn,
           \A j \in Conn \ {k} : pc'[j] = pc[j] /\ out'[j] = out[j],
           NoUpdate(out'[k]), pc'[k] # "first",
           pc'[k] \in {"online_set", "online", "offline"} => Ignores(k)'
    PROVE  UpdateInv'
BY ZenonT(30), OwnUpdates DEF NoUpdate

\* registry.insert, registry.remove and the snapshot of a broadcast.
LEMMA ChangeUpdates ==
    ASSUME TypeOK, UpdateInv, NEW c \in Conn,
           InsertPeer(c) \/ RemovePeer(c) \/ Snapshot(c)
    PROVE  UpdateInv'
<1>1. CASE InsertPeer(c)
  <2>1. /\ pc'[c] = "announce" /\ out'[c] = <<Tell(c, Plain("registered"))>>
        /\ \A j \in Conn \ {c} : pc'[j] = pc[j] /\ out'[j] = out[j]
    BY ZenonT(30), <1>1, GotoEffect DEF InsertPeer
  <2>2. Tell(c, Plain("registered")).msg.kind # "presence"
    BY ZenonT(30), PlainMessages
  <2>3. NoUpdate(out'[c])
    BY ZenonT(30), <2>1, <2>2, PlainSends
  <2> QED BY ZenonT(30), <2>1, <2>3, NoOwnUpdates
<1>2. CASE RemovePeer(c) \/ Snapshot(c)
  <2>1. \E label \in {"unindex_check", "clear", "online", "offline"} : \E locals :
           Goto(c, label, <<>>, locals)
    BY ZenonT(30), <1>2 DEF RemovePeer, Snapshot
  <2>2. /\ pc'[c] # "first" /\ out'[c] = <<>>
        /\ \A j \in Conn \ {c} : pc'[j] = pc[j] /\ out'[j] = out[j]
    BY SMTT(30), <2>1 DEF Goto, TypeOK
  <2>3. NoUpdate(out'[c]) /\ Ignores(c)'
    BY SMTT(30), <2>2 DEF NoUpdate, Ignores
  <2> QED BY ZenonT(30), <2>2, <2>3, NoOwnUpdates
<1> QED BY <1>1, <1>2

\* One watcher of a broadcast.
LEMMA NotifyUpdates ==
    ASSUME TypeOK, UpdateInv, NEW c \in Conn, NotifyWatcher(c)
    PROVE  UpdateInv'
<1>1. PICK w : Goto(c, pc[c], Notify(c, w), ToVisit(loc[c].todo \ {w}))
  BY ZenonT(30) DEF NotifyWatcher
<1>2. /\ pc'[c] = pc[c] /\ out'[c] = Notify(c, w)
      /\ \A j \in Conn \ {c} : pc'[j] = pc[j] /\ out'[j] = out[j]
  BY SMTT(30), <1>1 DEF Goto, TypeOK
<1>3. pc[c] \in {"online", "offline"}
  BY ZenonT(30) DEF NotifyWatcher
<1> DEFINE s == Tell(by_pubkey[w], PresenceUpdate(PubkeyOf[c], pc[c] = "online"))
<1>4. \A n \in DOMAIN out'[c] : out'[c][n] = s
  <2>1. out'[c] = <<>> \/ out'[c] = <<s>>
    BY ZenonT(30), <1>2 DEF Notify
  <2> HIDE DEF s
  <2> QED BY SMTT(30), <2>1
<1>5. ~s.must /\ s.msg.peer = PubkeyOf[c]
  BY SMTT(30) DEF Tell, PresenceUpdate
<1> HIDE DEF s
<1>6. Ignores(c)'
  BY ZenonT(30), <1>4, <1>5 DEF Ignores
<1>7. \A n \in DOMAIN out'[c] : UpdateBy(c, out[c][n])'
  BY ZenonT(30), <1>2, <1>3, <1>4, <1>5 DEF UpdateBy
<1> QED BY ZenonT(30), <1>2, <1>3, <1>6, <1>7, OwnUpdates

\* The snapshot that subscribing takes.
LEMMA ReadOnlineUpdates ==
    ASSUME TypeOK, UpdateInv, NEW c \in Conn, ReadOnline(c)
    PROVE  UpdateInv'
<1>1. PICK p \in loc[c].todo :
        Goto(c, "online_set", Append(out[c], Tell(c, PresenceUpdate(p, IsOnline(p)))),
             ToVisit(loc[c].todo \ {p}))
  BY ZenonT(30) DEF ReadOnline
<1> DEFINE s == Tell(c, PresenceUpdate(p, IsOnline(p)))
<1>2. /\ pc'[c] = "online_set" /\ out'[c] = Append(out[c], s)
      /\ \A j \in Conn \ {c} : pc'[j] = pc[j] /\ out'[j] = out[j]
  BY SMTT(30), <1>1 DEF Goto, TypeOK
<1>3. /\ pc[c] = "online_set"
      /\ out[c] \in Seq(PendingSend) /\ s \in PendingSend
  <2>1. p \in Peer
    BY SMTT(30) DEF TypeOK, Locals
  <2>2. PresenceUpdate(p, IsOnline(p)) \in Msg
    BY ZenonT(30), <2>1, PresenceUpdateType DEF IsOnline
  <2> QED BY ZenonT(30), <2>2, SendType DEF ReadOnline, TypeOK
<1>4. s.to = c /\ ~s.must
  BY ZenonT(30) DEF Tell
<1> HIDE DEF s
<1>5. \A n \in DOMAIN out'[c] :
        out'[c][n] = s \/ \E m \in DOMAIN out[c] : out'[c][n] = out[c][m]
  BY SMTT(30), <1>2, <1>3, AppendSends
<1>6. Ignores(c)'
  BY ZenonT(30), <1>3, <1>4, <1>5 DEF Ignores, UpdateInv
<1>7. ASSUME NEW n \in DOMAIN out'[c], out'[c][n].msg.kind = "presence"
      PROVE  UpdateBy(c, out[c][n])'
  <2>1. out'[c][n].to = c
    <3>1. \A m \in DOMAIN out[c] : out[c][m].msg.kind = "presence" => out[c][m].to = c
      BY ZenonT(30), <1>3 DEF UpdateInv, UpdateBy
    <3> QED BY ZenonT(30), <1>4, <1>5, <1>7, <3>1
  <2> QED BY ZenonT(30), <1>2, <2>1 DEF UpdateBy
<1> QED BY ZenonT(30), <1>2, <1>6, <1>7, OwnUpdates

\* The snapshot is complete.
LEMMA OnlineSetDoneUpdates ==
    ASSUME TypeOK, UpdateInv, NEW c \in Conn, OnlineSetDone(c)
    PROVE  UpdateInv'
<1>1. /\ pc[c] = "online_set" /\ pc'[c] = "pump" /\ out'[c] = out[c]
      /\ \A j \in Conn \ {c} : pc'[j] = pc[j] /\ out'[j] = out[j]
  BY SMTT(30) DEF OnlineSetDone, Goto, TypeOK
<1>2. Ignores(c)'
  BY ZenonT(30), <1>1 DEF Ignores, UpdateInv
<1>3. \A n \in DOMAIN out'[c] : out'[c][n].msg.kind = "presence" =>
        UpdateBy(c, out[c][n])'
  BY ZenonT(30), <1>1 DEF UpdateInv, UpdateBy
<1> QED BY ZenonT(30), <1>1, <1>2, <1>3, OwnUpdates

\* A send.
LEMMA SendUpdates ==
    ASSUME TypeOK, UpdateInv, NEW c \in Conn, Send(c)
    PROVE  UpdateInv'
<1>1. out[c] # <<>> /\ out[c] \in Seq(PendingSend)
  BY ZenonT(30) DEF Send, TypeOK
<1>2. /\ out'[c] \in {Tail(out[c]), AfterFailure(c)}
      /\ \A j \in Conn \ {c} : pc'[j] = pc[j] /\ out'[j] = out[j]
  <2>1. /\ pc' = pc
        /\ \E q \in {Tail(out[c]), AfterFailure(c)} : out' = [out EXCEPT ![c] = q]
    BY ZenonT(30) DEF Send
  <2> QED BY SMTT(30), <2>1 DEF TypeOK
<1>3. pc'[c] = pc[c] /\ pc[c] # "first"
  BY ZenonT(30), <1>1 DEF Send, UpdateInv
<1>4. CASE out'[c] = Tail(out[c])
  <2>1. \A n \in DOMAIN out'[c] : \E m \in DOMAIN out[c] : out'[c][n] = out[c][m]
    BY SMTT(30), <1>1, <1>4, TailSends
  <2>2. Ignores(c) => Ignores(c)'
    BY ZenonT(30), <2>1 DEF Ignores
  <2>3. \A n \in DOMAIN out'[c] : out'[c][n].msg.kind = "presence" =>
          Ignores(c)' /\ UpdateBy(c, out[c][n])'
    BY ZenonT(30), <1>3, <2>1, <2>2 DEF UpdateInv, UpdateBy
  <2>4. pc'[c] \in {"online_set", "online", "offline"} => Ignores(c)'
    BY ZenonT(30), <1>3, <2>2 DEF UpdateInv
  <2> QED BY ZenonT(30), <1>2, <1>3, <2>3, <2>4, OwnUpdates
<1>5. CASE out'[c] = <<Tell(c, Plain("error"))>>
  <2>1. NoUpdate(out'[c])
    BY ZenonT(30), <1>5, ErrorSends
  <2>2. \A n \in DOMAIN out'[c] : out'[c][n] = Tell(c, Plain("error"))
    BY SMTT(30), <1>5
  <2>3. ~Tell(c, Plain("error")).must
    BY ZenonT(30) DEF Tell
  <2>4. Ignores(c)'
    BY ZenonT(30), <2>2, <2>3 DEF Ignores
  <2> QED BY ZenonT(30), <1>2, <1>3, <2>1, <2>4, NoOwnUpdates
<1> QED BY ZenonT(30), <1>2, <1>4, <1>5 DEF AfterFailure

-----------------------------------------------------------------------------
(***************************************************************************)
(* subscribe, and the peers whose state its handler has yet to read.       *)
(***************************************************************************)
\* A step of a connection moves its own task only.
LEMMA OwnTask ==
    ASSUME TypeOK, NEW c \in Conn, TaskStep(c) \/ ClientStep(c)
    PROVE  \A j \in Conn \ {c} : pc'[j] = pc[j] /\ loc'[j] = loc[j]
<1>1. CASE TaskStep(c)
  BY ZenonT(30), <1>1, StillOrdinary, OutsideOrdinary, BroadcastOrdinary,
     OnlineSetOrdinary, RelayOrdinary, CleanupEffect, InsertPeerEffect,
     RemovePeerEffect DEF TaskStep, Ordinary
<1>2. CASE ClientStep(c)
  BY ZenonT(30), <1>2, StillOrdinary, OutsideOrdinary, HandlerOrdinary,
     OnlineSetOrdinary, RelayOrdinary DEF ClientStep, Ordinary
<1> QED BY <1>1, <1>2

\* A task that moves outside of the presence handlers is inside no call.
LEMMA TaskCallSame ==
    ASSUME NEW c \in Conn, TaskStep(c), ~PresenceCall(c), ~ClearSubscriber(c)
    PROVE  UNCHANGED call /\ (UNCHANGED <<pc, loc>> \/ call[c] = Idle)
BY ZenonT(30)
   DEF TaskStep, Send, ClaimHandle, InsertIndex, InsertPeer, Snapshot,
       NotifyWatcher, BroadcastDone, ReadOnline, OnlineSetDone, InsertSession,
       AcceptInitiator, AcceptResponder, ForwardFrame, StreamEnd, RemovePeer,
       CheckIndex, RemoveIndex, CollectSession, RemoveSession, SessionsDropped,
       EndSession, Ready, presenceVars

\* The same, for the steps that a client makes happen.
LEMMA ClientCallSame ==
    ASSUME NEW c \in Conn, ClientStep(c), ~SubscribePresence(c),
           ~UnsubscribePresence(c)
    PROVE  /\ UNCHANGED call
           /\ UNCHANGED <<pc, loc>> \/ call[c] = Idle \/ pc[c] = "first"
BY ZenonT(30)
   DEF ClientStep, Register, RejectRegister, ClientClose, Answer, LookupPeer,
       LookupHandle, Signal, RequestRelay, AcceptRelay, RelayFrame, Receive, Ready,
       presenceVars, taskVars

\* The call of the task that a step is one of.
LEMMA OwnSubscribe ==
    ASSUME SubscribeInv, NEW c \in Conn,
           \A j \in Conn \ {c} : /\ pc'[j] = pc[j] /\ loc'[j] = loc[j]
                                 /\ call'[j] = call[j],
           call'[c].op = "subscribe" =>
               pc'[c] = "online_set" /\ call'[c].todo \subseteq loc'[c].todo
    PROVE  SubscribeInv'
BY ZenonT(30) DEF SubscribeInv

\* The call of c after it started one, or had nothing to do.
LEMMA EnterEffect ==
    ASSUME TypeOK, NEW c \in Conn, NEW op, NEW who, NEW todo, NEW lock,
           call[c] = Idle,
           UNCHANGED call \/ Enter(c, op, who, todo, lock)
    PROVE  /\ \A j \in Conn \ {c} : call'[j] = call[j]
           /\ call'[c].op \in {"idle", op}
           /\ call'[c].op = "idle" \/ call'[c].todo = todo
BY SMTT(30) DEF Enter, Idle, CallOf, TypeOK, PresenceTypeOK

\* The presence handlers and clear_subscriber start their calls.
LEMMA BeginSubscribeInv ==
    ASSUME TypeOK, SubscribeInv, NEW c \in Conn,
           SubscribePresence(c) \/ UnsubscribePresence(c) \/ ClearSubscriber(c)
    PROVE  SubscribeInv'
<1>1. \A j \in Conn \ {c} : pc'[j] = pc[j] /\ loc'[j] = loc[j]
  BY ZenonT(30), OwnTask DEF TaskStep, ClientStep
<1>2. CASE SubscribePresence(c)
  <2>1. PICK peers \in PeerLists :
          /\ BeginSubscribe(c, PubkeyOf[c], peers)
          /\ Goto(c, "online_set", <<Tell(c, Plain("ack"))>>, ToVisit(peers))
    BY ZenonT(30), <1>2 DEF SubscribePresence
  <2>2. pc'[c] = "online_set" /\ loc'[c].todo = peers
    BY SMTT(30), <2>1, VisitEffect
  <2>3. /\ call[c] = Idle
        /\ UNCHANGED call \/ Enter(c, "subscribe", PubkeyOf[c], peers, TRUE)
    BY ZenonT(30), <2>1 DEF BeginSubscribe
  <2>4. /\ \A j \in Conn \ {c} : call'[j] = call[j]
        /\ call'[c].op = "idle" \/ call'[c].todo = peers
    BY ZenonT(30), <2>3, EnterEffect
  <2> QED BY ZenonT(30), <1>1, <2>2, <2>4, OwnSubscribe
<1>3. ASSUME NEW op \in {"unsubscribe", "clear"}, NEW who, NEW todo, NEW lock,
             call[c] = Idle, UNCHANGED call \/ Enter(c, op, who, todo, lock)
      PROVE  SubscribeInv'
  <2>1. /\ \A j \in Conn \ {c} : call'[j] = call[j]
        /\ call'[c].op \in {"idle", op}
    BY ZenonT(30), <1>3, EnterEffect
  <2> QED BY ZenonT(30), <1>1, <1>3, <2>1, OwnSubscribe
<1>4. CASE UnsubscribePresence(c)
  BY ZenonT(30), <1>3, <1>4 DEF UnsubscribePresence, BeginUnsubscribe
<1>5. CASE ClearSubscriber(c)
  BY ZenonT(30), <1>3, <1>5 DEF ClearSubscriber, BeginClear
<1> QED BY <1>2, <1>4, <1>5

\* A step inside a presence call.
LEMMA CallSubscribeInv ==
    ASSUME TypeOK, SubscribeInv, NEW c \in Conn, PresenceCall(c)
    PROVE  SubscribeInv'
<1>1. UNCHANGED <<pc, loc>> /\ PresenceTypeOK
  BY ZenonT(30) DEF PresenceCall, taskVars, TypeOK
<1>2. PICK todo, reap : todo \subseteq call[c].todo /\ Continue(c, todo, reap)
  <2>1. CASE SubscribeTarget(c) \/ UnwatchTarget(c)
    <3>1. \E t, reap : Continue(c, call[c].todo \ {t}, reap)
      BY ZenonT(30), <2>1 DEF SubscribeTarget, UnwatchTarget
    <3> QED BY ZenonT(30), <3>1
  <2>2. CASE ReapTarget(c)
    BY ZenonT(30), <2>2 DEF ReapTarget
  <2> QED BY ZenonT(30), <2>1, <2>2 DEF PresenceCall, PresenceStep
<1>3. /\ \A j \in Conn \ {c} : call'[j] = call[j]
      /\ \/ call'[c].op = "idle"
         \/ call'[c].op = call[c].op /\ call'[c].todo = todo
  BY SMTT(30), <1>1, <1>2 DEF Continue, PresenceTypeOK, CallOf, Idle
<1>4. call'[c].op = "subscribe" =>
        pc'[c] = "online_set" /\ call'[c].todo \subseteq loc'[c].todo
  BY ZenonT(30), <1>1, <1>2, <1>3 DEF SubscribeInv
<1> QED BY ZenonT(30), <1>1, <1>3, <1>4, OwnSubscribe

\* Every step keeps it so.
LEMMA NextSubscribe == TypeOK /\ SubscribeInv /\ [Next]_vars => SubscribeInv'
<1> SUFFICES ASSUME TypeOK, SubscribeInv, [Next]_vars PROVE SubscribeInv'
  OBVIOUS
<1>1. ASSUME UNCHANGED <<pc, loc, call>> PROVE SubscribeInv'
  BY ZenonT(30), <1>1 DEF SubscribeInv
<1>2. CASE UNCHANGED vars
  BY ZenonT(30), <1>1, <1>2 DEF vars, presenceVars, taskVars
<1>3. ASSUME NEW c \in Conn, TaskStep(c) \/ ClientStep(c), UNCHANGED call,
             UNCHANGED <<pc, loc>> \/ call[c] = Idle \/ pc[c] = "first"
      PROVE  SubscribeInv'
  <2>1. \A j \in Conn \ {c} : pc'[j] = pc[j] /\ loc'[j] = loc[j]
    BY ZenonT(30), <1>3, OwnTask
  <2>2. CASE UNCHANGED <<pc, loc>>
    BY ZenonT(30), <1>1, <1>3, <2>2
  <2>3. CASE call[c] = Idle \/ pc[c] = "first"
    <3>1. call[c].op # "subscribe"
      <4>1. Idle.op # "subscribe"
        BY SMTT(30) DEF Idle, CallOf
      <4> QED BY ZenonT(30), <2>3, <4>1 DEF SubscribeInv
    <3> QED BY ZenonT(30), <1>3, <2>1, <3>1, OwnSubscribe
  <2> QED BY <1>3, <2>2, <2>3
<1>4. ASSUME NEW c \in Conn, TaskStep(c) PROVE SubscribeInv'
  BY ZenonT(30), <1>3, <1>4, TaskCallSame, CallSubscribeInv, BeginSubscribeInv
<1>5. ASSUME NEW c \in Conn, ClientStep(c) PROVE SubscribeInv'
  BY ZenonT(30), <1>3, <1>5, ClientCallSame, BeginSubscribeInv
<1>6. ASSUME NEW c \in Conn, Deliver(c) \/ WriterEnd(c) PROVE SubscribeInv'
  BY ZenonT(30), <1>1, <1>6 DEF Deliver, WriterEnd, presenceVars, taskVars
<1> QED BY ZenonT(30), <1>2, <1>4, <1>5, <1>6 DEF Next, Terminated

\* Every step is steady, or one of those that say or change something.
LEMMA SteadyOr ==
    ASSUME TypeOK, UpdateInv, NEW c \in Conn,
           TaskStep(c) \/ ClientStep(c) \/ Deliver(c) \/ WriterEnd(c)
    PROVE  \/ Steady(c)
           \/ Send(c) \/ PresenceCall(c) \/ InsertPeer(c) \/ RemovePeer(c)
           \/ Snapshot(c) \/ NotifyWatcher(c) \/ ReadOnline(c) \/ OnlineSetDone(c)
<1>1. CASE TaskStep(c)
  BY ZenonT(30), <1>1, OutsideSteady, BroadcastDoneSteady, RelaySteady,
     CleanupSteady DEF TaskStep
<1>2. CASE ClientStep(c)
  BY ZenonT(30), <1>2, StillSteady, OutsideSteady, HandlerSteady, RelaySteady,
     SubscribeSteady DEF ClientStep
<1> QED BY <1>1, <1>2, StillSteady

\* Every step keeps the updates that are left to send as UpdateInv has them.
LEMMA NextUpdates == TypeOK /\ UpdateInv /\ [Next]_vars => UpdateInv'
<1> SUFFICES ASSUME TypeOK, UpdateInv, [Next]_vars PROVE UpdateInv'
  OBVIOUS
<1>1. ASSUME UNCHANGED <<pc, out>> PROVE UpdateInv'
  BY ZenonT(30), <1>1 DEF UpdateInv, Ignores, UpdateBy
<1>2. CASE UNCHANGED vars
  BY ZenonT(30), <1>1, <1>2 DEF vars, taskVars
<1>3. ASSUME NEW c \in Conn, PresenceCall(c) PROVE UpdateInv'
  BY ZenonT(30), <1>1, <1>3 DEF PresenceCall, taskVars
<1>4. ASSUME NEW c \in Conn,
             TaskStep(c) \/ ClientStep(c) \/ Deliver(c) \/ WriterEnd(c)
      PROVE  UpdateInv'
  BY ZenonT(30), <1>3, <1>4, SteadyOr, SteadyUpdates, SendUpdates, ChangeUpdates,
     NotifyUpdates, ReadOnlineUpdates, OnlineSetDoneUpdates
<1> QED BY ZenonT(30), <1>2, <1>4 DEF Next, Terminated

-----------------------------------------------------------------------------
(***************************************************************************)
(* What watchers are told, in the steps that are not steady.               *)
(***************************************************************************)
\* Nobody starts to watch, or to be a session that can be told.
LEMMA WatchingKept ==
    ASSUME UNCHANGED <<watchers, writer>>, NEW c \in Conn, NEW t \in Peer,
           pc'[c] \in Registered => pc[c] \in Registered,
           Watching(c, t)'
    PROVE  Watching(c, t)
BY ZenonT(30) DEF Watching, WatchersOf, SetOf, OnlyConnection

\* What c knows after a step of k: the same, unless k was about to tell it.
LEMMA InformedBut ==
    ASSUME NEW k \in Conn, NEW c \in Conn, NEW t \in Peer, NEW b \in BOOLEAN,
           Informed(c, t, b),
           <<t, b>> \in told[c] => <<t, b>> \in told'[c],
           \A j \in Conn \ {k} : /\ pc'[j] = pc[j] /\ out'[j] = out[j]
                                 /\ loc'[j] = loc[j],
           Queued(k, c, t, b) => Informed(c, t, b)',
           PubkeyOf[k] = t /\ WillTell(k, PubkeyOf[c], b) => Informed(c, t, b)',
           c = k /\ pc[k] = "online_set" /\ t \in loc[k].todo => Informed(c, t, b)'
    PROVE  Informed(c, t, b)'
<1>1. CASE <<t, b>> \in told[c]
  BY ZenonT(30), <1>1 DEF Informed
<1>2. CASE pc[c] = "online_set" /\ t \in loc[c].todo
  BY ZenonT(30), <1>2 DEF Informed
<1>3. ASSUME NEW j \in Conn, Queued(j, c, t, b), j # k PROVE Informed(c, t, b)'
  <2>1. Queued(j, c, t, b)'
    BY ZenonT(30), <1>3 DEF Queued, PresenceUpdate
  <2> QED BY ZenonT(30), <2>1 DEF Informed
<1>4. ASSUME NEW d \in Conn, PubkeyOf[d] = t, WillTell(d, PubkeyOf[c], b), d # k
      PROVE  Informed(c, t, b)'
  <2>1. WillTell(d, PubkeyOf[c], b)'
    BY ZenonT(30), <1>4 DEF WillTell
  <2> QED BY ZenonT(30), <1>4, <2>1 DEF Informed
<1> QED BY ZenonT(30), <1>1, <1>2, <1>3, <1>4 DEF Informed

\* A task that has nothing left to send has no update queued.
LEMMA NothingQueued ==
    ASSUME NEW k, out[k] = <<>>, NEW c, NEW t, NEW b
    PROVE  ~Queued(k, c, t, b)
BY SMTT(30) DEF Queued

\* The invariant, after a step that leaves registry, watchers and writers alone.
LEMMA ToldKept ==
    ASSUME ToldInv, UNCHANGED <<by_pubkey, watchers, writer>>, NEW k \in Conn,
           \A j \in Conn \ {k} : pc'[j] = pc[j],
           pc'[k] \in Registered => pc[k] \in Registered,
           ASSUME NEW c \in Conn, NEW t \in Peer, NEW b \in BOOLEAN,
                  Watching(c, t), Informed(c, t, b), b = IsOnline(t)
           PROVE  Informed(c, t, b)'
    PROVE  ToldInv'
<1> SUFFICES ASSUME NEW c \in Conn, NEW t \in Peer, Watching(c, t)'
             PROVE  Informed(c, t, IsOnline(t))'
  BY ZenonT(30) DEF ToldInv
<1>1. Watching(c, t)
  BY ZenonT(30), WatchingKept
<1>2. PICK b \in BOOLEAN : b = IsOnline(t) /\ b = IsOnline(t)'
  BY ZenonT(30) DEF IsOnline
<1>3. Informed(c, t, b)
  BY ZenonT(30), <1>1, <1>2 DEF ToldInv
<1>4. Informed(c, t, b)'
  BY ZenonT(30), <1>1, <1>2, <1>3
<1> QED BY ZenonT(30), <1>2, <1>4

\* A broadcast reads the watchers.
LEMMA SnapshotTold ==
    ASSUME TypeOK, ToldInv, NEW k \in Conn, Snapshot(k)
    PROVE  ToldInv'
<1>1. /\ out[k] = <<>> /\ pc[k] \in {"announce", "withdraw"}
      /\ UNCHANGED <<by_pubkey, watchers, writer, told>>
  BY ZenonT(30) DEF Snapshot, Ready, registryVars, presenceVars, netVars, news
<1>2. /\ pc'[k] = (IF pc[k] = "announce" THEN "online" ELSE "offline")
      /\ loc'[k].todo = WatchersOf(PubkeyOf[k])
      /\ \A j \in Conn \ {k} : /\ pc'[j] = pc[j] /\ out'[j] = out[j]
                               /\ loc'[j] = loc[j]
  <2>1. Goto(k, IF pc[k] = "announce" THEN "online" ELSE "offline", <<>>,
             ToVisit(WatchersOf(PubkeyOf[k])))
    BY ZenonT(30) DEF Snapshot
  <2> QED BY SMTT(30), <2>1, VisitEffect
<1>3. ASSUME NEW c \in Conn, NEW t \in Peer, NEW b \in BOOLEAN,
             Watching(c, t), Informed(c, t, b), b = IsOnline(t)
      PROVE  Informed(c, t, b)'
  <2>1. ~Queued(k, c, t, b)
    BY ZenonT(30), <1>1, NothingQueued
  <2>2. ASSUME PubkeyOf[k] = t, WillTell(k, PubkeyOf[c], b)
        PROVE  Informed(c, t, b)'
    <3>1. PubkeyOf[c] \in loc'[k].todo
      BY ZenonT(30), <1>2, <1>3, <2>2 DEF Watching
    <3>2. WillTell(k, PubkeyOf[c], b)'
      BY ZenonT(30), <1>1, <1>2, <2>2, <3>1 DEF WillTell, Leaving, Unregistering
    <3> QED BY ZenonT(30), <2>2, <3>2 DEF Informed
  <2> QED BY ZenonT(30), <1>1, <1>2, <1>3, <2>1, <2>2, InformedBut
<1>4. pc'[k] \in Registered => pc[k] \in Registered
  BY ZenonT(30), <1>1, <1>2 DEF Registered
<1> QED BY ZenonT(30), <1>1, <1>2, <1>3, <1>4, ToldKept

\* One watcher of a broadcast: its entry is the session that has yet to be told.
LEMMA NotifyTold ==
    ASSUME TypeOK, ToldInv, SessionsOnline, NEW k \in Conn, NotifyWatcher(k)
    PROVE  ToldInv'
<1>1. /\ out[k] = <<>> /\ pc[k] \in {"online", "offline"}
      /\ UNCHANGED <<by_pubkey, watchers, writer, told>>
  BY ZenonT(30) DEF NotifyWatcher, Ready, registryVars, presenceVars, netVars, news
<1>2. PICK w : Goto(k, pc[k], Notify(k, w), ToVisit(loc[k].todo \ {w}))
  BY ZenonT(30) DEF NotifyWatcher
<1>3. /\ pc'[k] = pc[k] /\ out'[k] = Notify(k, w)
      /\ loc'[k].todo = loc[k].todo \ {w}
      /\ \A j \in Conn \ {k} : /\ pc'[j] = pc[j] /\ out'[j] = out[j]
                               /\ loc'[j] = loc[j]
  BY SMTT(30), <1>2, VisitEffect
<1>4. ASSUME NEW c \in Conn, NEW t \in Peer, NEW b \in BOOLEAN,
             Watching(c, t), Informed(c, t, b), b = IsOnline(t)
      PROVE  Informed(c, t, b)'
  <2>1. ~Queued(k, c, t, b)
    BY ZenonT(30), <1>1, NothingQueued
  <2>2. ASSUME PubkeyOf[k] = t, WillTell(k, PubkeyOf[c], b)
        PROVE  Informed(c, t, b)'
    <3>1. CASE w # PubkeyOf[c]
      <4>1. WillTell(k, PubkeyOf[c], b)'
        BY ZenonT(30), <1>1, <1>3, <2>2, <3>1 DEF WillTell, Leaving, Unregistering
      <4> QED BY ZenonT(30), <2>2, <4>1 DEF Informed
    <3>2. CASE w = PubkeyOf[c]
      <4>1. by_pubkey[w] = c /\ IsOnline(w)
        BY ZenonT(30), <1>4, <3>2, NoneAssumption
           DEF SessionsOnline, Watching, IsOnline
      <4>2. b = (pc[k] = "online")
        BY ZenonT(30), <1>1, <2>2 DEF WillTell, Leaving, Unregistering
      <4>3. out'[k] = <<Tell(c, PresenceUpdate(t, b))>>
        BY ZenonT(30), <1>3, <2>2, <4>1, <4>2 DEF Notify
      <4>4. 1 \in DOMAIN out'[k] /\ out'[k][1] = Tell(c, PresenceUpdate(t, b))
        BY SMTT(30), <4>3
      <4>5. /\ Tell(c, PresenceUpdate(t, b)).to = c
            /\ Tell(c, PresenceUpdate(t, b)).msg = PresenceUpdate(t, b)
        BY ZenonT(30) DEF Tell
      <4>6. Queued(k, c, t, b)'
        BY ZenonT(30), <4>4, <4>5 DEF Queued, PresenceUpdate
      <4> QED BY ZenonT(30), <4>6 DEF Informed
    <3> QED BY <3>1, <3>2
  <2> QED BY ZenonT(30), <1>1, <1>3, <1>4, <2>1, <2>2, InformedBut
<1> QED BY ZenonT(30), <1>1, <1>3, <1>4, ToldKept

\* The snapshot that subscribing takes reads the state as it is.
LEMMA ReadOnlineTold ==
    ASSUME TypeOK, ToldInv, NEW k \in Conn, ReadOnline(k)
    PROVE  ToldInv'
<1>1. /\ pc[k] = "online_set" /\ UNCHANGED <<by_pubkey, watchers, writer, told>>
  BY ZenonT(30) DEF ReadOnline, registryVars, presenceVars, netVars, news
<1>2. PICK p \in loc[k].todo :
        Goto(k, "online_set", Append(out[k], Tell(k, PresenceUpdate(p, IsOnline(p)))),
             ToVisit(loc[k].todo \ {p}))
  BY ZenonT(30) DEF ReadOnline
<1> DEFINE s == Tell(k, PresenceUpdate(p, IsOnline(p)))
<1>3. out[k] \in Seq(PendingSend) /\ s \in PendingSend
  <2>1. p \in Peer
    BY SMTT(30) DEF TypeOK, Locals
  <2>2. PresenceUpdate(p, IsOnline(p)) \in Msg
    BY ZenonT(30), <2>1, PresenceUpdateType DEF IsOnline
  <2> QED BY ZenonT(30), <2>2, SendType DEF TypeOK
<1>4. s.to = k /\ s.msg = PresenceUpdate(p, IsOnline(p))
  BY ZenonT(30) DEF Tell
<1>5. Goto(k, "online_set", Append(out[k], s), ToVisit(loc[k].todo \ {p}))
  BY <1>2
<1> HIDE DEF s
<1>6. /\ pc'[k] = "online_set" /\ out'[k] = Append(out[k], s)
      /\ loc'[k].todo = loc[k].todo \ {p}
      /\ \A j \in Conn \ {k} : /\ pc'[j] = pc[j] /\ out'[j] = out[j]
                               /\ loc'[j] = loc[j]
  <2>1. PICK sends, peers :
          /\ sends = Append(out[k], s) /\ peers = loc[k].todo \ {p}
          /\ Goto(k, "online_set", sends, ToVisit(peers))
    BY ZenonT(30), <1>5
  <2>2. Goto(k, "online_set", sends, ToVisit(peers))
    BY <2>1
  <2>3. /\ pc'[k] = "online_set" /\ out'[k] = sends /\ loc'[k].todo = peers
        /\ \A j \in Conn \ {k} : /\ pc'[j] = pc[j] /\ out'[j] = out[j]
                                 /\ loc'[j] = loc[j]
    BY ZenonT(30), <2>2, VisitEffect
  <2> QED BY ZenonT(30), <2>1, <2>3
<1>7. /\ \A n \in DOMAIN out[k] : n \in DOMAIN out'[k] /\ out'[k][n] = out[k][n]
      /\ \E n \in DOMAIN out'[k] : out'[k][n] = s
  BY SMTT(30), <1>3, <1>6, AppendSends
<1>8. ASSUME NEW c \in Conn, NEW t \in Peer, NEW b \in BOOLEAN,
             Watching(c, t), Informed(c, t, b), b = IsOnline(t)
      PROVE  Informed(c, t, b)'
  <2>1. ASSUME Queued(k, c, t, b) PROVE Informed(c, t, b)'
    <3>1. Queued(k, c, t, b)'
      BY ZenonT(30), <1>7, <2>1 DEF Queued, PresenceUpdate
    <3> QED BY ZenonT(30), <3>1 DEF Informed
  <2>2. ~WillTell(k, PubkeyOf[c], b)
    BY ZenonT(30), <1>1 DEF WillTell, Leaving, Unregistering
  <2>3. ASSUME c = k, t \in loc[k].todo PROVE Informed(c, t, b)'
    <3>1. CASE t = p
      <4>1. s.to = c /\ s.msg = PresenceUpdate(t, b)
        BY ZenonT(30), <1>4, <1>8, <2>3, <3>1
      <4>2. Queued(k, c, t, b)'
        BY ZenonT(30), <1>7, <4>1 DEF Queued, PresenceUpdate
      <4> QED BY ZenonT(30), <4>2 DEF Informed
    <3>2. CASE t # p
      BY ZenonT(30), <1>6, <2>3, <3>2 DEF Informed
    <3> QED BY <3>1, <3>2
  <2>4. \A j \in Conn \ {k} : /\ pc'[j] = pc[j] /\ out'[j] = out[j]
                               /\ loc'[j] = loc[j]
    BY <1>6
  <2>5. <<t, b>> \in told[c] => <<t, b>> \in told'[c]
    BY ZenonT(30), <1>1
  <2>6. Informed(c, t, b)
    BY <1>8
  <2> QED BY ZenonT(30), <2>1, <2>2, <2>3, <2>4, <2>5, <2>6, InformedBut
<1>9. \A j \in Conn \ {k} : pc'[j] = pc[j]
  BY ZenonT(30), <1>6
<1> QED BY ZenonT(30), <1>1, <1>6, <1>8, <1>9, ToldKept

\* The snapshot is complete.
LEMMA OnlineSetDoneTold ==
    ASSUME TypeOK, ToldInv, NEW k \in Conn, OnlineSetDone(k)
    PROVE  ToldInv'
<1>1. /\ pc[k] = "online_set" /\ loc[k].todo = {}
      /\ UNCHANGED <<by_pubkey, watchers, writer, told>>
  BY ZenonT(30) DEF OnlineSetDone, registryVars, presenceVars, netVars, news
<1>2. /\ pc'[k] = "pump" /\ out'[k] = out[k]
      /\ \A j \in Conn \ {k} : /\ pc'[j] = pc[j] /\ out'[j] = out[j]
                               /\ loc'[j] = loc[j]
  BY SMTT(30) DEF OnlineSetDone, Goto, TypeOK
<1>3. ASSUME NEW c \in Conn, NEW t \in Peer, NEW b \in BOOLEAN,
             Watching(c, t), Informed(c, t, b), b = IsOnline(t)
      PROVE  Informed(c, t, b)'
  <2>1. ASSUME Queued(k, c, t, b) PROVE Informed(c, t, b)'
    <3>1. Queued(k, c, t, b)'
      BY ZenonT(30), <1>2, <2>1 DEF Queued, PresenceUpdate
    <3> QED BY ZenonT(30), <3>1 DEF Informed
  <2>2. ~WillTell(k, PubkeyOf[c], b)
    BY ZenonT(30), <1>1 DEF WillTell, Leaving, Unregistering
  <2> QED BY ZenonT(30), <1>1, <1>2, <1>3, <2>1, <2>2, InformedBut
<1>4. pc'[k] \in Registered => pc[k] \in Registered
  BY ZenonT(30), <1>1 DEF Registered
<1>5. \A j \in Conn \ {k} : pc'[j] = pc[j]
  BY ZenonT(30), <1>2
<1> QED BY ZenonT(30), <1>1, <1>3, <1>4, <1>5, ToldKept

\* A send: an update that is queued for a live writer reaches its channel.
LEMMA SendTold ==
    ASSUME TypeOK, UpdateInv, ToldInv, NEW k \in Conn, Send(k)
    PROVE  ToldInv'
<1>1. /\ out[k] # <<>> /\ out[k] \in Seq(PendingSend)
      /\ UNCHANGED <<by_pubkey, watchers, writer, pc, loc>>
  BY ZenonT(30) DEF Send, TypeOK, registryVars, presenceVars
<1>2. \A j \in Conn \ {k} : pc'[j] = pc[j] /\ out'[j] = out[j] /\ loc'[j] = loc[j]
  <2>1. \E q : out' = [out EXCEPT ![k] = q]
    BY ZenonT(30) DEF Send
  <2> QED BY SMTT(30), <1>1, <2>1 DEF TypeOK
<1> DEFINE d == Head(out[k]).to
           m == Head(out[k]).msg
<1>3. \/ /\ writer[d] = "running" /\ out' = [out EXCEPT ![k] = Tail(@)]
         /\ Record(d, m)
      \/ /\ writer[d] = "done" /\ out' = [out EXCEPT ![k] = AfterFailure(k)]
         /\ UNCHANGED told
  BY ZenonT(30) DEF Send, news
<1>4. d \in Conn /\ told \in [Conn -> SUBSET (Peer \X BOOLEAN)]
  <2>1. out[k] # <<>> /\ out[k] \in Seq(PendingSend)
    BY <1>1
  <2>2. Head(out[k]) \in PendingSend
    BY SMTT(30), <2>1
  <2>3. d \in Conn
    BY SMTT(30), <2>2 DEF PendingSend
  <2> QED BY ZenonT(30), <2>3 DEF TypeOK
<1> HIDE DEF d, m
<1>5. \A c \in Conn : told[c] \subseteq told'[c]
  BY SMTT(30), <1>3, <1>4 DEF Record, news
<1>6. ASSUME NEW c \in Conn, NEW t \in Peer, NEW b \in BOOLEAN,
             Watching(c, t), Informed(c, t, b), b = IsOnline(t)
      PROVE  Informed(c, t, b)'
  <2>1. ASSUME Queued(k, c, t, b) PROVE Informed(c, t, b)'
    <3>1. PICK n \in DOMAIN out[k] :
            out[k][n].to = c /\ out[k][n].msg = PresenceUpdate(t, b)
      BY ZenonT(30), <2>1 DEF Queued
    <3>2. CASE out[k][n] = Head(out[k])
      <4>1. d = c /\ m = PresenceUpdate(t, b)
        BY ZenonT(30), <3>1, <3>2 DEF d, m
      <4>2. m.kind = "presence" /\ m.peer = t /\ m.online = b
        BY ZenonT(30), <4>1 DEF PresenceUpdate
      <4>3. told' = [told EXCEPT ![c] = @ \cup {<<t, b>>}]
        BY ZenonT(30), <1>3, <1>6, <4>1, <4>2 DEF Record, Watching
      <4>4. <<t, b>> \in told'[c]
        BY SMTT(30), <1>4, <4>3
      <4> QED BY ZenonT(30), <4>4 DEF Informed
    <3>3. CASE out[k][n] # Head(out[k])
      <4>1. out[k][n].msg.kind = "presence"
        <5>1. PresenceUpdate(t, b).kind = "presence"
          BY ZenonT(30) DEF PresenceUpdate
        <5> QED BY ZenonT(30), <3>1, <5>1
      <4>2. 1 \in DOMAIN out[k] /\ out[k][1] = Head(out[k])
        BY SMTT(30), <1>1
      <4>3. ~Head(out[k]).must
        BY ZenonT(30), <4>1, <4>2 DEF UpdateInv, Ignores
      <4>4. out' = [out EXCEPT ![k] = Tail(out[k])]
        BY ZenonT(30), <1>3, <4>3 DEF AfterFailure
      <4>5. out'[k] = Tail(out[k])
        BY ZenonT(30), <4>4 DEF TypeOK
      <4>6. \E i \in DOMAIN out'[k] : out'[k][i] = out[k][n]
        <5>1. PICK q, r : q \in Seq(PendingSend) /\ q = out[k] /\ r = out'[k]
          BY ZenonT(30), <1>1
        <5>2. q # <<>> /\ r = Tail(q)
          BY ZenonT(30), <1>1, <4>5, <5>1
        <5>3. \A j \in DOMAIN q : q[j] = Head(q) \/ \E i \in DOMAIN r : r[i] = q[j]
          BY SMTT(30), <5>1, <5>2, TailSends
        <5> QED BY SMTT(30), <3>3, <5>1, <5>3
      <4>7. Queued(k, c, t, b)'
        BY ZenonT(30), <3>1, <4>6 DEF Queued, PresenceUpdate
      <4> QED BY ZenonT(30), <4>7 DEF Informed
    <3> QED BY <3>2, <3>3
  <2>2. PubkeyOf[k] = t /\ WillTell(k, PubkeyOf[c], b) => Informed(c, t, b)'
    BY ZenonT(30), <1>1 DEF WillTell, Informed
  <2>3. pc[c] = "online_set" /\ t \in loc[c].todo => Informed(c, t, b)'
    BY ZenonT(30), <1>1 DEF Informed
  <2> QED BY ZenonT(30), <1>2, <1>5, <1>6, <2>1, <2>2, <2>3, InformedBut
<1> QED BY ZenonT(30), <1>1, <1>6, ToldKept

\* What is known does not change while the registry and the tasks do not.
LEMMA SameInformed ==
    ASSUME UNCHANGED <<by_pubkey, told, pc, out, loc>>,
           NEW c \in Conn, NEW t \in Peer, Informed(c, t, IsOnline(t))
    PROVE  Informed(c, t, IsOnline(t))'
<1>1. PICK b \in BOOLEAN : b = IsOnline(t) /\ b = IsOnline(t)'
  BY ZenonT(30) DEF IsOnline
<1>2. Informed(c, t, b)
  BY ZenonT(30), <1>1
<1>3. Informed(c, t, b)'
  BY ZenonT(30), <1>2 DEF Informed, Queued, WillTell, PresenceUpdate
<1> QED BY ZenonT(30), <1>1, <1>3

\* A step inside a presence call: whom subscribe makes a watcher of t is about
\* to read the state of t.
LEMMA CallTold ==
    ASSUME TypeOK, CallsOwn, SubscribeInv, ToldInv, NEW k \in Conn, PresenceCall(k)
    PROVE  ToldInv'
<1> SUFFICES ASSUME NEW c \in Conn, NEW t \in Peer, Watching(c, t)'
             PROVE  Informed(c, t, IsOnline(t))'
  BY ZenonT(30) DEF ToldInv
<1>1. UNCHANGED <<by_pubkey, told, writer, pc, out, loc>>
  BY ZenonT(30) DEF PresenceCall, registryVars, news, netVars, taskVars
<1>2. CASE Watching(c, t)
  BY ZenonT(30), <1>1, <1>2, SameInformed DEF ToldInv
<1>3. CASE ~Watching(c, t)
  <2>1. PubkeyOf[c] \in WatchersOf(t)' /\ PubkeyOf[c] \notin WatchersOf(t)
    BY ZenonT(30), <1>1, <1>3 DEF Watching, OnlyConnection
  <2>2. watchers \in [Peer -> {None} \cup SUBSET Peer]
    BY ZenonT(30) DEF TypeOK, PresenceTypeOK
  <2>3. CASE SubscribeTarget(k)
    <3>1. PICK p \in call[k].todo :
            watchers' = [watchers EXCEPT ![p] = WatchersOf(p) \cup {call[k].who}]
      BY ZenonT(30), <2>3 DEF SubscribeTarget
    <3>2. call[k].op = "subscribe" /\ call[k] # Idle
      BY SMTT(30), <2>3 DEF SubscribeTarget, Idle, CallOf
    <3>3. call[k].who = PubkeyOf[k]
      BY ZenonT(30), <3>2 DEF CallsOwn
    <3>4. p = t /\ PubkeyOf[c] = PubkeyOf[k]
      <4>1. CASE p # t
        <5>1. watchers'[t] = watchers[t]
          BY ZenonT(30), <2>2, <3>1, <4>1
        <5> QED BY ZenonT(30), <2>1, <5>1 DEF WatchersOf, SetOf
      <4>2. CASE p = t
        <5>1. watchers'[t] = WatchersOf(t) \cup {PubkeyOf[k]}
          BY ZenonT(30), <2>2, <3>1, <3>3, <4>2
        <5> QED BY ZenonT(30), <2>1, <4>2, <5>1 DEF WatchersOf, SetOf
      <4> QED BY <4>1, <4>2
    <3>5. k = c
      BY ZenonT(30), <3>4 DEF Watching, OnlyConnection
    <3>6. pc[c] = "online_set" /\ t \in loc[c].todo
      BY ZenonT(30), <3>1, <3>2, <3>4, <3>5 DEF SubscribeInv
    <3> QED BY ZenonT(30), <1>1, <3>6 DEF Informed
  <2>4. CASE UnwatchTarget(k)
    <3>1. PICK p : watchers' = [watchers EXCEPT ![p] = WithoutWatcher(p, call[k].who)]
      BY ZenonT(30), <2>4 DEF UnwatchTarget
    <3>2. watchers'[t] \in {watchers[t], WithoutWatcher(t, call[k].who)}
      BY ZenonT(30), <2>2, <3>1
    <3> QED BY ZenonT(30), <2>1, <3>2 DEF WatchersOf, SetOf, WithoutWatcher
  <2>5. CASE ReapTarget(k)
    <3>1. watchers'[t] \in {watchers[t], None}
      BY ZenonT(30), <2>2, <2>5 DEF ReapTarget
    <3> QED BY ZenonT(30), <2>1, <3>1 DEF WatchersOf, SetOf
  <2> QED BY ZenonT(30), <2>3, <2>4, <2>5 DEF PresenceCall, PresenceStep
<1> QED BY <1>2, <1>3

\* What is known of the other keys, when the entry of one changes.
LEMMA OthersInformed ==
    ASSUME TypeOK, NEW k \in Conn, InsertPeer(k) \/ RemovePeer(k),
           NEW c \in Conn, NEW t \in Peer, t # PubkeyOf[k],
           Informed(c, t, IsOnline(t))
    PROVE  Informed(c, t, IsOnline(t))'
<1>1. /\ out[k] = <<>> /\ pc[k] \in {"insert", "remove"}
      /\ Forget(PubkeyOf[k])
  BY ZenonT(30) DEF InsertPeer, RemovePeer, Ready
<1>2. \A j \in Conn \ {k} : pc'[j] = pc[j] /\ out'[j] = out[j] /\ loc'[j] = loc[j]
  <2>1. \E label, sends, locals : Goto(k, label, sends, locals)
    BY ZenonT(30) DEF InsertPeer, RemovePeer
  <2> QED BY ZenonT(30), <2>1, GotoEffect
<1>3. by_pubkey'[t] = by_pubkey[t]
  <2>1. \E v : by_pubkey' = [by_pubkey EXCEPT ![PubkeyOf[k]] = v]
    BY ZenonT(30), InsertPeerEffect, RemovePeerEffect
  <2> QED BY ZenonT(30), <2>1 DEF TypeOK, RegistryTypeOK
<1>4. PICK b \in BOOLEAN : b = IsOnline(t) /\ b = IsOnline(t)'
  BY ZenonT(30), <1>3 DEF IsOnline
<1>5. Informed(c, t, b)
  BY ZenonT(30), <1>4
<1>6. <<t, b>> \in told[c] => <<t, b>> \in told'[c]
  <2>1. told'[c] = told[c] \ {<<PubkeyOf[k], TRUE>>, <<PubkeyOf[k], FALSE>>}
    BY ZenonT(30), <1>1 DEF Forget
  <2>2. <<t, b>> # <<PubkeyOf[k], TRUE>> /\ <<t, b>> # <<PubkeyOf[k], FALSE>>
    BY ZenonT(30)
  <2> QED BY ZenonT(30), <2>1, <2>2
<1>7. ~Queued(k, c, t, b)
  BY ZenonT(30), <1>1, NothingQueued
<1>8. Informed(c, t, b)'
  BY ZenonT(30), <1>1, <1>2, <1>5, <1>6, <1>7, InformedBut
<1> QED BY ZenonT(30), <1>4, <1>8

\* registry.insert: the session will announce the key.  It watches nobody yet.
LEMMA InsertPeerTold ==
    ASSUME TypeOK, WatchersConnected, ToldInv, NEW k \in Conn, InsertPeer(k)
    PROVE  ToldInv'
<1> SUFFICES ASSUME NEW c \in Conn, NEW t \in Peer, Watching(c, t)'
             PROVE  Informed(c, t, IsOnline(t))'
  BY ZenonT(30) DEF ToldInv
<1>1. CASE t = PubkeyOf[k]
  <2>1. pc'[k] = "announce" /\ by_pubkey'[t] = k
    BY ZenonT(30), <1>1, InsertPeerEffect DEF TypeOK, RegistryTypeOK
  <2>2. IsOnline(t)'
    BY ZenonT(30), <2>1, NoneAssumption DEF IsOnline
  <2>3. WillTell(k, PubkeyOf[c], IsOnline(t))'
    BY ZenonT(30), <2>1, <2>2 DEF WillTell
  <2> QED BY ZenonT(30), <1>1, <2>3 DEF Informed
<1>2. CASE t # PubkeyOf[k]
  <2>1. UNCHANGED <<watchers, writer>>
    BY ZenonT(30) DEF InsertPeer, presenceVars, netVars
  <2>2. PubkeyOf[c] \in WatchersOf(t) /\ OnlyConnection(c) /\ writer[c] = "running"
    BY ZenonT(30), <2>1 DEF Watching, WatchersOf, SetOf, OnlyConnection
  <2>3. c # k
    <3>1. MayWatch(c)
      BY ZenonT(30), <2>2 DEF WatchersConnected, OnlyConnection
    <3>2. pc[k] = "insert"
      BY ZenonT(30) DEF InsertPeer
    <3>3. ~MayWatch(k)
      BY ZenonT(30), <3>2 DEF MayWatch, Registered, Unregistering
    <3> QED BY ZenonT(30), <3>1, <3>3
  <2>4. pc'[c] = pc[c]
    BY ZenonT(30), <2>3, InsertPeerEffect
  <2>5. Watching(c, t)
    BY ZenonT(30), <2>1, <2>4, WatchingKept
  <2> QED BY ZenonT(30), <1>2, <2>5, OthersInformed DEF ToldInv
<1> QED BY <1>1, <1>2

\* registry.remove: the session will withdraw the key, at the end of its cleanup.
LEMMA RemovePeerTold ==
    ASSUME TypeOK, ToldInv, NEW k \in Conn, RemovePeer(k)
    PROVE  ToldInv'
<1> SUFFICES ASSUME NEW c \in Conn, NEW t \in Peer, Watching(c, t)'
             PROVE  Informed(c, t, IsOnline(t))'
  BY ZenonT(30) DEF ToldInv
<1>1. CASE t = PubkeyOf[k]
  <2>1. pc'[k] \in Leaving /\ by_pubkey'[t] = None
    BY ZenonT(30), <1>1, RemovePeerEffect DEF TypeOK, RegistryTypeOK, Leaving
  <2>2. ~IsOnline(t)'
    BY ZenonT(30), <2>1 DEF IsOnline
  <2>3. WillTell(k, PubkeyOf[c], IsOnline(t))'
    BY ZenonT(30), <2>1, <2>2 DEF WillTell
  <2> QED BY ZenonT(30), <1>1, <2>3 DEF Informed
<1>2. CASE t # PubkeyOf[k]
  <2>1. UNCHANGED <<watchers, writer>>
    BY ZenonT(30) DEF RemovePeer, presenceVars, netVars
  <2>2. pc'[c] \in Registered => pc[c] \in Registered
    BY ZenonT(30), RemovePeerEffect DEF Registered, Unregistering
  <2>3. Watching(c, t)
    BY ZenonT(30), <2>1, <2>2, WatchingKept
  <2> QED BY ZenonT(30), <1>2, <2>3, OthersInformed DEF ToldInv
<1> QED BY <1>1, <1>2

\* Every step leaves every watcher told, or about to be.
LEMMA NextTold ==
    ASSUME TypeOK, CallsOwn, WatchersConnected, SessionsOnline, UpdateInv,
           SubscribeInv, ToldInv, [Next]_vars
    PROVE  ToldInv'
<1>1. CASE UNCHANGED vars
  <2>1. UNCHANGED <<by_pubkey, watchers, told, writer, pc, out, loc>>
    BY ZenonT(30), <1>1 DEF vars, registryVars, presenceVars, news, netVars, taskVars
  <2> SUFFICES ASSUME NEW c \in Conn, NEW t \in Peer, Watching(c, t)'
               PROVE  Informed(c, t, IsOnline(t))'
    BY ZenonT(30) DEF ToldInv
  <2>2. Watching(c, t)
    BY ZenonT(30), <2>1, WatchingKept
  <2> QED BY ZenonT(30), <2>1, <2>2, SameInformed DEF ToldInv
<1>2. ASSUME NEW c \in Conn,
             TaskStep(c) \/ ClientStep(c) \/ Deliver(c) \/ WriterEnd(c)
      PROVE  ToldInv'
  BY ZenonT(30), <1>2, SteadyOr, SteadyTold, SendTold, CallTold, InsertPeerTold,
     RemovePeerTold, SnapshotTold, NotifyTold, ReadOnlineTold, OnlineSetDoneTold
<1> QED BY ZenonT(30), <1>1, <1>2 DEF Next, Terminated

\* Once no task is about to tell a watcher anything, it was told.
LEMMA SettledTold ==
    ASSUME TypeOK, UpdateInv, ToldInv
    PROVE  WatcherTold
<1> SUFFICES ASSUME NEW c \in Conn, NEW t \in Peer, Settled(c, t)
             PROVE  <<t, IsOnline(t)>> \in told[c]
  BY ZenonT(30) DEF WatcherTold
<1>1. Watching(c, t)
  BY ZenonT(30) DEF Settled, Watching, Registered
<1>2. PICK b \in BOOLEAN : b = IsOnline(t)
  BY ZenonT(30) DEF IsOnline
<1>3. Informed(c, t, b)
  BY ZenonT(30), <1>1, <1>2 DEF ToldInv
<1>4. ~(pc[c] = "online_set" /\ t \in loc[c].todo)
  BY ZenonT(30) DEF Settled
<1>5. ASSUME NEW k \in Conn, Queued(k, c, t, b) PROVE FALSE
  <2>1. PICK n \in DOMAIN out[k] :
          out[k][n].to = c /\ out[k][n].msg = PresenceUpdate(t, b)
    BY ZenonT(30), <1>5 DEF Queued
  <2>2. PresenceUpdate(t, b).kind = "presence" /\ PresenceUpdate(t, b).peer = t
    BY ZenonT(30) DEF PresenceUpdate
  <2>3. UpdateBy(k, out[k][n])
    BY ZenonT(30), <2>1, <2>2 DEF UpdateInv
  <2>4. k # c
    BY ZenonT(30), <1>5, NothingQueued DEF Settled, Ready
  <2>5. PubkeyOf[k] = t /\ pc[k] \in {"online", "offline"}
    BY ZenonT(30), <2>1, <2>2, <2>3, <2>4 DEF UpdateBy
  <2> QED BY ZenonT(30), <2>5 DEF Settled
<1>6. ASSUME NEW d \in Conn, PubkeyOf[d] = t, WillTell(d, PubkeyOf[c], b)
      PROVE  FALSE
  BY ZenonT(30), <1>6 DEF Settled, WillTell, Leaving, Unregistering
<1> QED BY ZenonT(30), <1>2, <1>3, <1>4, <1>5, <1>6 DEF Informed

\* At the start nobody watches, and no task has anything to send.
LEMMA InitTold == Init => UpdateInv /\ SubscribeInv /\ ToldInv
<1> SUFFICES ASSUME Init PROVE UpdateInv /\ SubscribeInv /\ ToldInv
  OBVIOUS
<1>1. \A k \in Conn : pc[k] = "first" /\ DOMAIN out[k] = {} /\ out[k] = <<>>
  BY SMTT(30) DEF Init
<1>2. \A k \in Conn : call[k].op # "subscribe"
  BY SMTT(30) DEF Init, PresenceInit, Idle, CallOf
<1>3. UpdateInv
  BY ZenonT(30), <1>1 DEF UpdateInv
<1>4. SubscribeInv
  BY ZenonT(30), <1>2 DEF SubscribeInv
<1>5. ToldInv
  BY ZenonT(30), <1>1 DEF ToldInv, Watching, Registered
<1> QED BY <1>3, <1>4, <1>5
=============================================================================
