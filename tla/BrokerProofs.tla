---------------------------- MODULE BrokerProofs ----------------------------
(***************************************************************************)
(* First the presence manager on its own: its indexes are well typed and   *)
(* hold no ghost watcher, for any number of session tasks and keys.        *)
(*                                                                         *)
(* Then type correctness of the broker, for any number of connections,     *)
(* keys, handles and messages and for any channel capacity: what the       *)
(* operators of Broker return (messages, pending sends and locals are well *)
(* typed, and Goto moves one task), and the actions on the channels, the   *)
(* start of a session, presence and the answers.  The cleanup actions are  *)
(* in BrokerSafety, the relay actions in RelayProofs.                      *)
(***************************************************************************)
EXTENDS Broker, TLAPS

\* The set under a key is a set of peers.
LEMMA SetOfType ==
    ASSUME NEW index \in [Peer -> {None} \cup SUBSET Peer], NEW p \in Peer
    PROVE  SetOf(index, p) \in SUBSET Peer
BY DEF SetOf

\* A call that is under way acts for a peer on a set of peers.
LEMMA CallType ==
    ASSUME PresenceTypeOK, NEW k \in Conn, call[k].op # "idle"
    PROVE  /\ call[k].op \in {"subscribe", "unsubscribe", "clear"}
           /\ call[k].who \in Peer
           /\ call[k].todo \in SUBSET Peer
           /\ call[k].reap \in Peer \cup {None}
<1>1. call[k] \in Call /\ call[k] # Idle
  BY DEF PresenceTypeOK, Idle, CallOf
<1> QED BY <1>1 DEF Call

\* A call that goes on keeps its type.
LEMMA ContinueType ==
    ASSUME PresenceTypeOK, NEW k \in Conn, NEW todo \in SUBSET Peer,
           NEW reap \in Peer \cup {None}, Continue(k, todo, reap),
           call[k].op # "idle"
    PROVE  /\ call' \in [Conn -> Call]
           /\ guard' \in [Peer -> Conn \cup {None}]
BY CallType DEF PresenceTypeOK, Continue, Call, CallOf

\* So does a call that starts.
LEMMA EnterType ==
    ASSUME PresenceTypeOK, NEW k \in Conn, NEW s \in Peer,
           NEW op \in {"subscribe", "unsubscribe", "clear"},
           NEW todo \in SUBSET Peer, NEW lock \in BOOLEAN,
           Enter(k, op, s, todo, lock)
    PROVE  /\ call' \in [Conn -> Call]
           /\ guard' \in [Peer -> Conn \cup {None}]
BY DEF PresenceTypeOK, Enter, Call, CallOf

\* subscribe takes the guard.
LEMMA BeginSubscribeType ==
    ASSUME PresenceTypeOK, NEW k \in Conn, NEW s \in Peer,
           NEW targets \in SUBSET Peer, BeginSubscribe(k, s, targets)
    PROVE  PresenceTypeOK'
<1>1. SubscriptionsOf(s) \in SUBSET Peer
  BY SetOfType DEF PresenceTypeOK, SubscriptionsOf
<1>2. subscriptions' \in [Peer -> {None} \cup SUBSET Peer]
  BY <1>1 DEF PresenceTypeOK, BeginSubscribe
<1>3. call' \in [Conn -> Call] /\ guard' \in [Peer -> Conn \cup {None}]
  BY Zenon, EnterType DEF PresenceTypeOK, BeginSubscribe
<1> QED BY <1>2, <1>3 DEF PresenceTypeOK, BeginSubscribe

\* unsubscribe takes the guard.
LEMMA BeginUnsubscribeType ==
    ASSUME PresenceTypeOK, NEW k \in Conn, NEW s \in Peer,
           NEW targets \in SUBSET Peer, BeginUnsubscribe(k, s, targets)
    PROVE  PresenceTypeOK'
<1>1. call' \in [Conn -> Call] /\ guard' \in [Peer -> Conn \cup {None}]
  BY Zenon, EnterType DEF PresenceTypeOK, BeginUnsubscribe
<1> QED BY <1>1 DEF PresenceTypeOK, BeginUnsubscribe

\* clear_subscriber takes the entry out.
LEMMA BeginClearType ==
    ASSUME PresenceTypeOK, NEW k \in Conn, NEW s \in Peer, BeginClear(k, s)
    PROVE  PresenceTypeOK'
<1>1. SubscriptionsOf(s) \in SUBSET Peer
  BY SetOfType DEF PresenceTypeOK, SubscriptionsOf
<1>2. call' \in [Conn -> Call] /\ guard' \in [Peer -> Conn \cup {None}]
  BY Zenon, <1>1, EnterType DEF PresenceTypeOK, BeginClear
<1> QED BY Zenon, <1>2 DEF PresenceTypeOK, BeginClear

\* One iteration of subscribe.
LEMMA SubscribeTargetType ==
    ASSUME PresenceTypeOK, NEW k \in Conn, SubscribeTarget(k)
    PROVE  PresenceTypeOK'
<1> DEFINE s == call[k].who
<1>1. PICK t \in call[k].todo :
        /\ subscriptions' = [subscriptions EXCEPT ![s] = SubscriptionsOf(s) \cup {t}]
        /\ watchers' = [watchers EXCEPT ![t] = WatchersOf(t) \cup {s}]
        /\ Continue(k, call[k].todo \ {t}, None)
  BY Zenon DEF SubscribeTarget
<1>2. s \in Peer /\ call[k].todo \in SUBSET Peer /\ t \in Peer
  BY CallType DEF SubscribeTarget
<1>3. /\ SubscriptionsOf(s) \in SUBSET Peer
      /\ WatchersOf(t) \in SUBSET Peer
  BY <1>2, SetOfType DEF PresenceTypeOK, SubscriptionsOf, WatchersOf
<1>4. call' \in [Conn -> Call] /\ guard' \in [Peer -> Conn \cup {None}]
  BY <1>1, <1>2, ContinueType DEF SubscribeTarget
<1> HIDE DEF s
<1> QED BY Zenon, <1>1, <1>2, <1>3, <1>4 DEF PresenceTypeOK

\* One iteration of unsubscribe or clear_subscriber.
LEMMA UnwatchTargetType ==
    ASSUME PresenceTypeOK, NEW k \in Conn, UnwatchTarget(k)
    PROVE  PresenceTypeOK'
<1> DEFINE s == call[k].who
           left(t) == WithoutWatcher(t, s)
<1>1. PICK t \in call[k].todo :
        /\ subscriptions' = SubscriptionAfter(k, t)
        /\ watchers' = [watchers EXCEPT ![t] = left(t)]
        /\ Continue(k, call[k].todo \ {t}, IF left(t) = {} THEN t ELSE None)
  BY Zenon DEF UnwatchTarget
<1>2. s \in Peer /\ call[k].todo \in SUBSET Peer /\ t \in Peer
  BY CallType DEF UnwatchTarget
<1>3. left(t) \in {None} \cup SUBSET Peer
  BY <1>2 DEF PresenceTypeOK, WithoutWatcher
<1>4. SubscriptionAfter(k, t) \in [Peer -> {None} \cup SUBSET Peer]
  <2>1. SubscriptionsOf(s) \in SUBSET Peer
    BY <1>2, SetOfType DEF PresenceTypeOK, SubscriptionsOf
  <2> QED BY <1>2, <2>1 DEF PresenceTypeOK, SubscriptionAfter
<1>5. call' \in [Conn -> Call] /\ guard' \in [Peer -> Conn \cup {None}]
  BY SMTT(30), <1>1, <1>2, ContinueType DEF UnwatchTarget
<1> HIDE DEF s, left
<1> QED BY Zenon, <1>1, <1>2, <1>3, <1>4, <1>5 DEF PresenceTypeOK

\* An empty watcher set is removed.
LEMMA ReapTargetType ==
    ASSUME PresenceTypeOK, NEW k \in Conn, ReapTarget(k)
    PROVE  PresenceTypeOK'
<1>1. call[k].op # "idle"
  BY DEF ReapTarget, PresenceTypeOK, Call, Idle, CallOf
<1>2. call[k].reap \in Peer /\ call[k].todo \in SUBSET Peer
  BY <1>1, CallType DEF ReapTarget
<1>3. call' \in [Conn -> Call] /\ guard' \in [Peer -> Conn \cup {None}]
  BY Zenon, <1>1, <1>2, ContinueType DEF ReapTarget
<1> QED BY Zenon, <1>2, <1>3 DEF PresenceTypeOK, ReapTarget

\* Any step inside a call.
LEMMA PresenceStepType ==
    ASSUME PresenceTypeOK, NEW k \in Conn, PresenceStep(k)
    PROVE  PresenceTypeOK'
BY SubscribeTargetType, UnwatchTargetType, ReapTargetType DEF PresenceStep

\* The indexes start empty.
LEMMA PresenceInitType == PresenceInit => PresenceTypeOK
BY DEF PresenceInit, PresenceTypeOK, Call

(***************************************************************************)
(* Type correctness of the presence indexes: the first step of every       *)
(* other argument about them.                                              *)
(***************************************************************************)
THEOREM PresenceTypeCorrect == PresenceSpec => []PresenceTypeOK
<1>1. PresenceInit => PresenceTypeOK
  BY PresenceInitType
<1>2. PresenceTypeOK /\ [PresenceNext]_presenceVars => PresenceTypeOK'
  <2> SUFFICES ASSUME PresenceTypeOK, [PresenceNext]_presenceVars
               PROVE  PresenceTypeOK'
    OBVIOUS
  <2>1. CASE UNCHANGED presenceVars
    BY <2>1 DEF presenceVars, PresenceTypeOK
  <2>2. CASE PresenceNext
    BY <2>2, BeginSubscribeType, BeginUnsubscribeType, BeginClearType,
       PresenceStepType DEF PresenceNext
  <2> QED BY <2>1, <2>2
<1> QED BY <1>1, <1>2, PTL DEF PresenceSpec

-----------------------------------------------------------------------------
(***************************************************************************)
(* No ghost watchers.                                                      *)
(***************************************************************************)
\* A call that starts loses no clear_subscriber in progress.
LEMMA EnterClearing ==
    ASSUME PresenceTypeOK, NEW k \in Conn, call[k] = Idle,
           NEW op, NEW who, NEW todo, NEW lock,
           UNCHANGED call \/ Enter(k, op, who, todo, lock),
           NEW s, NEW t, NEW j \in Conn, Clearing(j, s, t)
    PROVE  Clearing(j, s, t)'
BY DEF PresenceTypeOK, Enter, Clearing, Idle, CallOf

\* A step of call k loses no clear_subscriber that still has to visit t.
LEMMA ContinueClearing ==
    ASSUME PresenceTypeOK, NEW k \in Conn, NEW todo, NEW reap,
           Continue(k, todo, reap),
           NEW s, NEW t, NEW j \in Conn, Clearing(j, s, t),
           j = k => t \in todo
    PROVE  Clearing(j, s, t)'
BY DEF PresenceTypeOK, Continue, Clearing, CallOf

\* subscribe takes the guard.
LEMMA BeginSubscribeNoGhost ==
    ASSUME PresenceTypeOK, NoGhostWatcher, NEW k \in Conn, NEW s \in Peer,
           NEW targets \in SUBSET Peer, BeginSubscribe(k, s, targets)
    PROVE  NoGhostWatcher'
<1> SUFFICES ASSUME NEW t \in Peer, NEW w \in WatchersOf(t)'
             PROVE  t \in SubscriptionsOf(w)' \/ \E j \in Conn : Clearing(j, w, t)'
  BY DEF NoGhostWatcher
<1>1. w \in WatchersOf(t) /\ w \in Peer
  BY SetOfType DEF BeginSubscribe, WatchersOf, SetOf, PresenceTypeOK
<1>2. CASE t \in SubscriptionsOf(w)
  <2>1. SubscriptionsOf(s) \in SUBSET Peer
    BY SetOfType DEF PresenceTypeOK, SubscriptionsOf
  <2>2. t \in SubscriptionsOf(w)'
    BY <1>1, <1>2, <2>1, NoneAssumption
    DEF BeginSubscribe, SubscriptionsOf, SetOf, PresenceTypeOK
  <2> QED BY <2>2
<1>3. ASSUME NEW j \in Conn, Clearing(j, w, t) PROVE Clearing(j, w, t)'
  BY Zenon, <1>3, EnterClearing DEF BeginSubscribe
<1> QED BY <1>1, <1>2, <1>3 DEF NoGhostWatcher

\* unsubscribe takes the guard.
LEMMA BeginUnsubscribeNoGhost ==
    ASSUME PresenceTypeOK, NoGhostWatcher, NEW k \in Conn, NEW s \in Peer,
           NEW targets \in SUBSET Peer, BeginUnsubscribe(k, s, targets)
    PROVE  NoGhostWatcher'
<1> SUFFICES ASSUME NEW t \in Peer, NEW w \in WatchersOf(t)'
             PROVE  t \in SubscriptionsOf(w)' \/ \E j \in Conn : Clearing(j, w, t)'
  BY DEF NoGhostWatcher
<1>1. w \in WatchersOf(t) /\ SubscriptionsOf(w)' = SubscriptionsOf(w)
  BY DEF BeginUnsubscribe, WatchersOf, SubscriptionsOf, SetOf
<1>2. ASSUME NEW j \in Conn, Clearing(j, w, t) PROVE Clearing(j, w, t)'
  BY Zenon, <1>2, EnterClearing DEF BeginUnsubscribe
<1> QED BY <1>1, <1>2 DEF NoGhostWatcher

\* What clear_subscriber takes out of subscriptions is what it then visits.
LEMMA BeginClearNoGhost ==
    ASSUME PresenceTypeOK, NoGhostWatcher, NEW k \in Conn, NEW s \in Peer,
           BeginClear(k, s)
    PROVE  NoGhostWatcher'
<1> SUFFICES ASSUME NEW t \in Peer, NEW w \in WatchersOf(t)'
             PROVE  t \in SubscriptionsOf(w)' \/ \E j \in Conn : Clearing(j, w, t)'
  BY DEF NoGhostWatcher
<1>1. w \in WatchersOf(t) /\ w \in Peer
  BY SetOfType DEF BeginClear, WatchersOf, SetOf, PresenceTypeOK
<1>2. ASSUME NEW j \in Conn, Clearing(j, w, t) PROVE Clearing(j, w, t)'
  BY Zenon, <1>2, EnterClearing DEF BeginClear
<1>3. CASE t \in SubscriptionsOf(w) /\ w # s
  BY <1>1, <1>3 DEF BeginClear, SubscriptionsOf, SetOf, PresenceTypeOK
<1>4. CASE t \in SubscriptionsOf(w) /\ w = s
  <2>1. Enter(k, "clear", s, SubscriptionsOf(s), FALSE)
    BY Zenon, <1>4 DEF BeginClear
  <2>2. Clearing(k, w, t)'
    BY <1>4, <2>1 DEF Enter, Clearing, CallOf, PresenceTypeOK
  <2> QED BY <2>2
<1> QED BY <1>1, <1>2, <1>3, <1>4 DEF NoGhostWatcher

\* subscribe adds to both indexes under the guard.
LEMMA SubscribeTargetNoGhost ==
    ASSUME PresenceTypeOK, NoGhostWatcher, NEW k \in Conn, SubscribeTarget(k)
    PROVE  NoGhostWatcher'
<1> DEFINE s == call[k].who
<1>1. PICK u \in call[k].todo :
        /\ subscriptions' = [subscriptions EXCEPT ![s] = SubscriptionsOf(s) \cup {u}]
        /\ watchers' = [watchers EXCEPT ![u] = WatchersOf(u) \cup {s}]
        /\ Continue(k, call[k].todo \ {u}, None)
  BY Zenon DEF SubscribeTarget
<1>2. s \in Peer /\ u \in Peer /\ call[k].op = "subscribe"
  BY CallType DEF SubscribeTarget
<1> HIDE DEF s
<1> SUFFICES ASSUME NEW t \in Peer, NEW w \in WatchersOf(t)'
             PROVE  t \in SubscriptionsOf(w)' \/ \E j \in Conn : Clearing(j, w, t)'
  BY DEF NoGhostWatcher
<1>3. /\ SubscriptionsOf(s) \in SUBSET Peer
      /\ WatchersOf(u) \in SUBSET Peer
      /\ WatchersOf(t) \in SUBSET Peer
  BY <1>2, SetOfType DEF PresenceTypeOK, SubscriptionsOf, WatchersOf
<1>4. WatchersOf(t)' = IF t = u THEN WatchersOf(u) \cup {s} ELSE WatchersOf(t)
  BY <1>1, <1>2, <1>3, NoneAssumption DEF WatchersOf, SetOf, PresenceTypeOK
<1>5. w \in Peer
  BY <1>2, <1>3, <1>4
<1>6. SubscriptionsOf(w)' = IF w = s THEN SubscriptionsOf(s) \cup {u}
                                     ELSE SubscriptionsOf(w)
  BY <1>1, <1>2, <1>3, <1>5, NoneAssumption
  DEF SubscriptionsOf, SetOf, PresenceTypeOK
<1>7. CASE w \in WatchersOf(t)
  <2>1. ASSUME NEW j \in Conn, Clearing(j, w, t) PROVE Clearing(j, w, t)'
    <3>1. j # k
      BY <1>2, <2>1 DEF Clearing
    <3> QED BY <1>1, <2>1, <3>1, ContinueClearing
  <2> QED BY <1>6, <1>7, <2>1 DEF NoGhostWatcher
<1>8. CASE w = s /\ t = u
  BY <1>6, <1>8
<1> QED BY <1>4, <1>7, <1>8

\* Both loops take the watcher out, whatever the subscription.
LEMMA UnwatchTargetNoGhost ==
    ASSUME PresenceTypeOK, NoGhostWatcher, NEW k \in Conn, UnwatchTarget(k)
    PROVE  NoGhostWatcher'
<1> DEFINE s == call[k].who
           left(t) == WithoutWatcher(t, s)
<1>1. PICK u \in call[k].todo :
        /\ subscriptions' = SubscriptionAfter(k, u)
        /\ watchers' = [watchers EXCEPT ![u] = left(u)]
        /\ Continue(k, call[k].todo \ {u}, IF left(u) = {} THEN u ELSE None)
  BY Zenon DEF UnwatchTarget
<1>2. s \in Peer /\ u \in Peer
  BY CallType DEF UnwatchTarget
<1> SUFFICES ASSUME NEW t \in Peer, NEW w \in WatchersOf(t)'
             PROVE  t \in SubscriptionsOf(w)' \/ \E j \in Conn : Clearing(j, w, t)'
  BY DEF NoGhostWatcher
<1>3. SubscriptionsOf(s) \in SUBSET Peer /\ WatchersOf(t) \in SUBSET Peer
  BY <1>2, SetOfType DEF PresenceTypeOK, SubscriptionsOf, WatchersOf
<1>4. WatchersOf(t)' = IF t = u THEN WatchersOf(u) \ {s} ELSE WatchersOf(t)
  BY Zenon, <1>1, <1>2, NoneAssumption
     DEF WatchersOf, SetOf, WithoutWatcher, PresenceTypeOK
<1>5. w \in WatchersOf(t) /\ w \in Peer /\ (w # s \/ t # u)
  BY <1>3, <1>4
<1>6. ASSUME t \in SubscriptionsOf(w) PROVE t \in SubscriptionsOf(w)'
  BY <1>1, <1>2, <1>3, <1>5, <1>6, NoneAssumption
  DEF SubscriptionAfter, SubscriptionsOf, SetOf, PresenceTypeOK
<1>7. ASSUME NEW j \in Conn, Clearing(j, w, t) PROVE Clearing(j, w, t)'
  <2>1. j = k => t \in call[k].todo \ {u}
    BY <1>5, <1>7 DEF Clearing
  <2> HIDE DEF left
  <2> QED BY <1>1, <1>7, <2>1, ContinueClearing
<1> QED BY <1>5, <1>6, <1>7 DEF NoGhostWatcher

\* A removed watcher set has no watcher.
LEMMA ReapTargetNoGhost ==
    ASSUME PresenceTypeOK, NoGhostWatcher, NEW k \in Conn, ReapTarget(k)
    PROVE  NoGhostWatcher'
<1> SUFFICES ASSUME NEW t \in Peer, NEW w \in WatchersOf(t)'
             PROVE  t \in SubscriptionsOf(w)' \/ \E j \in Conn : Clearing(j, w, t)'
  BY DEF NoGhostWatcher
<1>1. w \in WatchersOf(t) /\ SubscriptionsOf(w)' = SubscriptionsOf(w)
  BY DEF ReapTarget, WatchersOf, SubscriptionsOf, SetOf, PresenceTypeOK
<1>2. ASSUME NEW j \in Conn, Clearing(j, w, t) PROVE Clearing(j, w, t)'
  <2>1. j = k => t \in call[k].todo
    BY <1>2 DEF Clearing
  <2> QED BY <1>2, <2>1, ContinueClearing DEF ReapTarget
<1> QED BY <1>1, <1>2 DEF NoGhostWatcher

\* Any step inside a call.
LEMMA PresenceStepNoGhost ==
    ASSUME PresenceTypeOK, NoGhostWatcher, NEW k \in Conn, PresenceStep(k)
    PROVE  NoGhostWatcher'
BY SubscribeTargetNoGhost, UnwatchTargetNoGhost, ReapTargetNoGhost
DEF PresenceStep

\* The indexes start empty.
LEMMA PresenceInitNoGhost == PresenceInit => NoGhostWatcher
BY DEF PresenceInit, NoGhostWatcher, WatchersOf, SetOf

(***************************************************************************)
(* No interleaving of subscribe, unsubscribe and clear_subscriber calls    *)
(* leaves a watcher without a subscription that some clear_subscriber will *)
(* not still remove.  NoGhostWatcher is inductive together with the types. *)
(***************************************************************************)
THEOREM PresenceNoGhost == PresenceSpec => []NoGhostWatcher
<1> DEFINE Inv == PresenceTypeOK /\ NoGhostWatcher
<1>1. PresenceInit => Inv
  BY PresenceInitType, PresenceInitNoGhost
<1>2. Inv /\ [PresenceNext]_presenceVars => NoGhostWatcher'
  <2> SUFFICES ASSUME Inv, [PresenceNext]_presenceVars PROVE NoGhostWatcher'
    OBVIOUS
  <2>1. CASE UNCHANGED presenceVars
    BY <2>1 DEF presenceVars, NoGhostWatcher, WatchersOf, SubscriptionsOf,
                SetOf, Clearing
  <2>2. CASE PresenceNext
    BY <2>2, BeginSubscribeNoGhost, BeginUnsubscribeNoGhost, BeginClearNoGhost,
       PresenceStepNoGhost DEF PresenceNext
  <2> QED BY <2>1, <2>2
<1> QED BY <1>1, <1>2, PresenceTypeCorrect, PTL DEF PresenceSpec

-----------------------------------------------------------------------------
\* The messages a handler composes are well typed.
LEMMA PlainType ==
    ASSUME NEW kind \in Kinds
    PROVE  Plain(kind) \in Msg
BY DEF Plain, Msg

\* A PresenceUpdate is a message.
LEMMA PresenceUpdateType ==
    ASSUME NEW p \in Peer, NEW online \in BOOLEAN
    PROVE  PresenceUpdate(p, online) \in Msg
BY DEF PresenceUpdate, Msg

\* So is each of the relay messages.
LEMMA RelayMsgType ==
    ASSUME NEW kind \in Kinds, NEW i \in Sid, NEW p \in Peer
    PROVE  RelayMsg(kind, i, p) \in Msg
BY DEF RelayMsg, Msg

\* So is a signal passed on.
LEMMA SignalFromType ==
    ASSUME NEW p \in Peer
    PROVE  SignalFrom(p) \in Msg
BY DEF SignalFrom, Msg, Kinds

\* So is the answer to a lookup.
LEMMA PeerInfoType ==
    ASSUME NEW p \in Peer
    PROVE  PeerInfo(p) \in Msg
BY DEF PeerInfo, Msg, Kinds, IsOnline

\* So are the sends that carry them.
LEMMA SendType ==
    ASSUME NEW d \in Conn, NEW m \in Msg
    PROVE  /\ Tell(d, m) \in PendingSend
           /\ TellOrFail(d, m) \in PendingSend
BY DEF Tell, TellOrFail, PendingSend

\* A handler's sends are none, one or two.
LEMMA SendsType ==
    /\ <<>> \in Seq(PendingSend)
    /\ \A s \in PendingSend : <<s>> \in Seq(PendingSend)
    /\ \A s, t \in PendingSend : <<s, t>> \in Seq(PendingSend)
OBVIOUS

\* An answer that carries nothing but its kind is one send.
LEMMA ErrorSendType ==
    ASSUME NEW c \in Conn, NEW kind \in Kinds
    PROVE  <<Tell(c, Plain(kind))>> \in Seq(PendingSend)
BY SMTT(30), PlainType, SendType, SendsType

\* What a handler keeps across an await.
LEMMA LocalsType ==
    ASSUME NEW todo \in SUBSET Peer, NEW target \in Peer \cup {None},
           NEW sid \in Sid \cup {None}, NEW held \in Conn \cup {None},
           NEW unread \in SUBSET Sid, NEW stale \in SUBSET Sid
    PROVE  LocalsOf(todo, target, sid, held, unread, stale) \in Locals
BY DEF LocalsOf, Locals

\* What drop_sessions_for keeps between its iterations.
LEMMA DroppingType ==
    ASSUME NEW unread \in SUBSET Sid, NEW stale \in SUBSET Sid
    PROVE  /\ Dropping(unread, stale) \in Locals
           /\ Dropping(unread, stale).unread = unread
           /\ Dropping(unread, stale).stale = stale
BY ZenonT(30), LocalsType DEF Dropping, LocalsOf

\* A key that is online leads to a connection.
LEMMA OnlineType ==
    ASSUME TypeOK, NEW p \in Peer, IsOnline(p)
    PROVE  by_pubkey[p] \in Conn
BY DEF IsOnline, TypeOK, RegistryTypeOK

\* What Goto does to its own task and to the others.
LEMMA GotoEffect ==
    ASSUME TypeOK, NEW c \in Conn, NEW label, NEW sends, NEW locals,
           Goto(c, label, sends, locals)
    PROVE  /\ pc'[c] = label /\ out'[c] = sends /\ loc'[c] = locals
           /\ \A k \in Conn \ {c} : /\ pc'[k] = pc[k] /\ out'[k] = out[k]
                                    /\ loc'[k] = loc[k]
BY SMTT(30) DEF Goto, TypeOK

\* Where drop_sessions_for stands after one of its iterations.
LEMMA DropEffect ==
    ASSUME TypeOK, NEW c \in Conn, NEW unread \in SUBSET Sid, NEW stale \in SUBSET Sid,
           Goto(c, "drop", <<>>, Dropping(unread, stale))
    PROVE  pc'[c] = "drop" /\ loc'[c].unread = unread /\ loc'[c].stale = stale
<1>1. pc'[c] = "drop" /\ loc'[c] = Dropping(unread, stale)
  BY SMTT(30), GotoEffect
<1>2. /\ Dropping(unread, stale).unread = unread
      /\ Dropping(unread, stale).stale = stale
  BY SMTT(30), DroppingType
<1> QED BY ZenonT(30), <1>1, <1>2

\* The registry leads from p to a live session of p.
LiveEntry(p) ==
    /\ by_pubkey[p] \in Conn
    /\ PubkeyOf[by_pubkey[p]] = p
    /\ pc[by_pubkey[p]] \in Registered

\* What RegistryEntriesLive says of one key.
LEMMA LiveEntries ==
    ASSUME TypeOK, RegistryEntriesLive, NEW p \in Peer, IsOnline(p)
    PROVE  LiveEntry(p)
BY SMTT(30), OnlineType DEF RegistryEntriesLive, LiveEntry

-----------------------------------------------------------------------------
(***************************************************************************)
(* What Goto does to the types, and what a step that touches nothing but   *)
(* its own task has to show.                                               *)
(***************************************************************************)
TaskTypeOK ==
    /\ LocalsOK
    /\ pc \in [Conn -> Labels]
    /\ out \in [Conn -> Seq(PendingSend)]
    /\ loc \in [Conn -> Locals]

\* A task moves: with well-typed sends and fitting locals it stays typed.
LEMMA GotoType ==
    ASSUME TypeOK, NEW c \in Conn, NEW label \in Labels,
           NEW sends \in Seq(PendingSend), NEW locals \in Locals,
           Goto(c, label, sends, locals), LocalsFit(c, label, locals),
           UNCHANGED claimed
    PROVE  TaskTypeOK'
<1>1. /\ pc' \in [Conn -> Labels]
      /\ out' \in [Conn -> Seq(PendingSend)]
      /\ loc' \in [Conn -> Locals]
  BY DEF Goto, TypeOK
<1>2. ASSUME NEW k \in Conn PROVE LocalsFit(k, pc[k], loc[k])'
  <2>1. CASE k = c
    BY SMTT(30), <2>1 DEF Goto, TypeOK, LocalsFit
  <2>2. CASE k # c
    BY SMTT(30), <2>2 DEF Goto, TypeOK, LocalsOK, LocalsFit
  <2> QED BY SMTT(30), <2>1, <2>2
<1> QED BY SMTT(30), <1>1, <1>2 DEF TaskTypeOK, LocalsOK, TypeOK

\* A step that touches only its own task has only the task to show.
LEMMA OwnStepType ==
    ASSUME TypeOK, TaskTypeOK', budget' \in [Conn -> Nat],
           UNCHANGED <<registryVars, presenceVars, relayVars, netVars, dbVars,
                       gauges, news>>
    PROVE  TypeOK'
BY DEF TypeOK, TaskTypeOK, RegistryTypeOK, PresenceTypeOK, RelayTypeOK,
       registryVars, presenceVars, relayVars, netVars, dbVars, gauges, news

\* Receiving a message uses up some of the client's budget.
LEMMA ReceiveType ==
    ASSUME TypeOK, NEW c \in Conn, NEW kind, Receive(c, kind)
    PROVE  budget' \in [Conn -> Nat]
BY DEF Receive, TypeOK

\* A handler that returns to the pump.
LEMMA FinishType ==
    ASSUME TypeOK, NEW c \in Conn, NEW sends \in Seq(PendingSend),
           Finish(c, sends), UNCHANGED claimed
    PROVE  TaskTypeOK'
<1>1. "pump" \in Labels
  BY DEF Labels, Registered
<1>2. NoLocals \in Locals
  BY SMTT(30), LocalsType DEF NoLocals
<1>3. LocalsFit(c, "pump", NoLocals)
  BY DEF LocalsFit
<1> QED BY SMTT(30), <1>1, <1>2, <1>3, GotoType DEF Finish

\* A handler that answers with an error.
LEMMA FailType ==
    ASSUME TypeOK, NEW c \in Conn, Fail(c), UNCHANGED claimed
    PROVE  TaskTypeOK'
BY ZenonT(30), ErrorSendType, FinishType DEF Fail, Kinds

\* Locals that hold nothing.
LEMMA NoLocalsType == NoLocals \in Locals
BY LocalsType DEF NoLocals

\* Locals that hold the peers a loop has left.
LEMMA ToVisitType ==
    ASSUME NEW peers \in SUBSET Peer
    PROVE  ToVisit(peers) \in Locals
BY SMTT(30), LocalsType DEF ToVisit

\* A handler that changes nothing but its task and the client's budget.
LEMMA HandlerType ==
    ASSUME TypeOK, NEW c \in Conn, NEW kind, Receive(c, kind), TaskTypeOK',
           UNCHANGED <<registryVars, presenceVars, relayVars, netVars, dbVars,
                       gauges, news>>
    PROVE  TypeOK'
BY SMTT(30), ReceiveType, OwnStepType

\* A presence handler changes the presence state, its task and a gauge.
LEMMA PresenceHandlerType ==
    ASSUME TypeOK, TaskTypeOK', PresenceTypeOK', budget' \in [Conn -> Nat],
           presence_subscriptions' \in Int,
           UNCHANGED <<registryVars, relayVars, netVars, dbVars,
                       connected_peers, news>>
    PROVE  TypeOK'
BY DEF TypeOK, TaskTypeOK, RegistryTypeOK, RelayTypeOK, registryVars, relayVars,
       netVars, dbVars, news

\* A relay handler changes the sessions, its task and the client's budget.
LEMMA RelayHandlerType ==
    ASSUME TypeOK, TaskTypeOK', RelayTypeOK', budget' \in [Conn -> Nat],
           UNCHANGED <<registryVars, presenceVars, netVars, dbVars, gauges, news>>
    PROVE  TypeOK'
BY ZenonT(30)
   DEF TypeOK, TaskTypeOK, RegistryTypeOK, PresenceTypeOK, registryVars,
       presenceVars, netVars, dbVars, gauges, news

\* What clients were told of a peer is old once its entry changes.
LEMMA ForgetType ==
    ASSUME TypeOK, NEW p \in Peer, Forget(p)
    PROVE  /\ told' \in [Conn -> SUBSET (Peer \X BOOLEAN)]
           /\ last' \in [Conn -> [Peer -> BOOLEAN \cup {None}]]
BY ZenonT(30) DEF Forget, TypeOK

\* A stuttering step keeps the types.
LEMMA StutterType == TypeOK /\ UNCHANGED vars => TypeOK'
BY ZenonT(30)
   DEF TypeOK, LocalsOK, LocalsFit, RegistryTypeOK, PresenceTypeOK,
       RelayTypeOK, vars, registryVars, presenceVars, relayVars, taskVars,
       netVars, dbVars, gauges, news

\* A task inside drop_sessions_for is well typed.
LEMMA DropGoto ==
    ASSUME TypeOK, NEW c \in Conn, NEW unread \in SUBSET Sid,
           NEW stale \in SUBSET Sid,
           Goto(c, "drop", <<>>, Dropping(unread, stale)), UNCHANGED claimed
    PROVE  TaskTypeOK'
<1>1. "drop" \in Labels /\ LocalsFit(c, "drop", Dropping(unread, stale))
  BY SMTT(30) DEF Labels, LocalsFit
<1> QED BY ZenonT(30), <1>1, DroppingType, SendsType, GotoType

-----------------------------------------------------------------------------
(***************************************************************************)
(* Type correctness, action by action.  First the channels.                *)
(***************************************************************************)
LEMMA RecordType ==
    ASSUME TypeOK, NEW d \in Conn, NEW m \in Msg, Record(d, m)
    PROVE  /\ told' \in [Conn -> SUBSET (Peer \X BOOLEAN)]
           /\ last' \in [Conn -> [Peer -> BOOLEAN \cup {None}]]
           /\ overlapped' \subseteq Conn
<1>1. CASE m.kind = "presence"
  <2>1. m.peer \in Peer /\ m.online \in BOOLEAN
    BY <1>1 DEF Msg, Kinds
  <2>2. told' \in [Conn -> SUBSET (Peer \X BOOLEAN)]
    <3> DEFINE e == <<m.peer, m.online>>
    <3>1. e \in Peer \X BOOLEAN
      BY <2>1
    <3>2. told' = [told EXCEPT ![d] = told[d] \cup {e}]
      BY SMTT(30), <1>1 DEF Record
    <3> HIDE DEF e
    <3> QED BY SMTT(30), <3>1, <3>2 DEF TypeOK
  <2>3. [last[d] EXCEPT ![m.peer] = m.online] \in [Peer -> BOOLEAN \cup {None}]
    BY SMTT(30), <2>1 DEF TypeOK
  <2> QED BY ZenonT(30), <1>1, <2>2, <2>3 DEF Record, TypeOK
<1>2. CASE m.kind # "presence"
  BY SMTT(30), <1>2 DEF Record, news, TypeOK
<1> QED BY SMTT(30), <1>1, <1>2

\* tx.send: the head of the sends goes into a channel with room, or fails.
LEMMA SendStepType ==
    ASSUME TypeOK, NEW c \in Conn, Send(c)
    PROVE  TypeOK'
<1> DEFINE d == Head(out[c]).to
           m == Head(out[c]).msg
<1>1. out[c] \in Seq(PendingSend) /\ out[c] # <<>>
  BY ZenonT(30) DEF Send, TypeOK
<1>2. Head(out[c]) \in PendingSend /\ Tail(out[c]) \in Seq(PendingSend)
  BY <1>1
<1>3. d \in Conn /\ m \in Msg
  BY SMTT(30), <1>2 DEF PendingSend
<1>4. AfterFailure(c) \in Seq(PendingSend)
  BY <1>2, ErrorSendType DEF AfterFailure, Kinds
<1>5. out' \in [Conn -> Seq(PendingSend)]
  BY ZenonT(30), <1>2, <1>4 DEF Send, TypeOK
<1>6. /\ chan' \in [Conn -> Seq(Msg)]
      /\ \A k \in Conn : Len(chan'[k]) <= ChanCap
      /\ told' \in [Conn -> SUBSET (Peer \X BOOLEAN)]
      /\ last' \in [Conn -> [Peer -> BOOLEAN \cup {None}]]
      /\ overlapped' \subseteq Conn
  <2>1. CASE /\ Len(chan[d]) < ChanCap
             /\ chan' = [chan EXCEPT ![d] = Append(@, m)]
             /\ Record(d, m)
    <3>1. chan[d] \in Seq(Msg) /\ Len(chan[d]) \in Nat
      BY SMTT(30), <1>3 DEF TypeOK
    <3>2. /\ Append(chan[d], m) \in Seq(Msg)
          /\ Len(Append(chan[d], m)) = Len(chan[d]) + 1
      BY SMTT(30), <1>3, <3>1
    <3> HIDE DEF d, m
    <3>3. chan' \in [Conn -> Seq(Msg)]
      BY SMTT(30), <1>3, <2>1, <3>2 DEF TypeOK
    <3>4. \A k \in Conn : Len(chan'[k]) <= ChanCap
      BY SMTT(30), <1>3, <2>1, <3>1, <3>2, BrokerAssumption DEF TypeOK
    <3> QED BY SMTT(30), <1>3, <2>1, <3>3, <3>4, RecordType
  <2>2. CASE UNCHANGED <<chan, news>>
    BY SMTT(30), <2>2 DEF news, TypeOK
  <2> QED BY ZenonT(30), <2>1, <2>2 DEF Send
<1>7. LocalsOK'
  BY ZenonT(30) DEF Send, TypeOK, LocalsOK, LocalsFit, dbVars
<1> QED
  BY ZenonT(30), <1>5, <1>6, <1>7
     DEF Send, TypeOK, RegistryTypeOK, PresenceTypeOK, RelayTypeOK,
     registryVars, presenceVars, relayVars, dbVars, gauges

\* The writer task takes one message out.
LEMMA DeliverType ==
    ASSUME TypeOK, NEW c \in Conn, Deliver(c)
    PROVE  TypeOK'
<1>1. chan[c] \in Seq(Msg) /\ chan[c] # <<>> /\ Len(chan[c]) <= ChanCap
  BY DEF Deliver, TypeOK
<1>2. Tail(chan[c]) \in Seq(Msg) /\ Len(Tail(chan[c])) <= ChanCap
  BY <1>1, BrokerAssumption
<1>3. chan' \in [Conn -> Seq(Msg)] /\ \A k \in Conn : Len(chan'[k]) <= ChanCap
  BY SMTT(30), <1>2 DEF Deliver, TypeOK
<1>4. LocalsOK'
  <2>1. LocalsOK
    BY ZenonT(30) DEF TypeOK
  <2>2. pc' = pc /\ loc' = loc /\ claimed' = claimed
    BY ZenonT(30) DEF Deliver, dbVars, taskVars
  <2> QED BY ZenonT(30), <2>1, <2>2 DEF LocalsOK, LocalsFit
<1> QED
  BY ZenonT(30), <1>3, <1>4
     DEF Deliver, TypeOK, RegistryTypeOK, PresenceTypeOK, RelayTypeOK,
     registryVars, presenceVars, relayVars, taskVars, dbVars, gauges, news

\* The writer task ends.
LEMMA WriterEndType ==
    ASSUME TypeOK, NEW c \in Conn, WriterEnd(c)
    PROVE  TypeOK'
<1>1. /\ chan' \in [Conn -> Seq(Msg)]
      /\ \A k \in Conn : Len(chan'[k]) <= ChanCap
  BY BrokerAssumption DEF WriterEnd, TypeOK
<1>2. writer' \in [Conn -> {"running", "done"}]
  BY SMTT(30) DEF WriterEnd, TypeOK
<1>3. LocalsOK'
  BY ZenonT(30) DEF WriterEnd, TypeOK, LocalsOK, LocalsFit, dbVars, taskVars
<1> QED
  BY ZenonT(30), <1>1, <1>2, <1>3
     DEF WriterEnd, TypeOK, RegistryTypeOK, PresenceTypeOK, RelayTypeOK,
         registryVars, presenceVars, relayVars, taskVars, dbVars, gauges, news

\* The client closes its socket.
LEMMA ClientCloseType ==
    ASSUME TypeOK, NEW c \in Conn, ClientClose(c)
    PROVE  TypeOK'
<1>1. socket' \in [Conn -> {"open", "closed"}]
  BY ZenonT(30) DEF ClientClose, TypeOK
<1>2. LocalsOK'
  BY ZenonT(30) DEF ClientClose, TypeOK, LocalsOK, LocalsFit, dbVars, taskVars
<1> QED
  BY ZenonT(30), <1>1, <1>2
     DEF ClientClose, TypeOK, RegistryTypeOK, PresenceTypeOK,
     RelayTypeOK, registryVars, presenceVars, relayVars, taskVars, dbVars,
     gauges, news

-----------------------------------------------------------------------------
(***************************************************************************)
(* serve_socket up to the pump, and the broadcasts.                        *)
(***************************************************************************)
LEMMA RegisterType ==
    ASSUME TypeOK, NEW c \in Conn, Register(c)
    PROVE  TypeOK'
<1> DEFINE wants == HandleOf[c] # None
           label == IF HasDb /\ wants THEN "claim" ELSE "insert"
           sends == IF ~HasDb /\ wants THEN <<Tell(c, Plain("error"))>> ELSE <<>>
<1>1. Goto(c, label, sends, NoLocals)
  BY ZenonT(30) DEF Register
<1>2. label \in Labels
  BY DEF Labels
<1>3. sends \in Seq(PendingSend)
  BY ErrorSendType, SendsType DEF Kinds
<1>4. LocalsFit(c, label, NoLocals)
  BY DEF LocalsFit
<1>5. TaskTypeOK'
  BY ZenonT(30), <1>1, <1>2, <1>3, <1>4, NoLocalsType, GotoType
     DEF Register, dbVars
<1> QED BY ZenonT(30), <1>5, OwnStepType DEF Register, TypeOK

\* serve_socket returns before the registration.
LEMMA RejectRegisterType ==
    ASSUME TypeOK, NEW c \in Conn, RejectRegister(c)
    PROVE  TypeOK'
<1>1. PICK reply \in {<<>>, <<Tell(c, Plain("error"))>>} :
        Goto(c, "drain", reply, NoLocals)
  BY DEF RejectRegister
<1>2. reply \in Seq(PendingSend)
  BY ZenonT(30), ErrorSendType, SendsType DEF Kinds
<1>3. TaskTypeOK'
  BY SMTT(30), <1>1, <1>2, NoLocalsType, GotoType
  DEF RejectRegister, dbVars, Labels, LocalsFit
<1> QED BY ZenonT(30), <1>3, OwnStepType DEF RejectRegister, TypeOK

\* The handle claim, with and without a database.
LEMMA ClaimHandleType ==
    ASSUME TypeOK, NEW c \in Conn, ClaimHandle(c)
    PROVE  TypeOK'
<1>1. HandleOf[c] \in Handle /\ PubkeyOf[c] \in Peer
  BY SMTT(30), BrokerAssumption DEF ClaimHandle, TypeOK, LocalsOK, LocalsFit
<1>2. /\ owner' \in [Handle -> Peer \cup {None}]
      /\ claimed' \in [Conn -> BOOLEAN]
      /\ \A k \in Conn : claimed'[k] => HandleOf[k] # None
  BY ZenonT(30), <1>1, HandleAssumption DEF ClaimHandle, TypeOK, LocalsOK, dbVars
<1>3. PICK label \in {"index", "insert"} : Goto(c, label, <<>>, NoLocals)
  BY ZenonT(30) DEF ClaimHandle
<1>4. /\ pc' \in [Conn -> Labels]
      /\ out' \in [Conn -> Seq(PendingSend)]
      /\ loc' \in [Conn -> Locals]
  BY SMTT(30), <1>3, NoLocalsType, SendsType DEF Goto, TypeOK, Labels
<1>5. LocalsOK'
  <2> SUFFICES ASSUME NEW k \in Conn PROVE LocalsFit(k, pc[k], loc[k])'
    BY ZenonT(30), <1>2 DEF LocalsOK
  <2>1. CASE k = c
    <3>1. pc'[c] \in {"index", "insert"}
      BY ZenonT(30), <1>3, GotoEffect
    <3>2. HandleOf[c] # None
      BY ZenonT(30), <1>1, HandleAssumption
    <3> QED BY ZenonT(30), <2>1, <3>1, <3>2 DEF LocalsFit
  <2>2. CASE k # c
    BY ZenonT(30), <1>3, <2>2 DEF Goto, TypeOK, LocalsOK, LocalsFit
  <2> QED BY SMTT(30), <2>1, <2>2
<1> QED
  BY ZenonT(30), <1>2, <1>4, <1>5
     DEF ClaimHandle, TypeOK, RegistryTypeOK, PresenceTypeOK,
     RelayTypeOK, registryVars, presenceVars, relayVars, netVars, gauges, news

\* registry.insert, the handle index.
LEMMA InsertIndexType ==
    ASSUME TypeOK, NEW c \in Conn, InsertIndex(c)
    PROVE  TypeOK'
<1>1. HandleOf[c] \in Handle /\ PubkeyOf[c] \in Peer
  BY SMTT(30), BrokerAssumption DEF InsertIndex, TypeOK, LocalsOK, LocalsFit
<1>2. RegistryTypeOK'
  BY <1>1 DEF InsertIndex, IndexHandle, TypeOK, RegistryTypeOK
<1>3. TaskTypeOK'
  BY ZenonT(30), NoLocalsType, SendsType, GotoType
     DEF InsertIndex, dbVars, Labels, LocalsFit
<1> QED
  BY ZenonT(30), <1>2, <1>3
     DEF InsertIndex, TypeOK, TaskTypeOK, PresenceTypeOK, RelayTypeOK,
         presenceVars, relayVars, netVars, dbVars, gauges, news

\* registry.insert, the peer itself.
LEMMA InsertPeerType ==
    ASSUME TypeOK, NEW c \in Conn, InsertPeer(c)
    PROVE  TypeOK'
<1>1. RegistryTypeOK'
  BY BrokerAssumption DEF InsertPeer, PutPeer, TypeOK, RegistryTypeOK
<1>2. TaskTypeOK'
  BY ZenonT(30), NoLocalsType, ErrorSendType, GotoType
  DEF InsertPeer, dbVars, Labels, Registered, LocalsFit, Kinds
<1>3. connected_peers' \in Int
  BY DEF InsertPeer, TypeOK
<1>4. /\ told' \in [Conn -> SUBSET (Peer \X BOOLEAN)]
      /\ last' \in [Conn -> [Peer -> BOOLEAN \cup {None}]]
  BY SMTT(30), ForgetType, BrokerAssumption DEF InsertPeer
<1> QED
  BY ZenonT(30), <1>1, <1>2, <1>3, <1>4
     DEF InsertPeer, TypeOK, TaskTypeOK, PresenceTypeOK, RelayTypeOK,
         presenceVars, relayVars, netVars, dbVars

\* watchers_of collects the peers to tell.
LEMMA SnapshotType ==
    ASSUME TypeOK, NEW c \in Conn, Snapshot(c)
    PROVE  TypeOK'
<1> DEFINE label == IF pc[c] = "announce" THEN "online" ELSE "offline"
<1>1. WatchersOf(PubkeyOf[c]) \in SUBSET Peer
  BY ZenonT(30), SetOfType, BrokerAssumption
     DEF TypeOK, PresenceTypeOK, WatchersOf
<1>2. label \in Labels /\ LocalsFit(c, label, ToVisit(WatchersOf(PubkeyOf[c])))
  BY ZenonT(30) DEF Labels, Registered, LocalsFit
<1>3. Goto(c, label, <<>>, ToVisit(WatchersOf(PubkeyOf[c])))
  BY ZenonT(30) DEF Snapshot
<1>4. TaskTypeOK'
  BY ZenonT(30), <1>1, <1>2, <1>3, ToVisitType, SendsType, GotoType
     DEF Snapshot, dbVars
<1> QED BY ZenonT(30), <1>4, OwnStepType DEF Snapshot, TypeOK

\* The update for one watcher.
LEMMA NotifyType ==
    ASSUME TypeOK, NEW c \in Conn, NEW w \in Peer
    PROVE  Notify(c, w) \in Seq(PendingSend)
<1>1. CASE IsOnline(w)
  <2>1. by_pubkey[w] \in Conn /\ PubkeyOf[c] \in Peer
    BY SMTT(30), <1>1, BrokerAssumption DEF IsOnline, TypeOK, RegistryTypeOK
  <2>2. PresenceUpdate(PubkeyOf[c], pc[c] = "online") \in Msg
    BY ZenonT(30), <2>1, PresenceUpdateType
  <2> QED BY ZenonT(30), <1>1, <2>1, <2>2, SendType, SendsType DEF Notify
<1>2. CASE ~IsOnline(w)
  BY ZenonT(30), <1>2, SendsType DEF Notify
<1> QED BY SMTT(30), <1>1, <1>2

\* broadcast, one watcher.
LEMMA NotifyWatcherType ==
    ASSUME TypeOK, NEW c \in Conn, NotifyWatcher(c)
    PROVE  TypeOK'
<1>1. PICK w \in loc[c].todo :
        Goto(c, pc[c], Notify(c, w), ToVisit(loc[c].todo \ {w}))
  BY ZenonT(30) DEF NotifyWatcher
<1>2. loc[c].todo \in SUBSET Peer /\ w \in Peer
  BY SMTT(30) DEF TypeOK, Locals
<1>3. pc[c] \in Labels /\ LocalsFit(c, pc[c], ToVisit(loc[c].todo \ {w}))
  BY ZenonT(30) DEF NotifyWatcher, TypeOK, LocalsFit
<1>4. TaskTypeOK'
  BY ZenonT(30), <1>1, <1>2, <1>3, NotifyType, ToVisitType, GotoType
     DEF NotifyWatcher, dbVars
<1> QED BY ZenonT(30), <1>4, OwnStepType DEF NotifyWatcher, TypeOK

\* broadcast returns.
LEMMA BroadcastDoneType ==
    ASSUME TypeOK, NEW c \in Conn, BroadcastDone(c)
    PROVE  TypeOK'
<1>1. PICK label \in {"pump", "drain"} : Goto(c, label, <<>>, NoLocals)
  BY ZenonT(30) DEF BroadcastDone
<1>2. label \in Labels /\ LocalsFit(c, label, NoLocals)
  BY DEF Labels, Registered, LocalsFit
<1>3. TaskTypeOK'
  BY ZenonT(30), <1>1, <1>2, NoLocalsType, SendsType, GotoType
     DEF BroadcastDone, dbVars
<1> QED BY ZenonT(30), <1>3, OwnStepType DEF BroadcastDone, TypeOK

-----------------------------------------------------------------------------
(***************************************************************************)
(* The handlers that answer, and the presence handlers.                    *)
(***************************************************************************)
LEMMA AnswerType ==
    ASSUME TypeOK, NEW c \in Conn, Answer(c)
    PROVE  TypeOK'
<1>1. PICK kind \in {"error", "registered", "reply"} :
        Finish(c, <<Tell(c, Plain(kind))>>)
  BY DEF Answer
<1>2. TaskTypeOK'
  BY ZenonT(30), <1>1, ErrorSendType, FinishType DEF Answer, dbVars, Kinds
<1> QED BY SMTT(30), <1>2, HandlerType DEF Answer

\* A lookup's reply.
LEMMA PeerInfoSendType ==
    ASSUME NEW c \in Conn, NEW p \in Peer
    PROVE  <<Tell(c, PeerInfo(p))>> \in Seq(PendingSend)
BY SMTT(30), PeerInfoType, SendType, SendsType

\* The lookup by key.
LEMMA LookupPeerType ==
    ASSUME TypeOK, NEW c \in Conn, LookupPeer(c)
    PROVE  TypeOK'
<1>1. PICK p \in Peer : Finish(c, <<Tell(c, PeerInfo(p))>>) \/ Fail(c)
  BY DEF LookupPeer
<1>2. TaskTypeOK'
  BY ZenonT(30), <1>1, PeerInfoSendType, FinishType, FailType
     DEF LookupPeer, dbVars
<1> QED BY SMTT(30), <1>2, HandlerType DEF LookupPeer

\* The lookup by handle.
LEMMA LookupHandleType ==
    ASSUME TypeOK, NEW c \in Conn, LookupHandle(c)
    PROVE  TypeOK'
<1>1. Fail(c) \/ \E p \in Peer : Finish(c, <<Tell(c, PeerInfo(p))>>)
  BY ZenonT(30) DEF LookupHandle, TypeOK, RegistryTypeOK
<1>2. TaskTypeOK'
  BY ZenonT(30), <1>1, PeerInfoSendType, FinishType, FailType
     DEF LookupHandle, dbVars
<1> QED BY ZenonT(30), <1>2, HandlerType DEF LookupHandle

\* A signal to another peer.
LEMMA SignalType ==
    ASSUME TypeOK, NEW c \in Conn, Signal(c)
    PROVE  TypeOK'
<1>1. PICK to \in Peer :
        \/ Fail(c)
        \/ /\ IsOnline(to)
           /\ Finish(c, <<TellOrFail(by_pubkey[to], SignalFrom(PubkeyOf[c]))>>)
  BY SMTT(30) DEF Signal
<1>2. IsOnline(to) => by_pubkey[to] \in Conn
  BY DEF IsOnline, TypeOK, RegistryTypeOK
<1>3. SignalFrom(PubkeyOf[c]) \in Msg
  BY SMTT(30), SignalFromType, BrokerAssumption
<1>4. IsOnline(to) =>
        <<TellOrFail(by_pubkey[to], SignalFrom(PubkeyOf[c]))>> \in Seq(PendingSend)
  BY SMTT(30), <1>2, <1>3, SendType, SendsType
<1>5. TaskTypeOK'
  BY ZenonT(30), <1>1, <1>4, FinishType, FailType DEF Signal, dbVars
<1> QED BY SMTT(30), <1>5, HandlerType DEF Signal

\* The peers of a message are finitely many, so the gauge stays an integer.
LEMMA PeerListType ==
    ASSUME NEW peers \in PeerLists
    PROVE  peers \in SUBSET Peer /\ Cardinality(peers) \in Nat
<1>1. peers \in SUBSET Peer
  BY SMTT(30), BrokerAssumption
<1> QED BY SMTT(30), <1>1, BrokerAssumption

\* SubscribePresence enters subscribe.
LEMMA SubscribePresenceType ==
    ASSUME TypeOK, NEW c \in Conn, SubscribePresence(c)
    PROVE  TypeOK'
<1>1. PICK peers \in PeerLists :
        /\ BeginSubscribe(c, PubkeyOf[c], peers)
        /\ presence_subscriptions' = presence_subscriptions + Cardinality(peers)
        /\ Goto(c, "online_set", <<Tell(c, Plain("ack"))>>, ToVisit(peers))
  BY DEF SubscribePresence
<1>2. peers \in SUBSET Peer /\ Cardinality(peers) \in Nat
  BY SMTT(30), PeerListType
<1>3. PresenceTypeOK'
  BY ZenonT(30), <1>1, <1>2, BeginSubscribeType, BrokerAssumption DEF TypeOK
<1>4. TaskTypeOK'
  <2>1. "online_set" \in Labels /\ LocalsFit(c, "online_set", ToVisit(peers))
    BY ZenonT(30) DEF Labels, Registered, LocalsFit
  <2> QED BY ZenonT(30), <1>1, <1>2, <2>1, ErrorSendType, ToVisitType, GotoType
          DEF SubscribePresence, dbVars, Kinds
<1>5. presence_subscriptions' \in Int
  BY SMTT(30), <1>1, <1>2 DEF TypeOK
<1>6. budget' \in [Conn -> Nat]
  BY SMTT(30), ReceiveType DEF SubscribePresence
<1> QED BY SMTT(30), <1>3, <1>4, <1>5, <1>6, PresenceHandlerType
           DEF SubscribePresence

\* UnsubscribePresence enters unsubscribe.
LEMMA UnsubscribePresenceType ==
    ASSUME TypeOK, NEW c \in Conn, UnsubscribePresence(c)
    PROVE  TypeOK'
<1>1. PICK peers \in PeerLists :
        /\ BeginUnsubscribe(c, PubkeyOf[c], peers)
        /\ presence_subscriptions' = presence_subscriptions - Cardinality(peers)
  BY DEF UnsubscribePresence
<1>2. peers \in SUBSET Peer /\ Cardinality(peers) \in Nat
  BY SMTT(30), PeerListType
<1>3. PresenceTypeOK'
  BY ZenonT(30), <1>1, <1>2, BeginUnsubscribeType, BrokerAssumption DEF TypeOK
<1>4. TaskTypeOK'
  BY ZenonT(30)
     DEF UnsubscribePresence, TypeOK, TaskTypeOK, LocalsOK, LocalsFit,
         taskVars, dbVars
<1>5. presence_subscriptions' \in Int
  BY SMTT(30), <1>1, <1>2 DEF TypeOK
<1>6. budget' \in [Conn -> Nat]
  BY ZenonT(30), ReceiveType DEF UnsubscribePresence
<1> QED BY SMTT(30), <1>3, <1>4, <1>5, <1>6, PresenceHandlerType
           DEF UnsubscribePresence

\* One step of a presence call.
LEMMA PresenceCallType ==
    ASSUME TypeOK, NEW c \in Conn, PresenceCall(c)
    PROVE  TypeOK'
<1>1. PresenceTypeOK'
  BY ZenonT(30), PresenceStepType DEF PresenceCall, TypeOK
<1>2. TaskTypeOK'
  BY ZenonT(30) DEF PresenceCall, TypeOK, TaskTypeOK, LocalsOK, LocalsFit,
     taskVars, dbVars
<1> QED BY ZenonT(30), <1>1, <1>2, PresenceHandlerType
           DEF PresenceCall, gauges, TypeOK

\* online_set looks one target up.
LEMMA ReadOnlineType ==
    ASSUME TypeOK, NEW c \in Conn, ReadOnline(c)
    PROVE  TypeOK'
<1>1. PICK p \in loc[c].todo :
        Goto(c, "online_set",
             Append(out[c], Tell(c, PresenceUpdate(p, IsOnline(p)))),
             ToVisit(loc[c].todo \ {p}))
  BY ZenonT(30) DEF ReadOnline
<1>2. loc[c].todo \in SUBSET Peer /\ p \in Peer
  BY SMTT(30) DEF TypeOK, Locals
<1>3. Append(out[c], Tell(c, PresenceUpdate(p, IsOnline(p)))) \in Seq(PendingSend)
  <2>1. PresenceUpdate(p, IsOnline(p)) \in Msg
    BY ZenonT(30), <1>2, PresenceUpdateType DEF IsOnline
  <2>2. Tell(c, PresenceUpdate(p, IsOnline(p))) \in PendingSend
    BY SMTT(30), <2>1, SendType
  <2>3. out[c] \in Seq(PendingSend)
    BY ZenonT(30) DEF TypeOK
  <2> HIDE DEF Tell, PresenceUpdate
  <2> QED BY SMTT(30), <2>2, <2>3
<1>4. /\ "online_set" \in Labels
      /\ LocalsFit(c, "online_set", ToVisit(loc[c].todo \ {p}))
  BY ZenonT(30) DEF Labels, Registered, LocalsFit
<1>5. TaskTypeOK'
  BY ZenonT(30), <1>1, <1>2, <1>3, <1>4, ToVisitType, GotoType
     DEF ReadOnline, dbVars
<1> QED BY ZenonT(30), <1>5, OwnStepType DEF ReadOnline, TypeOK

\* The snapshot is sent.
LEMMA OnlineSetDoneType ==
    ASSUME TypeOK, NEW c \in Conn, OnlineSetDone(c)
    PROVE  TypeOK'
<1>1. out[c] \in Seq(PendingSend) /\ Finish(c, out[c])
  BY ZenonT(30) DEF OnlineSetDone, Finish, TypeOK
<1>2. TaskTypeOK'
  BY ZenonT(30), <1>1, FinishType DEF OnlineSetDone, dbVars
<1> QED BY ZenonT(30), <1>2, OwnStepType DEF OnlineSetDone, TypeOK

\* The cleanup enters clear_subscriber.
LEMMA ClearSubscriberType ==
    ASSUME TypeOK, NEW c \in Conn, ClearSubscriber(c)
    PROVE  TypeOK'
<1>1. PresenceTypeOK'
  BY ZenonT(30), BeginClearType, BrokerAssumption DEF ClearSubscriber, TypeOK
<1>2. TaskTypeOK'
  <2>1. Goto(c, "drop", <<>>, Dropping(Sid, {})) /\ UNCHANGED claimed
    BY ZenonT(30) DEF ClearSubscriber, dbVars
  <2> QED BY SMTT(30), <2>1, DropGoto
<1> QED BY ZenonT(30), <1>1, <1>2, PresenceHandlerType
           DEF ClearSubscriber, gauges, TypeOK

\* The broker starts well typed.
LEMMA InitType == Init => TypeOK
<1> SUFFICES ASSUME Init PROVE TypeOK
  OBVIOUS
<1>1. RegistryTypeOK /\ PresenceTypeOK /\ RelayTypeOK
  BY SMTT(30), PresenceInitType
     DEF Init, RegistryInit, RegistryTypeOK, RelayInit, RelayTypeOK
<1>2. pc \in [Conn -> Labels] /\ out \in [Conn -> Seq(PendingSend)]
  BY SMTT(30) DEF Init, Labels
<1>3. loc \in [Conn -> Locals]
  BY SMTT(30), NoLocalsType DEF Init
<1>4. chan \in [Conn -> Seq(Msg)] /\ \A c \in Conn : Len(chan[c]) <= ChanCap
  BY SMTT(30), BrokerAssumption DEF Init
<1>5. LocalsOK
  BY ZenonT(30) DEF Init, LocalsOK, LocalsFit
<1>6. /\ told \in [Conn -> SUBSET (Peer \X BOOLEAN)]
      /\ last \in [Conn -> [Peer -> BOOLEAN \cup {None}]]
      /\ overlapped \subseteq Conn
  BY SMTT(30) DEF Init
<1>7. /\ writer \in [Conn -> {"running", "done"}]
      /\ socket \in [Conn -> {"open", "closed"}]
      /\ owner \in [Handle -> Peer \cup {None}] /\ claimed \in [Conn -> BOOLEAN]
      /\ connected_peers \in Int /\ presence_subscriptions \in Int
      /\ budget \in [Conn -> Nat]
  BY SMTT(30), BrokerAssumption DEF Init
<1> QED BY ZenonT(30), <1>1, <1>2, <1>3, <1>4, <1>5, <1>6, <1>7 DEF TypeOK
=============================================================================
