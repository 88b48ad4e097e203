------------------------------- MODULE Broker -------------------------------
(***************************************************************************)
(* The broker process: one task per WebSocket connection, running          *)
(* serve_socket of src/server.rs, and one writer task that drains the      *)
(* connection's bounded outbound channel into the socket.  The tasks share *)
(* the registry, the presence indexes and the relay sessions, and run on   *)
(* tokio's multi-threaded runtime, so they interleave at every operation   *)
(* on a shared map and at every await.                                     *)
(*                                                                         *)
(* pc[c] is where the task of connection c stands in serve_socket or in    *)
(* the handler it is running.  out[c] holds the channel sends that code    *)
(* still has to make, in order; the task does nothing else until they are  *)
(* made.  A send waits while the receiving channel is full.                *)
(***************************************************************************)
EXTENDS PeerRegistry, PresenceManager, RelayManager, Integers, Sequences

CONSTANTS
    PubkeyOf,       \* [Conn -> Peer], the key a connection's client signs with
    HandleOf,       \* [Conn -> Handle or None], the handle it registers with
    HasDb,          \* whether a Postgres pool is configured
    Requests,       \* the kinds of message the client of each connection sends
    PeerLists,      \* the peer lists their presence messages carry
    MaxRequests,    \* bound: [Conn -> Nat], messages sent after registering
    ChanCap         \* capacity of an outbound channel (64 in the code)

ASSUME BrokerAssumption ==
    /\ PubkeyOf \in [Conn -> Peer]
    /\ HandleOf \in [Conn -> Handle \cup {None}]
    /\ HasDb \in BOOLEAN
    /\ PeerLists \subseteq SUBSET Peer
    /\ \A peers \in PeerLists : Cardinality(peers) \in Nat
    /\ MaxRequests \in [Conn -> Nat]
    /\ ChanCap \in Nat \ {0}

VARIABLES
    pc, out, loc,               \* the session tasks
    chan, writer, socket,       \* channels, writer tasks, client sockets
    owner, claimed,             \* the handles table; handle_claimed
    connected_peers,            \* gauge
    presence_subscriptions,     \* gauge
    told, last,                 \* history: presence updates queued for c, since
                                \* the peer's last registry change; the last one
    overlapped,                 \* history: connections that were registered when
                                \* another one of their key ran registry.remove
    budget                      \* messages the client may still send

taskVars == <<pc, out, loc>>
netVars == <<chan, writer, socket>>
dbVars == <<owner, claimed>>
gauges == <<connected_peers, presence_subscriptions>>
news == <<told, last, overlapped>>
vars == <<registryVars, presenceVars, relayVars, taskVars, netVars, dbVars,
          gauges, news, budget>>

-----------------------------------------------------------------------------
(***************************************************************************)
(* Messages, pending sends and the locals a handler keeps across an await. *)
(***************************************************************************)
Kinds == {"reply", "error", "registered", "ack", "signal", "offer",
          "established", "data"}

Msg == [kind : Kinds, peer : Peer \cup {None}, online : BOOLEAN,
        sid : Sid \cup {None}]
         \cup [kind : {"presence"}, peer : Peer, online : BOOLEAN, sid : {None}]

Plain(kind) == [kind |-> kind, peer |-> None, online |-> FALSE, sid |-> None]

PresenceUpdate(p, online) ==
    [kind |-> "presence", peer |-> p, online |-> online, sid |-> None]

SignalFrom(p) == [kind |-> "signal", peer |-> p, online |-> FALSE, sid |-> None]

RelayMsg(kind, i, p) ==
    [kind |-> kind, peer |-> p, online |-> FALSE, sid |-> i]

\* must: the caller propagates a send error with `?` instead of ignoring it.
PendingSend == [to : Conn, must : BOOLEAN, msg : Msg]

\* `let _ = tx.send(m).await`
Tell(d, m) == [to |-> d, must |-> FALSE, msg |-> m]

\* `try_send(tx, m).await?`
TellOrFail(d, m) == [to |-> d, must |-> TRUE, msg |-> m]

Locals == [todo : SUBSET Peer, target : Peer \cup {None},
           sid : Sid \cup {None}, held : Conn \cup {None},
           unread : SUBSET Sid, stale : SUBSET Sid]

LocalsOf(todo, target, sid, held, unread, stale) ==
    [todo |-> todo, target |-> target, sid |-> sid, held |-> held,
     unread |-> unread, stale |-> stale]

NoLocals == LocalsOf({}, None, None, None, {}, {})

\* The peers a broadcast or an online_set still has to visit.
ToVisit(peers) == LocalsOf(peers, None, None, None, {}, {})

\* A relay handler at work on session i, whose other party is p, holding the
\* PeerHandle of connection d.
AtWork(i, p, d) == LocalsOf({}, p, i, d, {}, {})

\* registry.remove, holding the PeerHandle it took out.
Removed(d) == LocalsOf({}, None, None, d, {}, {})

\* drop_sessions_for: the ids its iterator has yet to reach, and the ids it
\* has collected and not yet removed.
Dropping(unread, stale) == LocalsOf({}, None, None, None, unread, stale)

\* Labels between a connection's own insert into the registry and its remove.
Registered == {"announce", "online", "pump", "online_set", "open",
               "accept_init", "accept_resp", "forward", "remove"}

\* Labels from there to the point where clear_subscriber is called.
Unregistering == {"unindex_check", "unindex", "clear"}

Labels == {"first", "claim", "index", "insert"} \cup Registered
            \cup Unregistering
            \cup {"drop", "withdraw", "offline", "drain", "closed"}

Init ==
    /\ RegistryInit /\ PresenceInit /\ RelayInit
    /\ pc = [c \in Conn |-> "first"]
    /\ out = [c \in Conn |-> <<>>]
    /\ loc = [c \in Conn |-> NoLocals]
    /\ chan = [c \in Conn |-> <<>>]
    /\ writer = [c \in Conn |-> "running"]
    /\ socket = [c \in Conn |-> "open"]
    /\ owner = [h \in Handle |-> None]
    /\ claimed = [c \in Conn |-> FALSE]
    /\ connected_peers = 0
    /\ presence_subscriptions = 0
    /\ told = [c \in Conn |-> {}]
    /\ last = [c \in Conn |-> [p \in Peer |-> None]]
    /\ overlapped = {}
    /\ budget = MaxRequests

-----------------------------------------------------------------------------
(***************************************************************************)
(* Channels and writers.                                                   *)
(***************************************************************************)
\* A task runs its next statement once the awaits before it are over.
Ready(c) == out[c] = <<>> /\ call[c] = Idle

\* Task c continues at label with these sends to make and these locals.
Goto(c, label, sends, locals) ==
    /\ pc' = [pc EXCEPT ![c] = label]
    /\ out' = [out EXCEPT ![c] = sends]
    /\ loc' = [loc EXCEPT ![c] = locals]

\* What the receiving client will have been told, once m is in its channel.
Record(d, m) ==
    IF m.kind = "presence"
    THEN /\ told' = [told EXCEPT ![d] = @ \cup {<<m.peer, m.online>>}]
         /\ last' = [last EXCEPT ![d] = [last[d] EXCEPT ![m.peer] = m.online]]
         /\ UNCHANGED overlapped
    ELSE UNCHANGED news

\* The registry entry of p changes: what clients were told of p before is old.
Forget(p) ==
    /\ told' = [c \in Conn |-> told[c] \ {<<p, TRUE>>, <<p, FALSE>>}]
    /\ UNCHANGED last

\* Fault: a failed send is tried again.
AfterFailureRetries(c) == out[c]

\* The sends left after the first one failed: the caller either ignores the
\* failure, or returns PeerOffline and pump_messages reports it to the client.
AfterFailure(c) ==
    IF Head(out[c]).must THEN <<Tell(c, Plain("error"))>> ELSE Tail(out[c])

\* Fault: the channel is unbounded.
SendUnbounded(c) ==
    /\ out[c] # <<>>
    /\ pc[c] # "online_set"
    /\ LET d == Head(out[c]).to
           m == Head(out[c]).msg
       IN \/ /\ writer[d] = "running"
             /\ chan' = [chan EXCEPT ![d] = Append(@, m)]
             /\ out' = [out EXCEPT ![c] = Tail(@)]
             /\ Record(d, m)
          \/ /\ writer[d] = "done"
             /\ out' = [out EXCEPT ![c] = AfterFailure(c)]
             /\ UNCHANGED <<chan, news>>
    /\ UNCHANGED <<registryVars, presenceVars, relayVars, pc, loc, writer,
                   socket, dbVars, gauges, budget>>

\* tx.send(..).await and try_send(..).await: waits for room in the channel,
\* and fails once the receiver is gone.
Send(c) ==
    /\ out[c] # <<>>
    /\ pc[c] # "online_set"
    /\ LET d == Head(out[c]).to
           m == Head(out[c]).msg
       IN \/ /\ writer[d] = "running"
             /\ Len(chan[d]) < ChanCap
             /\ chan' = [chan EXCEPT ![d] = Append(@, m)]
             /\ out' = [out EXCEPT ![c] = Tail(@)]
             /\ Record(d, m)
          \/ /\ writer[d] = "done"
             /\ out' = [out EXCEPT ![c] = AfterFailure(c)]
             /\ UNCHANGED <<chan, news>>
    /\ UNCHANGED <<registryVars, presenceVars, relayVars, pc, loc, writer,
                   socket, dbVars, gauges, budget>>

\* Someone still holds a clone of the sender of c's channel: the session task
\* itself, the registry, or a task that looked c up and has yet to send to it.
SenderAlive(c) ==
    \/ pc[c] \notin {"drain", "closed"}
    \/ by_pubkey[PubkeyOf[c]] = c
    \/ \E k \in Conn : \/ loc[k].held = c
                       \/ \E i \in DOMAIN out[k] : out[k][i].to = c

\* The writer task takes a message and the socket accepts it.  A socket the
\* client has closed may still accept a message, which is then lost.
Deliver(c) ==
    /\ writer[c] = "running" /\ chan[c] # <<>>
    /\ chan' = [chan EXCEPT ![c] = Tail(@)]
    /\ UNCHANGED <<registryVars, presenceVars, relayVars, taskVars, writer,
                   socket, dbVars, gauges, news, budget>>

\* The writer task ends: the socket refuses a message, or every sender is
\* dropped and the channel is empty.  The receiver is dropped with it.
WriterEnd(c) ==
    /\ writer[c] = "running"
    /\ \/ chan[c] # <<>> /\ socket[c] = "closed"
       \/ chan[c] = <<>> /\ ~SenderAlive(c)
    /\ writer' = [writer EXCEPT ![c] = "done"]
    /\ chan' = [chan EXCEPT ![c] = <<>>]
    /\ UNCHANGED <<registryVars, presenceVars, relayVars, taskVars, socket,
                   dbVars, gauges, news, budget>>

\* The client closes its socket, or loses it.
ClientClose(c) ==
    /\ socket[c] = "open"
    /\ socket' = [socket EXCEPT ![c] = "closed"]
    /\ UNCHANGED <<registryVars, presenceVars, relayVars, taskVars, chan,
                   writer, dbVars, gauges, news, budget>>

-----------------------------------------------------------------------------
(***************************************************************************)
(* serve_socket, up to the message pump.                                   *)
(***************************************************************************)
\* The first frame is a register message that verifies.  Without a database a
\* requested handle is answered with an error, and registration goes on.
Register(c) ==
    /\ pc[c] = "first"
    /\ LET wants == HandleOf[c] # None IN
       Goto(c, IF HasDb /\ wants THEN "claim" ELSE "insert",
            IF ~HasDb /\ wants THEN <<Tell(c, Plain("error"))>> ELSE <<>>,
            NoLocals)
    /\ UNCHANGED <<registryVars, presenceVars, relayVars, netVars, dbVars,
                   gauges, news, budget>>

\* No first frame, not text, not JSON (no reply), not a register message, or
\* one that does not verify: serve_socket returns and its sender is dropped.
RejectRegister(c) ==
    /\ pc[c] = "first"
    /\ \E reply \in {<<>>, <<Tell(c, Plain("error"))>>} :
           Goto(c, "drain", reply, NoLocals)
    /\ UNCHANGED <<registryVars, presenceVars, relayVars, netVars, dbVars,
                   gauges, news, budget>>

\* Fault: the requested handle goes into the PeerHandle whatever claim returns.
ClaimHandleIgnored(c) ==
    /\ pc[c] = "claim" /\ Ready(c)
    /\ \/ /\ owner[HandleOf[c]] \in {None, PubkeyOf[c]}
          /\ owner' = [owner EXCEPT ![HandleOf[c]] = PubkeyOf[c]]
          /\ claimed' = [claimed EXCEPT ![c] = TRUE]
       \/ UNCHANGED dbVars
    /\ Goto(c, "index", <<>>, NoLocals)
    /\ UNCHANGED <<registryVars, presenceVars, relayVars, netVars, gauges,
                   news, budget>>

\* handles::claim, by its outcomes: it succeeds only for a handle that is free
\* or already this key's, and may fail for any handle (taken, another handle
\* owned, invalid, database error), also after the claim took effect, when the
\* commit's answer is lost.  A failure is not reported to the client.
ClaimHandle(c) ==
    /\ pc[c] = "claim" /\ Ready(c)
    /\ \/ /\ owner[HandleOf[c]] \in {None, PubkeyOf[c]}
          /\ owner' = [owner EXCEPT ![HandleOf[c]] = PubkeyOf[c]]
          /\ \/ /\ claimed' = [claimed EXCEPT ![c] = TRUE]
                /\ Goto(c, "index", <<>>, NoLocals)
             \/ /\ Goto(c, "insert", <<>>, NoLocals)
                /\ UNCHANGED claimed
       \/ /\ Goto(c, "insert", <<>>, NoLocals)
          /\ UNCHANGED dbVars
    /\ UNCHANGED <<registryVars, presenceVars, relayVars, netVars, gauges,
                   news, budget>>

\* registry.insert of a PeerHandle with a handle: the handle index first.
InsertIndex(c) ==
    /\ pc[c] = "index" /\ Ready(c)
    /\ IndexHandle(HandleOf[c], PubkeyOf[c])
    /\ Goto(c, "insert", <<>>, NoLocals)
    /\ UNCHANGED <<presenceVars, relayVars, netVars, dbVars, gauges, news, budget>>

\* registry.insert, the gauge, and the registered reply.
InsertPeer(c) ==
    /\ pc[c] = "insert" /\ Ready(c)
    /\ PutPeer(PubkeyOf[c], c)
    /\ connected_peers' = connected_peers + 1
    /\ Goto(c, "announce", <<Tell(c, Plain("registered"))>>, NoLocals)
    /\ Forget(PubkeyOf[c])
    /\ UNCHANGED <<presenceVars, relayVars, netVars, dbVars,
                   presence_subscriptions, overlapped, budget>>

-----------------------------------------------------------------------------
(***************************************************************************)
(* PresenceManager::broadcast: a snapshot of the watchers, then for each   *)
(* of them a registry lookup and a send that is awaited.                   *)
(***************************************************************************)
Snapshot(c) ==
    /\ pc[c] \in {"announce", "withdraw"} /\ Ready(c)
    /\ Goto(c, IF pc[c] = "announce" THEN "online" ELSE "offline", <<>>,
            ToVisit(WatchersOf(PubkeyOf[c])))
    /\ UNCHANGED <<registryVars, presenceVars, relayVars, netVars, dbVars,
                   gauges, news, budget>>

\* The update a watcher gets, unless it is not in the registry.
Notify(c, w) ==
    IF IsOnline(w)
    THEN <<Tell(by_pubkey[w],
                  PresenceUpdate(PubkeyOf[c], pc[c] = "online"))>>
    ELSE <<>>

NotifyWatcher(c) ==
    /\ pc[c] \in {"online", "offline"} /\ Ready(c)
    /\ \E w \in loc[c].todo :
           Goto(c, pc[c], Notify(c, w), ToVisit(loc[c].todo \ {w}))
    /\ UNCHANGED <<registryVars, presenceVars, relayVars, netVars, dbVars,
                   gauges, news, budget>>

\* The broadcast is over: on to the pump, or to drop(tx).
BroadcastDone(c) ==
    /\ pc[c] \in {"online", "offline"} /\ Ready(c) /\ loc[c].todo = {}
    /\ Goto(c, IF pc[c] = "online" THEN "pump" ELSE "drain", <<>>, NoLocals)
    /\ UNCHANGED <<registryVars, presenceVars, relayVars, netVars, dbVars,
                   gauges, news, budget>>

-----------------------------------------------------------------------------
(***************************************************************************)
(* pump_messages and handle_client_message.  The frames of a client that   *)
(* has just closed its socket may still be waiting to be read.             *)
(***************************************************************************)
\* The next frame is a message of this kind, signed by the session's key.
Receive(c, kind) ==
    /\ pc[c] = "pump" /\ Ready(c)
    /\ kind \in Requests[c]
    /\ budget[c] > 0
    /\ budget' = [budget EXCEPT ![c] = @ - 1]

\* The handler finishes with these sends; an Err becomes an error message.
Finish(c, sends) == Goto(c, "pump", sends, NoLocals)

Fail(c) == Finish(c, <<Tell(c, Plain("error"))>>)

\* Messages whose handlers change nothing here and answer: not JSON, not signed
\* by the session's key or out of the replay window; register once more; ping;
\* and the team messages, which change only the database's team tables.
Answer(c) ==
    /\ Receive(c, "query")
    /\ \E kind \in {"error", "registered", "reply"} :
           Finish(c, <<Tell(c, Plain(kind))>>)
    /\ UNCHANGED <<registryVars, presenceVars, relayVars, netVars, dbVars,
                   gauges, news>>

\* A lookup's answer, from the registry as it was before the database is asked
\* for the peer's kind.
PeerInfo(p) == [kind |-> "reply", peer |-> p, online |-> IsOnline(p), sid |-> None]

LookupPeer(c) ==
    /\ Receive(c, "query")
    /\ \E p \in Peer : IF IsOnline(p) THEN Finish(c, <<Tell(c, PeerInfo(p))>>)
                                      ELSE Fail(c)
    /\ UNCHANGED <<registryVars, presenceVars, relayVars, netVars, dbVars,
                   gauges, news>>

\* The handles table answers when there is a database, unless the query fails;
\* the index otherwise.
LookupHandle(c) ==
    /\ Receive(c, "query")
    /\ \E h \in Handle :
         LET p == IF HasDb THEN owner[h] ELSE handle_to_pubkey[h] IN
         \/ HasDb /\ Fail(c)
         \/ IF p # None THEN Finish(c, <<Tell(c, PeerInfo(p))>>) ELSE Fail(c)
    /\ UNCHANGED <<registryVars, presenceVars, relayVars, netVars, dbVars,
                   gauges, news>>

\* relay_signal: rate limit, payload checks, then the recipient's channel.
Signal(c) ==
    /\ Receive(c, "signal")
    /\ \E to \in Peer :
         \/ Fail(c)
         \/ /\ IsOnline(to)
            /\ Finish(c, <<TellOrFail(by_pubkey[to], SignalFrom(PubkeyOf[c]))>>)
    /\ UNCHANGED <<registryVars, presenceVars, relayVars, netVars, dbVars,
                   gauges, news>>

\* presence.subscribe and the gauge; the ack is sent once the online_set
\* snapshot below is complete.
SubscribePresence(c) ==
    /\ Receive(c, "subscribe")
    /\ \E peers \in PeerLists :
         /\ BeginSubscribe(c, PubkeyOf[c], peers)
         /\ presence_subscriptions' = presence_subscriptions + Cardinality(peers)
         /\ Goto(c, "online_set", <<Tell(c, Plain("ack"))>>, ToVisit(peers))
    /\ UNCHANGED <<registryVars, relayVars, netVars, dbVars, connected_peers, news>>

\* Fault: online_set is read before presence.subscribe has returned.
ReadOnlineEarly(c) ==
    /\ pc[c] = "online_set"
    /\ \E p \in loc[c].todo :
         Goto(c, "online_set",
              Append(out[c], Tell(c, PresenceUpdate(p, IsOnline(p)))),
              ToVisit(loc[c].todo \ {p}))
    /\ UNCHANGED <<registryVars, presenceVars, relayVars, netVars, dbVars,
                   gauges, news, budget>>

\* registry.online_set: one contains_key per peer, each an update to send.
ReadOnline(c) ==
    /\ pc[c] = "online_set" /\ call[c] = Idle
    /\ \E p \in loc[c].todo :
         Goto(c, "online_set",
              Append(out[c], Tell(c, PresenceUpdate(p, IsOnline(p)))),
              ToVisit(loc[c].todo \ {p}))
    /\ UNCHANGED <<registryVars, presenceVars, relayVars, netVars, dbVars,
                   gauges, news, budget>>

\* The snapshot is complete: the ack and the updates are sent from here on.
OnlineSetDone(c) ==
    /\ pc[c] = "online_set" /\ call[c] = Idle /\ loc[c].todo = {}
    /\ Goto(c, "pump", out[c], NoLocals)
    /\ UNCHANGED <<registryVars, presenceVars, relayVars, netVars, dbVars,
                   gauges, news, budget>>

UnsubscribePresence(c) ==
    /\ Receive(c, "unsubscribe")
    /\ \E peers \in PeerLists :
         /\ BeginUnsubscribe(c, PubkeyOf[c], peers)
         /\ presence_subscriptions' = presence_subscriptions - Cardinality(peers)
    /\ UNCHANGED <<registryVars, relayVars, taskVars, netVars, dbVars,
                   connected_peers, news>>

-----------------------------------------------------------------------------
(***************************************************************************)
(* The relay handlers.                                                     *)
(***************************************************************************)
\* request: the responder's handle, cloned out of the registry, and a new id.
RequestRelay(c) ==
    /\ Receive(c, "relay")
    /\ \E p \in Peer :
         IF IsOnline(p)
         THEN \E i \in Sid :
                /\ DrawId(i)
                /\ Goto(c, "open", <<>>, AtWork(i, p, by_pubkey[p]))
         ELSE Fail(c) /\ UNCHANGED relayVars
    /\ UNCHANGED <<registryVars, presenceVars, netVars, dbVars, gauges, news>>

\* request: the session, then the offer and, if that is sent, the reply.
InsertSession(c) ==
    /\ pc[c] = "open" /\ Ready(c)
    /\ LET i == loc[c].sid
           p == PubkeyOf[c]
       IN /\ OpenSession(i, p, loc[c].target)
          /\ Finish(c, <<TellOrFail(loc[c].held, RelayMsg("offer", i, p)),
                        Tell(c, RelayMsg("established", i, loc[c].target))>>)
    /\ UNCHANGED <<registryVars, presenceVars, netVars, dbVars, gauges, news, budget>>

\* accept: the checks and the promotion, under the session's guard.
AcceptRelay(c) ==
    /\ Receive(c, "relay")
    /\ \E i \in Sid :
         IF MayAccept(i, PubkeyOf[c])
         THEN /\ ActivateSession(i)
              /\ Goto(c, "accept_init", <<>>,
                      AtWork(i, sessions[i].initiator, None))
         ELSE Fail(c) /\ UNCHANGED relayVars
    /\ UNCHANGED <<registryVars, presenceVars, netVars, dbVars, gauges, news>>

\* accept: the initiator's handle; the session stays Active if it has none.
AcceptInitiator(c) ==
    /\ pc[c] = "accept_init" /\ Ready(c)
    /\ IF IsOnline(loc[c].target)
       THEN Goto(c, "accept_resp", <<>>,
                 AtWork(loc[c].sid, loc[c].target, by_pubkey[loc[c].target]))
       ELSE Fail(c)
    /\ UNCHANGED <<registryVars, presenceVars, relayVars, netVars, dbVars,
                   gauges, news, budget>>

\* accept: the responder's handle, then both notifications.
AcceptResponder(c) ==
    /\ pc[c] = "accept_resp" /\ Ready(c)
    /\ LET p == PubkeyOf[c]
           i == loc[c].sid
       IN IF IsOnline(p)
          THEN Finish(c,
                 <<TellOrFail(loc[c].held, RelayMsg("established", i, p)),
                   TellOrFail(by_pubkey[p],
                              RelayMsg("established", i, loc[c].target))>>)
          ELSE Fail(c)
    /\ UNCHANGED <<registryVars, presenceVars, relayVars, netVars, dbVars,
                   gauges, news, budget>>

\* forward: the checks, under the session's guard.  The payload may be refused
\* afterwards (encoding, size, quota), with the guard dropped.
RelayFrame(c) ==
    /\ Receive(c, "relay")
    /\ \E i \in Sid :
         \/ Fail(c)
         \/ /\ MayForward(i, PubkeyOf[c])
            /\ Goto(c, "forward", <<>>,
                    AtWork(i, OtherParty(i, PubkeyOf[c]), None))
    /\ UNCHANGED <<registryVars, presenceVars, relayVars, netVars, dbVars,
                   gauges, news>>

\* forward: the other party's handle, and the frame.
ForwardFrame(c) ==
    /\ pc[c] = "forward" /\ Ready(c)
    /\ LET p == loc[c].target IN
       IF IsOnline(p)
       THEN Finish(c, <<TellOrFail(by_pubkey[p],
                              RelayMsg("data", loc[c].sid, PubkeyOf[c]))>>)
       ELSE Fail(c)
    /\ UNCHANGED <<registryVars, presenceVars, relayVars, netVars, dbVars,
                   gauges, news, budget>>

-----------------------------------------------------------------------------
(***************************************************************************)
(* serve_socket, after the message pump.                                   *)
(***************************************************************************)
\* Fault: registry.remove is left out of the cleanup.
StreamEndKeepsEntry(c) ==
    /\ pc[c] = "pump" /\ Ready(c)
    /\ socket[c] = "closed"
    /\ Goto(c, "clear", <<>>, NoLocals)
    /\ UNCHANGED <<registryVars, presenceVars, relayVars, netVars, dbVars,
                   gauges, news, budget>>

\* The stream yields Close, an error or its end, and the pump's loop breaks.
StreamEnd(c) ==
    /\ pc[c] = "pump" /\ Ready(c)
    /\ socket[c] = "closed"
    /\ Goto(c, "remove", <<>>, NoLocals)
    /\ UNCHANGED <<registryVars, presenceVars, relayVars, netVars, dbVars,
                   gauges, news, budget>>

\* The other connections of the key of c that have yet to run registry.remove.
OthersOf(c) == {d \in Conn \ {c} : PubkeyOf[d] = PubkeyOf[c] /\ pc[d] \in Registered}

\* Fault: the rest of the cleanup is skipped when there is no entry.
RemovePeerOrReturn(c) ==
    /\ pc[c] = "remove" /\ Ready(c)
    /\ TakePeer(PubkeyOf[c])
    /\ connected_peers' = connected_peers - 1
    /\ LET entry == by_pubkey[PubkeyOf[c]] IN
       CASE entry = None -> Goto(c, "drain", <<>>, NoLocals)
         [] entry # None /\ claimed[entry] ->
              Goto(c, "unindex_check", <<>>, Removed(entry))
         [] OTHER -> Goto(c, "clear", <<>>, NoLocals)
    /\ Forget(PubkeyOf[c])
    /\ overlapped' = overlapped \cup OthersOf(c)
    /\ UNCHANGED <<presenceVars, relayVars, netVars, dbVars,
                   presence_subscriptions, budget>>

\* registry.remove: the entry, held until the call returns; and the gauge.
RemovePeer(c) ==
    /\ pc[c] = "remove" /\ Ready(c)
    /\ TakePeer(PubkeyOf[c])
    /\ connected_peers' = connected_peers - 1
    /\ LET entry == by_pubkey[PubkeyOf[c]] IN
       IF entry # None /\ claimed[entry]
       THEN Goto(c, "unindex_check", <<>>, Removed(entry))
       ELSE Goto(c, "clear", <<>>, NoLocals)
    /\ Forget(PubkeyOf[c])
    /\ overlapped' = overlapped \cup OthersOf(c)
    /\ UNCHANGED <<presenceVars, relayVars, netVars, dbVars,
                   presence_subscriptions, budget>>

\* registry.remove: does the index still point at this key?
CheckIndex(c) ==
    /\ pc[c] = "unindex_check" /\ Ready(c)
    /\ IF handle_to_pubkey[HandleOf[loc[c].held]] = PubkeyOf[c]
       THEN Goto(c, "unindex", <<>>, loc[c])
       ELSE Goto(c, "clear", <<>>, NoLocals)
    /\ UNCHANGED <<registryVars, presenceVars, relayVars, netVars, dbVars,
                   gauges, news, budget>>

\* Fault: the entry of the key is removed again, with that of the handle.
RemoveIndexAndPeer(c) ==
    /\ pc[c] = "unindex" /\ Ready(c)
    /\ handle_to_pubkey' = [handle_to_pubkey EXCEPT ![HandleOf[loc[c].held]] = None]
    /\ by_pubkey' = [by_pubkey EXCEPT ![PubkeyOf[c]] = None]
    /\ Goto(c, "clear", <<>>, NoLocals)
    /\ UNCHANGED <<presenceVars, relayVars, netVars, dbVars, gauges, news, budget>>

\* registry.remove: the guard is dropped, then the index entry removed.
RemoveIndex(c) ==
    /\ pc[c] = "unindex" /\ Ready(c)
    /\ UnindexHandle(HandleOf[loc[c].held])
    /\ Goto(c, "clear", <<>>, NoLocals)
    /\ UNCHANGED <<presenceVars, relayVars, netVars, dbVars, gauges, news, budget>>

\* presence.clear_subscriber starts; drop_sessions_for runs once it returns.
ClearSubscriber(c) ==
    /\ pc[c] = "clear" /\ Ready(c)
    /\ BeginClear(c, PubkeyOf[c])
    /\ Goto(c, "drop", <<>>, Dropping(Sid, {}))
    /\ UNCHANGED <<registryVars, relayVars, netVars, dbVars, gauges, news, budget>>

\* relay.drop_sessions_for, collecting: the iterator locks one shard of the map
\* at a time, so other tasks add and remove sessions while it runs.
CollectSession(c) ==
    /\ pc[c] = "drop" /\ Ready(c)
    /\ \E i \in loc[c].unread :
         Goto(c, "drop", <<>>,
              Dropping(loc[c].unread \ {i},
                       loc[c].stale \cup ({i} \cap SessionsOf(PubkeyOf[c]))))
    /\ UNCHANGED <<registryVars, presenceVars, relayVars, netVars, dbVars,
                   gauges, news, budget>>

\* drop_sessions_for, removing what was collected.
RemoveSession(c) ==
    /\ pc[c] = "drop" /\ Ready(c) /\ loc[c].unread = {}
    /\ \E i \in loc[c].stale :
         /\ DropSession(i)
         /\ Goto(c, "drop", <<>>, Dropping({}, loc[c].stale \ {i}))
    /\ UNCHANGED <<registryVars, presenceVars, netVars, dbVars, gauges, news, budget>>

SessionsDropped(c) ==
    /\ pc[c] = "drop" /\ Ready(c) /\ loc[c].unread = {} /\ loc[c].stale = {}
    /\ Goto(c, "withdraw", <<>>, NoLocals)
    /\ UNCHANGED <<registryVars, presenceVars, relayVars, netVars, dbVars,
                   gauges, news, budget>>

\* drop(tx); writer.await
EndSession(c) ==
    /\ pc[c] = "drain" /\ Ready(c)
    /\ writer[c] = "done"
    /\ Goto(c, "closed", <<>>, NoLocals)
    /\ UNCHANGED <<registryVars, presenceVars, relayVars, netVars, dbVars,
                   gauges, news, budget>>

-----------------------------------------------------------------------------
\* A step of a presence call that the task of c is inside of.
PresenceCall(c) ==
    /\ PresenceStep(c)
    /\ UNCHANGED <<registryVars, relayVars, taskVars, netVars, dbVars, gauges,
                   news, budget>>

\* What the task of c does without waiting for its client.
TaskStep(c) ==
    \/ Send(c) \/ PresenceCall(c)
    \/ ClaimHandle(c) \/ InsertIndex(c) \/ InsertPeer(c)
    \/ Snapshot(c) \/ NotifyWatcher(c) \/ BroadcastDone(c)
    \/ ReadOnline(c) \/ OnlineSetDone(c)
    \/ InsertSession(c) \/ AcceptInitiator(c) \/ AcceptResponder(c)
    \/ ForwardFrame(c)
    \/ StreamEnd(c) \/ RemovePeer(c) \/ CheckIndex(c) \/ RemoveIndex(c)
    \/ ClearSubscriber(c) \/ CollectSession(c) \/ RemoveSession(c)
    \/ SessionsDropped(c) \/ EndSession(c)

\* What the client of c makes happen.
ClientStep(c) ==
    \/ Register(c) \/ RejectRegister(c) \/ ClientClose(c)
    \/ Answer(c) \/ LookupPeer(c) \/ LookupHandle(c) \/ Signal(c)
    \/ SubscribePresence(c) \/ UnsubscribePresence(c)
    \/ RequestRelay(c) \/ AcceptRelay(c) \/ RelayFrame(c)

\* Every connection there is in the model has come and gone.
Terminated == (\A c \in Conn : pc[c] = "closed") /\ UNCHANGED vars

Next ==
    \/ \E c \in Conn : TaskStep(c) \/ ClientStep(c) \/ Deliver(c) \/ WriterEnd(c)
    \/ Terminated

Spec == Init /\ [][Next]_vars

(***************************************************************************)
(* Fairness.  tokio runs a task that can make progress, so a session task  *)
(* and a writer task that can take a step take one; a client that reads    *)
(* its socket lets the writer deliver; a socket closed before its first    *)
(* frame ends the stream serve_socket waits on.  Nothing obliges a client  *)
(* to register, to send a message or to close.                             *)
(***************************************************************************)
BrokerFairness(c) ==
    /\ WF_vars(TaskStep(c))
    /\ WF_vars(WriterEnd(c))
    /\ WF_vars(socket[c] = "closed" /\ RejectRegister(c))

\* Every client reads what it is sent.
FairSpec ==
    Spec /\ \A c \in Conn : BrokerFairness(c) /\ WF_vars(Deliver(c))

-----------------------------------------------------------------------------
(***************************************************************************)
(* Properties.                                                             *)
(***************************************************************************)
\* The locals l hold what the code of task c at a label reads.
LocalsFit(c, label, l) ==
    /\ label \in {"claim", "index"} => HandleOf[c] # None
    /\ label \in {"open", "accept_init", "accept_resp", "forward"} =>
           l.sid \in Sid /\ l.target \in Peer
    /\ label \in {"open", "accept_resp"} => l.held \in Conn
    /\ label \in {"unindex_check", "unindex"} =>
           l.held \in Conn /\ HandleOf[l.held] # None

LocalsOK ==
    \A c \in Conn : /\ LocalsFit(c, pc[c], loc[c])
                    /\ claimed[c] => HandleOf[c] # None

\* Every variable has its type, the locals in use are set, and no channel
\* exceeds its capacity.
TypeOK ==
    /\ LocalsOK
    /\ RegistryTypeOK /\ PresenceTypeOK /\ RelayTypeOK
    /\ pc \in [Conn -> Labels]
    /\ out \in [Conn -> Seq(PendingSend)]
    /\ loc \in [Conn -> Locals]
    /\ chan \in [Conn -> Seq(Msg)]
    /\ \A c \in Conn : Len(chan[c]) <= ChanCap
    /\ writer \in [Conn -> {"running", "done"}]
    /\ socket \in [Conn -> {"open", "closed"}]
    /\ owner \in [Handle -> Peer \cup {None}]
    /\ claimed \in [Conn -> BOOLEAN]
    /\ connected_peers \in Int
    /\ presence_subscriptions \in Int
    /\ told \in [Conn -> SUBSET (Peer \X BOOLEAN)]
    /\ last \in [Conn -> [Peer -> BOOLEAN \cup {None}]]
    /\ overlapped \subseteq Conn
    /\ budget \in [Conn -> Nat]

(***************************************************************************)
(* A registry entry leads to a session that is still there: the connection *)
(* stored under a key signs with that key, has inserted itself and has not *)
(* yet run its own registry.remove.  Several connections of one key come   *)
(* and go in any order, each removing whatever entry it finds, and none of *)
(* them leaves the sender of an ended session behind for others to find.   *)
(***************************************************************************)
RegistryEntriesLive ==
    \A p \in Peer : IsOnline(p) => /\ PubkeyOf[by_pubkey[p]] = p
                                   /\ pc[by_pubkey[p]] \in Registered

(***************************************************************************)
(* The handle index never contradicts the handles table, whatever becomes  *)
(* of the connections that claimed: an index entry names the key that owns *)
(* the handle.                                                             *)
(***************************************************************************)
HandleIndexOwned ==
    \A h \in Handle : handle_to_pubkey[h] # None => handle_to_pubkey[h] = owner[h]

\* c has not reached the end of clear_subscriber.
MayWatch(c) ==
    \/ pc[c] \in Registered \cup Unregistering
    \/ pc[c] = "drop" /\ call[c] # Idle

(***************************************************************************)
(* Every watcher has a connection that has yet to complete its             *)
(* clear_subscriber: once the last connection of a key is gone, no peer's  *)
(* broadcast looks for that key any more.                                  *)
(***************************************************************************)
WatchersConnected ==
    \A t \in Peer : \A s \in WatchersOf(t) :
        \E c \in Conn : PubkeyOf[c] = s /\ MayWatch(c)

\* c has not begun drop_sessions_for, or has i ahead of it or collected.
WillDrop(c, i) ==
    \/ pc[c] \in Registered \cup Unregistering
    \/ pc[c] = "drop" /\ i \in loc[c].unread \cup loc[c].stale

(***************************************************************************)
(* A relay session never outlives its initiator: some connection of the    *)
(* initiator has yet to look for it in drop_sessions_for, or to remove it  *)
(* after collecting it.  No order of request, accept and disconnect        *)
(* leaves a session in the map that nobody will ever remove.               *)
(***************************************************************************)
RelaySessionsAttended ==
    \A i \in Sid : sessions[i] # None =>
        \E c \in Conn : /\ PubkeyOf[c] = sessions[i].initiator
                        /\ WillDrop(c, i)

\* Frame m may reach connection d: a consented session links its two ends.
Consented(m, d) ==
    \/ <<m.sid, m.peer, PubkeyOf[d]>> \in consents
    \/ <<m.sid, PubkeyOf[d], m.peer>> \in consents

(***************************************************************************)
(* Relay frames cross only between the two parties of a session whose      *)
(* responder accepted it.  forward drops the session's guard before it     *)
(* looks the recipient up and sends, so the session may be gone by then    *)
(* and the recipient's connection another one; the frame still goes to the *)
(* party the session named.                                                *)
(***************************************************************************)
RelayConsent ==
    /\ \A d \in Conn : \A n \in DOMAIN chan[d] :
           chan[d][n].kind = "data" => Consented(chan[d][n], d)
    /\ \A c \in Conn : \A n \in DOMAIN out[c] :
           out[c][n].msg.kind = "data" => Consented(out[c][n].msg, out[c][n].to)

\* No other connection has the key of c.
OnlyConnection(c) == \A d \in Conn : PubkeyOf[d] = PubkeyOf[c] => d = c

\* The two ends of a subscription whose state no task is about to change: c is
\* a watcher of t, and every session of t has handled its connect or its end.
Settled(c, t) ==
    /\ OnlyConnection(c)
    /\ pc[c] = "pump" /\ Ready(c) /\ writer[c] = "running"
    /\ by_pubkey[PubkeyOf[c]] = c
    /\ PubkeyOf[c] \in WatchersOf(t)
    /\ \A d \in Conn : PubkeyOf[d] = t =>
          pc[d] \in {"first", "claim", "index", "insert", "pump", "drain", "closed"}

(***************************************************************************)
(* A watcher with one connection is told every state its peer settles in:  *)
(* once a connect or a disconnect has been handled, an update with the new *)
(* state has been queued for the watcher since the registry changed, by    *)
(* the broadcast or by the snapshot that subscribing takes.  It holds      *)
(* because subscribe registers the watcher before it reads the registry,   *)
(* and a session changes the registry before it reads the watchers.        *)
(***************************************************************************)
WatcherTold ==
    \A c \in Conn, t \in Peer : Settled(c, t) => <<t, IsOnline(t)>> \in told[c]

(***************************************************************************)
(* The last thing a watcher is told about a settled peer is the truth.     *)
(***************************************************************************)
WatcherToldLast ==
    \A c \in Conn, t \in Peer : Settled(c, t) => last[c][t] = IsOnline(t)

(***************************************************************************)
(* A connected client is reachable: while a session is in its message pump *)
(* its key has a registry entry, so lookups, signals and relay requests    *)
(* for it do not fail with peer_offline.                                   *)
(***************************************************************************)
ConnectedPeersOnline ==
    \A c \in Conn : pc[c] = "pump" /\ socket[c] = "open" => IsOnline(PubkeyOf[c])

(***************************************************************************)
(* Only an overlap makes a connected client unreachable: a session that    *)
(* has registered finds its key in the registry until another connection   *)
(* of the key, registered at the same time, runs its registry.remove.      *)
(* Connections that were refused or had cleaned up before, however many,   *)
(* and connections of other keys never take the entry.                     *)
(***************************************************************************)
OnlineUnlessOverlapped ==
    \A c \in Conn :
        pc[c] \in Registered /\ c \notin overlapped => IsOnline(PubkeyOf[c])

(***************************************************************************)
(* A session whose client has closed its socket ends: its cleanup runs to  *)
(* completion and its writer is gone.                                      *)
(***************************************************************************)
SessionsEnd == \A c \in Conn : socket[c] = "closed" ~> pc[c] = "closed"
=============================================================================
