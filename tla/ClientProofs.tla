---------------------------- MODULE ClientProofs ----------------------------
(***************************************************************************)
(* The client library, for any number of requests, pings and sockets.      *)
(***************************************************************************)
EXTENDS BrokerClient, TLAPS

(***************************************************************************)
(* A request that was made has an id of its own; one that has not been     *)
(* sent is in no map and has no timer.                                     *)
(***************************************************************************)
Made(c) == c \in Requests /\ call[c] # "new"

RequestInv ==
    /\ \A c \in Requests : id[c] <= nextRequestId
    /\ \A c, d \in Requests : Made(c) /\ Made(d) /\ id[c] = id[d] => c = d
    /\ \A c \in Requests : call[c] \in {"new", "signing"} => c \notin pending
    /\ \A c \in Requests : frame[c] = "sent" => call[c] # "new"
    /\ TimerPerEntry /\ OwnReply

Used == {s \in Socket : sock[s] # "unused"}

\* A later connect.
Later(s) == \E t \in Used : t > s

(***************************************************************************)
(* Callbacks that can still reject belong to a socket that has had no      *)
(* event, and a promise that waits owns them unless it was overtaken.      *)
(***************************************************************************)
ConnectInv ==
    /\ \A s \in Socket, t \in Used : s < t => s \in Used
    /\ \A s \in Socket : opening[s] = "waiting" =>
           s \in Used /\ (rejector = s \/ Later(s))
    /\ rejector # Null =>
           resolver = rejector /\ sock[rejector] \in {"connecting", "aborted"}

ClientInv == ClientTypeOK /\ RequestInv /\ ConnectInv

\* A new client.
LEMMA InitClient == ClientInit => ClientInv
<1> SUFFICES ASSUME ClientInit PROVE ClientInv
  OBVIOUS
<1>1. ClientTypeOK
  BY DEF ClientInit, ClientTypeOK, Call
<1>2. RequestInv
  BY DEF ClientInit, RequestInv, Made, TimerPerEntry, OwnReply, Call
<1>3. ConnectInv
  BY DEF ClientInit, ConnectInv, Used, Later
<1> QED BY SMTT(30), <1>1, <1>2, <1>3 DEF ClientInv

\* What is not about the sockets leaves ConnectInv alone.
LEMMA SocketsKept == ConnectInv /\ UNCHANGED socketVars => ConnectInv'
  BY SMTT(30) DEF ConnectInv, Used, Later, socketVars

\* What is not about the calls leaves RequestInv alone.
LEMMA CallsKept == RequestInv /\ UNCHANGED <<callVars, frame>> => RequestInv'
  BY SMTT(30) DEF RequestInv, Made, TimerPerEntry, OwnReply, callVars

\* Settling keeps promises that are settled, and new ones new.
LEMMA SettleEffect ==
    ASSUME ClientTypeOK, NEW calls \in SUBSET Call, NEW how \in Settled,
           Settle(calls, how)
    PROVE  /\ call' \in [Call -> {"new", "signing", "waiting"} \cup Settled]
           /\ \A c \in Call : call'[c] \in {call[c], how}
           /\ \A c \in Call : c \notin calls => call'[c] = call[c]
  BY DEF Settle, ClientTypeOK

-----------------------------------------------------------------------------
\* connect.
LEMMA ConnectKeeps ==
    ASSUME ClientInv, NEW s \in Socket, Connect(s)
    PROVE  ClientInv'
<1>1. ClientTypeOK'
  BY DEF ClientInv, ClientTypeOK, Connect, callVars, wireVars
<1>2. RequestInv'
  BY CallsKept DEF ClientInv, Connect, wireVars
<1>3. Used' = Used \cup {s} /\ s \notin Used /\ \A t \in Used : t < s
  <2>1. sock' = [sock EXCEPT ![s] = "connecting"] /\ sock \in [Socket -> {"unused",
          "connecting", "aborted", "open", "closing", "failed", "closed"}]
    BY DEF Connect, ClientInv, ClientTypeOK
  <2>2. Used' = Used \cup {s}
    BY <2>1 DEF Used
  <2>3. s \notin Used /\ \A j \in Socket : j < s => j \in Used
    BY DEF Connect, IsNext, Used
  <2>4. ASSUME NEW t \in Used PROVE t < s
    <3>1. t \in Socket /\ t \in Nat /\ s \in Nat /\ t # s
      BY <2>3, ClientAssumption DEF Used
    <3>2. ~(s < t)
      BY <2>3 DEF ClientInv, ConnectInv
    <3> QED BY <3>1, <3>2
  <2> QED BY SMTT(30), <2>2, <2>3, <2>4
<1>4. ConnectInv'
  <2>1. \A u \in Socket, t \in Used' : u < t => u \in Used'
    BY <1>3, ClientAssumption DEF ClientInv, ConnectInv, Connect, IsNext, Used
  <2>2. ASSUME NEW u \in Socket, opening'[u] = "waiting"
        PROVE  u \in Used' /\ (rejector' = u \/ Later(u)')
    <3>1. CASE u = s
      BY <1>3, <3>1 DEF Connect
    <3>2. CASE u # s
      <4>1. u \in Used
        BY <2>2, <3>2 DEF Connect, ClientInv, ClientTypeOK, ConnectInv
      <4>2. s \in Used' /\ s > u
        BY SMTT(30), <1>3, <4>1, ClientAssumption
      <4> QED BY SMTT(30), <1>3, <4>1, <4>2 DEF Later
    <3> QED BY <3>1, <3>2
  <2>3. resolver' = rejector' /\ sock'[rejector'] = "connecting"
    BY DEF Connect, ClientInv, ClientTypeOK
  <2> QED BY SMTT(30), <2>1, <2>2, <2>3 DEF ConnectInv
<1> QED BY SMTT(30), <1>1, <1>2, <1>4 DEF ClientInv

\* A socket that was used moves on, and stays used.
LEMMA UsedKept ==
    ASSUME ClientInv, NEW s \in Socket, sock[s] # "unused", NEW state,
           state # "unused", sock' = [sock EXCEPT ![s] = state]
    PROVE  Used' = Used
  BY DEF Used, ClientInv, ClientTypeOK

\* The callbacks of one connect are used up: the promises that go on waiting
\* were waiting before, and are not the one that owned them.
LEMMA CallbackUsed ==
    ASSUME ClientInv, NEW owner, NEW how \in {"resolved", "rejected"},
           rejector \in {owner, Null},
           SettleConnect(owner, how), rejector' = Null, Used' = Used
    PROVE  ConnectInv'
<1>1. ASSUME NEW u \in Socket, opening'[u] = "waiting"
      PROVE  u \in Used' /\ Later(u)'
  <2>1. opening[u] = "waiting" /\ u # owner
    BY <1>1 DEF SettleConnect
  <2>2. u # Null
    BY ClientAssumption
  <2>3. u \in Used /\ Later(u)
    BY SMTT(30), <2>1, <2>2 DEF ClientInv, ConnectInv
  <2> QED BY <2>3 DEF Later
<1> QED BY <1>1 DEF ClientInv, ConnectInv

\* onopen.
LEMMA OnOpenKeeps ==
    ASSUME ClientInv, NEW s \in Socket, OnOpen(s)
    PROVE  ClientInv'
<1>1. ClientTypeOK'
  BY DEF ClientInv, ClientTypeOK, OnOpen, SettleConnect, callVars, wireVars
<1>2. RequestInv'
  BY CallsKept DEF ClientInv, OnOpen, wireVars
<1>3. Used' = Used
  BY ZenonT(30), UsedKept DEF OnOpen
<1>4. rejector \in {resolver, Null}
  BY DEF ClientInv, ConnectInv
<1>5. ConnectInv'
  BY <1>3, <1>4, CallbackUsed DEF OnOpen
<1> QED BY SMTT(30), <1>1, <1>2, <1>5 DEF ClientInv

\* onerror.
LEMMA OnErrorKeeps ==
    ASSUME ClientInv, NEW s \in Socket, OnError(s)
    PROVE  ClientInv'
<1>1. ClientTypeOK'
  BY DEF ClientInv, ClientTypeOK, OnError, SettleConnect, callVars, wireVars
<1>2. RequestInv'
  BY CallsKept DEF ClientInv, OnError, wireVars
<1>3. Used' = Used
  BY ZenonT(30), UsedKept DEF OnError
<1>4. ConnectInv'
  BY <1>3, CallbackUsed DEF OnError
<1> QED BY SMTT(30), <1>1, <1>2, <1>4 DEF ClientInv

\* A socket without the callbacks moves on; or one with them is aborted.
LEMMA SocketMoves ==
    ASSUME ClientInv, NEW s \in Socket, sock[s] # "unused", NEW state,
           state # "unused", sock' = [sock EXCEPT ![s] = state],
           rejector = s => state \in {"connecting", "aborted"},
           UNCHANGED <<opening, resolver, rejector>>
    PROVE  ConnectInv'
<1>1. Used' = Used
  BY ZenonT(30), UsedKept
<1>2. rejector # Null => sock'[rejector] \in {"connecting", "aborted"}
  BY DEF ClientInv, ClientTypeOK, ConnectInv
<1> QED BY <1>1, <1>2 DEF ClientInv, ConnectInv, Later

\* close.
LEMMA CloseKeeps ==
    ASSUME ClientInv, Close
    PROVE  ClientInv'
<1>1. RequestInv'
  BY CallsKept DEF ClientInv, Close, wireVars
<1>2. ws \in Socket
  BY DEF ClientInv, ClientTypeOK, Close
<1>3. PICK state \in {"unused", "connecting", "aborted", "open", "closing",
                      "failed", "closed"} :
        /\ sock' = [sock EXCEPT ![ws] = state]
        /\ sock[ws] = "connecting" => state = "aborted"
        /\ sock[ws] = "open" => state = "closing"
        /\ sock[ws] \notin {"connecting", "open"} => state = sock[ws]
  <2> DEFINE state == CASE sock[ws] = "connecting" -> "aborted"
                        [] sock[ws] = "open" -> "closing"
                        [] OTHER -> sock[ws]
  <2>1. sock' = [sock EXCEPT ![ws] = state]
    BY DEF Close
  <2>2. sock[ws] \in {"unused", "connecting", "aborted", "open", "closing",
                      "failed", "closed"}
    BY <1>2 DEF ClientInv, ClientTypeOK
  <2> QED BY ZenonT(30), <2>1, <2>2
<1>4. ClientTypeOK'
  BY <1>2, <1>3 DEF ClientInv, ClientTypeOK, Close, callVars, wireVars
<1>5. ConnectInv'
  <2>1. CASE sock[ws] = "unused"
    <3>1. sock' = sock
      BY <1>2, <1>3, <2>1 DEF ClientInv, ClientTypeOK
    <3> QED BY <3>1 DEF ClientInv, ConnectInv, Used, Later, Close
  <2>2. CASE sock[ws] # "unused"
    <3>1. rejector = ws => state \in {"connecting", "aborted"}
      BY <1>2, <1>3, ClientAssumption DEF ClientInv, ConnectInv
    <3>2. state # "unused"
      BY <1>3, <2>2
    <3> QED BY ZenonT(30), <1>2, <1>3, <2>2, <3>1, <3>2, SocketMoves DEF Close
  <2> QED BY <2>1, <2>2
<1> QED BY <1>1, <1>4, <1>5 DEF ClientInv

\* A step that moves promises along, answers nothing and leaves the ids alone.
LEMMA CallsMove ==
    ASSUME ClientInv, UNCHANGED <<id, nextRequestId, by>>,
           \A d \in Requests :
               /\ call'[d] = "new" <=> call[d] = "new"
               /\ call'[d] \in {"resolved", "refused"} => call'[d] = call[d]
               /\ frame'[d] = "sent" => frame[d] = "sent" \/ call[d] # "new"
               /\ call'[d] \in {"new", "signing"} =>
                      call'[d] = call[d] /\ (d \in pending' => d \in pending),
           timers' = pending'
    PROVE  RequestInv'
<1>1. TimerPerEntry' /\ OwnReply'
  BY ZenonT(30) DEF ClientInv, RequestInv, TimerPerEntry, OwnReply
<1> QED BY <1>1 DEF ClientInv, RequestInv, Made

\* onclose.
LEMMA OnCloseKeeps ==
    ASSUME ClientInv, NEW s \in Socket, OnClose(s)
    PROVE  ClientInv'
<1>1. /\ pending' = {} /\ timers' = timers \ pending /\ Settle(pending, "closed")
      /\ pending \in SUBSET Call /\ "closed" \in Settled
  BY SMTT(30) DEF OnClose, RejectPending, ClientInv, ClientTypeOK, Call, Settled
<1>2. /\ call' \in [Call -> {"new", "signing", "waiting"} \cup Settled]
      /\ \A c \in Call : call'[c] \in {call[c], "closed"}
      /\ \A c \in Call : c \notin pending => call'[c] = call[c]
  BY ZenonT(30), <1>1, SettleEffect DEF ClientInv
<1>3. frame' = [c \in Call |-> IF via[c] = s THEN "gone" ELSE frame[c]]
  BY SMTT(30) DEF OnClose
<1>4. ClientTypeOK'
  BY SMTT(30), <1>1, <1>2, <1>3 DEF OnClose, ClientInv, ClientTypeOK
<1>5. timers' = pending'
  BY ZenonT(30), <1>1 DEF ClientInv, RequestInv, TimerPerEntry
<1>6. \A c \in Requests : /\ call'[c] \in {call[c], "closed"}
                          /\ call[c] = "new" => call'[c] = "new"
                          /\ frame'[c] = "sent" => frame[c] = "sent"
  BY SMTT(30), <1>2, <1>3 DEF Call, ClientInv, RequestInv
<1>7. UNCHANGED <<id, nextRequestId, by>>
  BY SMTT(30) DEF OnClose
<1>8. RequestInv'
  BY SMTT(30), <1>1, <1>5, <1>6, <1>7, CallsMove
<1>9. ConnectInv'
  <2>1. rejector # s
    BY ClientAssumption DEF OnClose, ClientInv, ConnectInv
  <2> QED BY ZenonT(30), <2>1, SocketMoves DEF OnClose
<1> QED BY SMTT(30), <1>4, <1>8, <1>9 DEF ClientInv

-----------------------------------------------------------------------------
\* A request method.
LEMMA RequestKeeps ==
    ASSUME ClientInv, NEW c \in Call, Request(c)
    PROVE  ClientInv'
<1>1. c \in Requests /\ call[c] = "new"
  BY DEF Request, IsNext
<1>2. /\ call' = [call EXCEPT ![c] = IF IsOpen THEN "signing" ELSE "failed"]
      /\ id' = [id EXCEPT ![c] = nextRequestId + 1]
      /\ nextRequestId' = nextRequestId + 1
      /\ UNCHANGED <<socketVars, pending, timers, pongListeners, by, wireVars>>
  BY DEF Request, MintRequestId
<1>3. ClientTypeOK'
  <2>1. ClientTypeOK
    BY DEF ClientInv
  <2>2. call' \in [Call -> {"new", "signing", "waiting"} \cup Settled]
    BY SMTT(30), <1>2, <2>1 DEF ClientTypeOK, Settled
  <2>3. id' \in [Call -> Nat] /\ nextRequestId' \in Nat
    BY SMTT(30), <1>2, <2>1 DEF ClientTypeOK
  <2> QED BY ZenonT(30), <1>2, <2>1, <2>2, <2>3 DEF ClientTypeOK, socketVars, wireVars
<1>4. /\ call'[c] \in {"signing", "failed"} /\ id'[c] = nextRequestId + 1
      /\ \A d \in Call \ {c} : call'[d] = call[d] /\ id'[d] = id[d]
  BY SMTT(30), <1>2 DEF ClientInv, ClientTypeOK
<1>5. RequestInv'
  <2> DEFINE n == nextRequestId
  <2>a. n \in Nat /\ \A d \in Requests : id[d] \in Nat
    BY SMTT(30) DEF ClientInv, ClientTypeOK, Call
  <2>b. \A d \in Requests : id[d] <= n
    BY ZenonT(30) DEF ClientInv, RequestInv
  <2>c. \A d \in Requests : id[d] <= n + 1 /\ id[d] # n + 1
    <3>1. \A k, m \in Nat : k <= m => k <= m + 1 /\ k # m + 1
      BY SMTT(30)
    <3> QED BY ZenonT(30), <2>a, <2>b, <3>1
  <2>d. id'[c] = n + 1 /\ \A d \in Requests \ {c} : id'[d] = id[d]
    BY ZenonT(30), <1>4 DEF Call
  <2>1. \A d \in Requests : id'[d] <= nextRequestId'
    <3>1. n + 1 <= n + 1
      BY SMTT(30), <2>a
    <3> QED BY ZenonT(30), <1>2, <2>c, <2>d, <3>1
  <2>2. \A d, e \in Requests : Made(d)' /\ Made(e)' /\ id'[d] = id'[e] => d = e
    <3>1. \A d \in Requests \ {c} : id'[d] = id[d] /\ id'[d] # id'[c]
      BY ZenonT(30), <2>c, <2>d
    <3>2. \A d \in Requests \ {c} : Made(d)' <=> Made(d)
      BY ZenonT(30), <1>4 DEF Made, Call
    <3>3. \A d, e \in Requests : Made(d) /\ Made(e) /\ id[d] = id[e] => d = e
      BY ZenonT(30) DEF ClientInv, RequestInv
    <3> QED BY ZenonT(30), <1>1, <3>1, <3>2, <3>3
  <2>3. \A d \in Requests : /\ call'[d] \in {"new", "signing"} => d \notin pending'
                            /\ frame'[d] = "sent" => call'[d] # "new"
    BY SMTT(30), <1>1, <1>2, <1>4 DEF ClientInv, RequestInv, Call, wireVars
  <2>4. TimerPerEntry' /\ OwnReply'
    BY <1>2, <1>4 DEF ClientInv, RequestInv, TimerPerEntry, OwnReply, Call
  <2> QED BY <2>1, <2>2, <2>3, <2>4 DEF RequestInv, Made
<1>6. ConnectInv'
  BY SMTT(30), <1>2, SocketsKept DEF ClientInv
<1> QED BY <1>3, <1>5, <1>6 DEF ClientInv

\* The map without the entry under the id of c is the map without c.
LEMMA EntryOf ==
    ASSUME ClientInv, NEW c \in Requests, Made(c)
    PROVE  {p \in pending : id[p] # id[c]} = pending \ {c}
<1>1. \A p \in pending : p \in Requests /\ Made(p)
  BY DEF ClientInv, ClientTypeOK, RequestInv, Made
<1> QED BY SMTT(30), <1>1 DEF ClientInv, RequestInv

\* sendAndAwait after the signature.
LEMMA SendRequestKeeps ==
    ASSUME ClientInv, NEW c \in Call, SendRequest(c)
    PROVE  ClientInv'
<1>1. c \in Requests /\ call[c] = "signing" /\ Made(c)
  BY DEF SendRequest, Made
<1>2. PICK how \in {"failed", "waiting"} : call' = [call EXCEPT ![c] = how]
  BY ZenonT(30) DEF SendRequest
<1>3. /\ pending' = pending \cup {c} /\ timers' = timers \cup {c}
      /\ UNCHANGED <<socketVars, id, nextRequestId, pongListeners, by>>
  BY <1>1, EntryOf DEF SendRequest
<1>4. PICK f \in {"sent", "none"}, v \in {ws, Null} :
        frame' = [frame EXCEPT ![c] = f] /\ via' = [via EXCEPT ![c] = v]
  BY ZenonT(30) DEF SendRequest, Transmit
<1>5. ClientTypeOK'
  BY <1>1, <1>2, <1>3, <1>4 DEF ClientInv, ClientTypeOK, socketVars, Settled
<1>6. timers' = pending'
  BY ZenonT(30), <1>3 DEF ClientInv, RequestInv, TimerPerEntry
<1>7. /\ call'[c] = how
      /\ \A d \in Call \ {c} : call'[d] = call[d] /\ frame'[d] = frame[d]
  BY SMTT(30), <1>2, <1>4 DEF ClientInv, ClientTypeOK
<1>8. RequestInv'
  BY <1>1, <1>3, <1>6, <1>7, CallsMove DEF Call
<1>9. ConnectInv'
  BY SMTT(30), <1>3, SocketsKept DEF ClientInv
<1> QED BY <1>5, <1>8, <1>9 DEF ClientInv

\* The timer of a request.
LEMMA TimeOutKeeps ==
    ASSUME ClientInv, NEW c \in Call, TimeOut(c)
    PROVE  ClientInv'
<1>1. c \in Requests /\ c \in pending /\ Made(c)
  BY DEF TimeOut, ClientInv, ClientTypeOK, RequestInv, TimerPerEntry, Made
<1>2. /\ pending' = pending \ {c} /\ timers' = timers \ {c}
      /\ Settle({c}, "timed_out")
      /\ UNCHANGED <<socketVars, id, nextRequestId, pongListeners, by, wireVars>>
  BY SMTT(30), <1>1, EntryOf DEF TimeOut
<1>3. /\ call' \in [Call -> {"new", "signing", "waiting"} \cup Settled]
      /\ \A d \in Call : call'[d] \in {call[d], "timed_out"}
      /\ \A d \in Call : d \notin {c} => call'[d] = call[d]
  BY SMTT(30), <1>2, SettleEffect DEF ClientInv, Settled
<1>4. ClientTypeOK'
  BY SMTT(30), <1>2, <1>3 DEF ClientInv, ClientTypeOK, socketVars, wireVars
<1>5. timers' = pending'
  BY ZenonT(30), <1>2 DEF ClientInv, RequestInv, TimerPerEntry
<1>6. RequestInv'
  BY <1>1, <1>2, <1>3, <1>5, CallsMove DEF Call, Made, wireVars
<1>7. ConnectInv'
  BY SMTT(30), <1>2, SocketsKept DEF ClientInv
<1> QED BY <1>4, <1>6, <1>7 DEF ClientInv

-----------------------------------------------------------------------------
\* A step of pings leaves the requests alone.
LEMMA PingsMove ==
    ASSUME ClientInv, ClientTypeOK',
           UNCHANGED <<socketVars, id, nextRequestId, pending, timers, by>>,
           \A d \in Requests : call'[d] = call[d] /\ frame'[d] = frame[d]
    PROVE  ClientInv'
<1>1. RequestInv'
  BY ZenonT(30), CallsMove DEF ClientInv, RequestInv, TimerPerEntry
<1> QED BY SMTT(30), <1>1, SocketsKept DEF ClientInv

\* A request is no ping.
LEMMA NoPing ==
    ASSUME NEW c \in Pings, NEW d \in Requests
    PROVE  d # c /\ d \in Call /\ c \in Call
  BY SMTT(30), ClientAssumption DEF Call

\* ping.
LEMMA PingKeeps ==
    ASSUME ClientInv, NEW c \in Call, Ping(c)
    PROVE  ClientInv'
<1>1. ClientTypeOK'
  BY SMTT(30) DEF Ping, ClientInv, ClientTypeOK, socketVars, wireVars, Settled
<1>2. \A d \in Requests : call'[d] = call[d] /\ frame'[d] = frame[d]
  BY SMTT(30), NoPing DEF Ping, ClientInv, ClientTypeOK, wireVars
<1> QED BY SMTT(30), <1>1, <1>2, PingsMove DEF Ping

\* signAndSend after the signature.
LEMMA SendPingKeeps ==
    ASSUME ClientInv, NEW c \in Call, SendPing(c)
    PROVE  ClientInv'
<1>1. /\ call' \in [Call -> {"new", "signing", "waiting"} \cup Settled]
      /\ \A d \in Call : d # c => call'[d] = call[d]
      /\ pongListeners' \subseteq Pings
  <2>1. CASE SendThrows
    <3>1. Settle({c}, "failed") /\ pongListeners' = pongListeners \ {c}
      BY ZenonT(30), <2>1 DEF SendPing
    <3>2. {c} \in SUBSET Call /\ "failed" \in Settled
      BY SMTT(30) DEF Settled
    <3>3. ClientTypeOK /\ pongListeners \subseteq Pings
      BY ZenonT(30) DEF ClientInv, ClientTypeOK
    <3>4. /\ call' \in [Call -> {"new", "signing", "waiting"} \cup Settled]
          /\ \A d \in Call : d \notin {c} => call'[d] = call[d]
      BY ZenonT(30), <3>1, <3>2, <3>3, SettleEffect
    <3> QED BY ZenonT(30), <3>1, <3>3, <3>4
  <2>2. CASE ~SendThrows
    BY <2>2 DEF SendPing, ClientInv, ClientTypeOK
  <2> QED BY <2>1, <2>2
<1>2. PICK f \in {"sent", "gone"}, v \in {ws, Null} :
        frame' = [frame EXCEPT ![c] = f] /\ via' = [via EXCEPT ![c] = v]
  BY ZenonT(30) DEF SendPing
<1>3. ClientTypeOK'
  <2>1. /\ frame' \in [Call -> {"none", "sent", "gone"}]
        /\ via' \in [Call -> Socket \cup {Null}]
    BY <1>2 DEF ClientInv, ClientTypeOK
  <2>2. UNCHANGED <<socketVars, id, nextRequestId, pending, timers, by>>
    BY DEF SendPing
  <2> QED BY <1>1, <2>1, <2>2 DEF ClientInv, ClientTypeOK, socketVars
<1>4. c \in Pings
  BY SMTT(30) DEF SendPing
<1>5. \A d \in Requests : call'[d] = call[d] /\ frame'[d] = frame[d]
  BY SMTT(30), <1>1, <1>2, <1>4, NoPing DEF ClientInv, ClientTypeOK
<1> QED BY <1>3, <1>5, PingsMove DEF SendPing

\* The timer of a ping.
LEMMA PingTimeOutKeeps ==
    ASSUME ClientInv, NEW c \in Call, PingTimeOut(c)
    PROVE  ClientInv'
<1>1. c \in Pings /\ Settle({c}, "timed_out")
  BY DEF PingTimeOut, ClientInv, ClientTypeOK
<1>2. /\ call' \in [Call -> {"new", "signing", "waiting"} \cup Settled]
      /\ \A d \in Call : d \notin {c} => call'[d] = call[d]
  BY SMTT(30), <1>1, SettleEffect DEF ClientInv, Settled
<1>3. ClientTypeOK'
  BY SMTT(30), <1>2 DEF PingTimeOut, ClientInv, ClientTypeOK, socketVars, wireVars
<1>4. \A d \in Requests : call'[d] = call[d] /\ frame'[d] = frame[d]
  BY SMTT(30), <1>1, <1>2, NoPing DEF PingTimeOut, wireVars
<1> QED BY ZenonT(30), <1>3, <1>4, PingsMove DEF PingTimeOut

-----------------------------------------------------------------------------
\* A reply's request was made, and its id selects it or nothing.
LEMMA AwaitingOwn ==
    ASSUME ClientInv, NEW c \in Requests, frame[c] = "sent"
    PROVE  Awaiting(c) \subseteq {c}
<1>1. Made(c)
  BY DEF ClientInv, RequestInv, Made
<1>2. \A p \in pending : p \in Requests /\ Made(p)
  BY DEF ClientInv, ClientTypeOK, RequestInv, Made
<1> QED BY SMTT(30), <1>1, <1>2 DEF ClientInv, RequestInv, Awaiting

\* handleIncoming, for a pong.
LEMMA PongKeeps ==
    ASSUME ClientInv, NEW c \in Pings, OnMessage(c)
    PROVE  ClientInv'
<1>0. c \in Call
  BY SMTT(30) DEF Call
<1>1. Settle(pongListeners, "resolved")
  BY SMTT(30) DEF OnMessage
<1>2. /\ pongListeners' = {} /\ UNCHANGED <<pending, timers>>
      /\ frame' = [frame EXCEPT ![c] = "gone"]
      /\ UNCHANGED <<socketVars, id, nextRequestId, via>>
  BY SMTT(30) DEF OnMessage
<1>3. by' = [p \in Call |-> IF p \in pongListeners /\ call[p] \notin Settled
                            THEN c ELSE by[p]]
  BY DEF OnMessage
<1>4. pongListeners \in SUBSET Call /\ "resolved" \in Settled
  BY DEF ClientInv, ClientTypeOK, Call, Settled
<1>5. /\ call' \in [Call -> {"new", "signing", "waiting"} \cup Settled]
      /\ \A d \in Call : d \notin pongListeners => call'[d] = call[d]
  BY SMTT(30), <1>1, <1>4, SettleEffect DEF ClientInv
<1>6. ClientTypeOK'
  BY ZenonT(30), <1>0, <1>2, <1>3, <1>5 DEF ClientInv, ClientTypeOK, socketVars
<1>7. \A d \in Requests : d \in Call /\ d \notin pongListeners /\ d # c
  BY NoPing DEF ClientInv, ClientTypeOK
<1>8. \A d \in Requests : /\ call'[d] = call[d] /\ frame'[d] = frame[d]
                          /\ by'[d] = by[d]
  BY <1>2, <1>3, <1>5, <1>7 DEF ClientInv, ClientTypeOK
<1>9. RequestInv'
  BY <1>2, <1>8 DEF ClientInv, RequestInv, Made, TimerPerEntry, OwnReply
<1> QED BY <1>2, <1>6, <1>9, SocketsKept DEF ClientInv

\* handleIncoming, for the reply to a request.
LEMMA ReplyKeeps ==
    ASSUME ClientInv, NEW c \in Requests, OnMessage(c)
    PROVE  ClientInv'
<1>0. c \in Call /\ c \notin Pings
  BY SMTT(30), ClientAssumption DEF Call
<1>1. PICK how \in {"resolved", "refused"} : Settle(Awaiting(c), how)
  BY SMTT(30), <1>0 DEF OnMessage
<1>2. /\ pending' = pending \ Awaiting(c) /\ timers' = timers \ Awaiting(c)
      /\ frame' = [frame EXCEPT ![c] = "gone"] /\ frame[c] = "sent"
      /\ UNCHANGED <<socketVars, id, nextRequestId, via, pongListeners>>
  BY SMTT(30), <1>0 DEF OnMessage, ClearTimer
<1>3. by' = [p \in Call |-> IF p \in Awaiting(c) /\ call[p] \notin Settled
                            THEN c ELSE by[p]]
  BY <1>0 DEF OnMessage
<1>4. /\ Awaiting(c) \subseteq {c} /\ Awaiting(c) \subseteq pending
      /\ Awaiting(c) \in SUBSET Call /\ how \in Settled
  BY SMTT(30), <1>0, <1>2, AwaitingOwn DEF Awaiting, Settled
<1>5. /\ call' \in [Call -> {"new", "signing", "waiting"} \cup Settled]
      /\ \A d \in Call : call'[d] \in {call[d], how}
      /\ \A d \in Call : d \notin Awaiting(c) => call'[d] = call[d]
  BY SMTT(30), <1>1, <1>4, SettleEffect DEF ClientInv
<1>6. ClientTypeOK'
  BY ZenonT(30), <1>0, <1>2, <1>3, <1>5 DEF ClientInv, ClientTypeOK, socketVars
<1>7. OwnReply'
  <2> SUFFICES ASSUME NEW d \in Requests, call'[d] \in {"resolved", "refused"}
               PROVE  by'[d] = d
    BY ZenonT(30) DEF OwnReply
  <2>1. d \in Call
    BY SMTT(30) DEF Call
  <2>2. CASE d \in Awaiting(c) /\ call[d] \notin Settled
    BY ZenonT(30), <1>3, <1>4, <2>1, <2>2
  <2>3. CASE d \in Awaiting(c) /\ call[d] \in Settled
    <3>1. call'[d] = call[d] /\ by'[d] = by[d]
      BY SMTT(30), <1>1, <1>3, <2>1, <2>3 DEF Settle
    <3> QED BY SMTT(30), <3>1 DEF ClientInv, RequestInv, OwnReply
  <2>4. CASE d \notin Awaiting(c)
    <3>1. call'[d] = call[d] /\ by'[d] = by[d]
      BY SMTT(30), <1>3, <1>5, <2>1, <2>4
    <3> QED BY SMTT(30), <3>1 DEF ClientInv, RequestInv, OwnReply
  <2> QED BY <2>2, <2>3, <2>4
<1>8. \A d \in Requests : /\ call'[d] = "new" <=> call[d] = "new"
                          /\ call'[d] \in {"new", "signing"} => call'[d] = call[d]
                          /\ frame'[d] = "sent" => frame[d] = "sent"
  BY SMTT(30), <1>2, <1>4, <1>5 DEF ClientInv, ClientTypeOK, RequestInv, Call
<1>9. RequestInv'
  BY SMTT(30), <1>2, <1>7, <1>8 DEF ClientInv, RequestInv, Made, TimerPerEntry
<1> QED BY <1>2, <1>6, <1>9, SocketsKept DEF ClientInv

\* Every step of the client keeps the invariant.
LEMMA StepClient ==
    ASSUME ClientInv, [ClientNext]_clientVars
    PROVE  ClientInv'
<1>1. CASE UNCHANGED clientVars
  BY <1>1, SocketsKept, CallsKept
     DEF clientVars, socketVars, callVars, wireVars, ClientInv, ClientTypeOK
<1>2. CASE Close
  BY <1>2, CloseKeeps
<1>3. ASSUME NEW s \in Socket, Connect(s) \/ OnOpen(s) \/ OnError(s) \/ OnClose(s)
      PROVE  ClientInv'
  BY <1>3, ConnectKeeps, OnOpenKeeps, OnErrorKeeps, OnCloseKeeps
<1>4. ASSUME NEW c \in Call, Request(c) \/ SendRequest(c) \/ TimeOut(c)
      PROVE  ClientInv'
  BY <1>4, RequestKeeps, SendRequestKeeps, TimeOutKeeps
<1>5. ASSUME NEW c \in Call, Ping(c) \/ SendPing(c) \/ PingTimeOut(c)
      PROVE  ClientInv'
  BY <1>5, PingKeeps, SendPingKeeps, PingTimeOutKeeps
<1>6. ASSUME NEW c \in Call, OnMessage(c)
      PROVE  ClientInv'
  BY <1>6, PongKeeps, ReplyKeeps DEF Call
<1>7. CASE Finished
  BY <1>1, <1>7 DEF Finished
<1> QED BY SMTT(30), <1>1, <1>2, <1>3, <1>4, <1>5, <1>6, <1>7 DEF ClientNext

LEMMA ClientInvariant == ClientSpec => []ClientInv
  BY InitClient, StepClient, PTL DEF ClientSpec

\* What the client keeps in memory stays well typed.
THEOREM ClientTypeCorrect == ClientSpec => []ClientTypeOK
<1>1. ClientInv => ClientTypeOK
  BY DEF ClientInv
<1> QED BY <1>1, ClientInvariant, PTL

(***************************************************************************)
(* A request only ever settles with the reply to itself, for any number of *)
(* sockets, requests and pings: the counter of mintRequestId keeps the ids *)
(* of two requests apart, so handleIncoming finds the asker or nobody.     *)
(***************************************************************************)
THEOREM OwnReplies == ClientSpec => []OwnReply
<1>1. ClientInv => OwnReply
  BY SMTT(30) DEF ClientInv, RequestInv
<1> QED BY <1>1, ClientInvariant, PTL

\* sendAndAwait, its timer, handleIncoming and onclose keep the timers and the
\* pending map together.
THEOREM TimersMatch == ClientSpec => []TimerPerEntry
<1>1. ClientInv => TimerPerEntry
  BY SMTT(30) DEF ClientInv, RequestInv
<1> QED BY <1>1, ClientInvariant, PTL

\* connect's promise is left waiting past the socket's first event only when a
\* later connect has taken its callbacks.
THEOREM ConnectsSettle == ClientSpec => []ConnectSettles
<1>1. ClientInv => ConnectSettles
  BY ClientAssumption DEF ClientInv, ConnectInv, ConnectSettles, Later, Used
<1> QED BY <1>1, ClientInvariant, PTL
=============================================================================
