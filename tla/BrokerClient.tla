---------------------------- MODULE BrokerClient ----------------------------
(***************************************************************************)
(* The TypeScript client, clients/typescript/src/client.ts: its sockets,   *)
(* the map of pending requests with their timers, and the pings that wait  *)
(* for a pong.  JavaScript runs one callback at a time, so an action is    *)
(* what runs between two awaits: a method of the client up to its first    *)
(* await, a continuation, a timer, or an event of a socket.                *)
(*                                                                         *)
(* A Call is one use of a request method; the Pings among them have no     *)
(* request id.  connect makes one Socket per call.  Calls and sockets are  *)
(* numbered in the order they are made.  The sockets themselves (the ws    *)
(* package or a browser's) and the broker at the other end are external:   *)
(* an error is followed by a close, a socket closed before it opened has   *)
(* an error first, a closing socket still delivers what it has received,   *)
(* and one that is not open drops what it is given, except that a socket   *)
(* which is still connecting throws.                                       *)
(***************************************************************************)
EXTENDS Naturals

CONSTANTS
    Requests, Pings,    \* numbers, of the requests and of the pings
    Socket,             \* numbers
    Null

ASSUME ClientAssumption ==
    /\ Requests \subseteq Nat /\ Pings \subseteq Nat /\ Requests \cap Pings = {}
    /\ Socket \subseteq Nat /\ Null \notin Nat

VARIABLES
    ws,                     \* this.ws
    sock,                   \* the state of each socket
    opening,                \* the promise that the connect of each socket returned
    resolver, rejector,     \* the connect whose callbacks are stored, or Null
    call,                   \* the promise of each call
    id, nextRequestId,      \* request ids, and the counter they come from
    pending, timers,        \* calls in the pending map, and with a timer running
    pongListeners,          \* pings that wait
    frame, via,             \* each call's message on the wire, and its socket
    by                      \* history: the call whose reply settled each call

clientVars == <<ws, sock, opening, resolver, rejector, call, id, nextRequestId,
                pending, timers, pongListeners, frame, via, by>>
socketVars == <<ws, sock, opening, resolver, rejector>>
callVars == <<call, id, nextRequestId, pending, timers, pongListeners, by>>
wireVars == <<frame, via>>

Call == Requests \cup Pings

\* i is the next of a numbered set to be used.
IsNext(i, used, numbers) == i \notin used /\ \A j \in numbers : j < i => j \in used

Settled == {"resolved", "refused", "timed_out", "closed", "failed"}

ClientInit ==
    /\ ws = Null
    /\ sock = [s \in Socket |-> "unused"]
    /\ opening = [s \in Socket |-> "none"]
    /\ resolver = Null /\ rejector = Null
    /\ call = [c \in Call |-> "new"]
    /\ id = [c \in Call |-> 0]
    /\ nextRequestId = 0
    /\ pending = {} /\ timers = {} /\ pongListeners = {}
    /\ frame = [c \in Call |-> "none"]
    /\ via = [c \in Call |-> Null]
    /\ by = [c \in Call |-> Null]

IsOpen == ws # Null /\ sock[ws] = "open"

\* Settling a promise again has no effect.
Settle(calls, how) ==
    call' = [c \in Call |-> IF c \in calls /\ call[c] \notin Settled
                            THEN how ELSE call[c]]

-----------------------------------------------------------------------------
\* connect: a new socket, whose promise takes over the stored callbacks.
Connect(s) ==
    /\ ~IsOpen
    /\ IsNext(s, {t \in Socket : sock[t] # "unused"}, Socket)
    /\ ws' = s
    /\ sock' = [sock EXCEPT ![s] = "connecting"]
    /\ opening' = [opening EXCEPT ![s] = "waiting"]
    /\ resolver' = s /\ rejector' = s
    /\ UNCHANGED <<callVars, wireVars>>

\* The promise of connect s, settled unless it is Null or settled already.
SettleConnect(s, how) ==
    opening' = [t \in Socket |-> IF t = s /\ opening[t] = "waiting"
                                 THEN how ELSE opening[t]]

\* onopen resolves whichever connect is stored.
OnOpen(s) ==
    /\ sock[s] = "connecting"
    /\ sock' = [sock EXCEPT ![s] = "open"]
    /\ SettleConnect(resolver, "resolved")
    /\ resolver' = Null /\ rejector' = Null
    /\ UNCHANGED <<ws, callVars, wireVars>>

\* Fault: an error is left to the close that follows it.
OnErrorSilent(s) ==
    /\ sock[s] \in {"connecting", "aborted", "open", "closing"}
    /\ sock' = [sock EXCEPT ![s] = "failed"]
    /\ UNCHANGED <<ws, opening, resolver, rejector, callVars, wireVars>>

\* onerror rejects whichever connect is stored.
OnError(s) ==
    /\ sock[s] \in {"connecting", "aborted", "open", "closing"}
    /\ sock' = [sock EXCEPT ![s] = "failed"]
    /\ SettleConnect(rejector, "rejected")
    /\ rejector' = Null
    /\ UNCHANGED <<ws, resolver, callVars, wireVars>>

\* Fault: the map is emptied and its promises are left alone.
RejectPendingForgets == pending' = {} /\ timers' = timers \ pending /\ UNCHANGED call

\* onclose: every request in the map is rejected, and its timer cleared.
RejectPending == pending' = {} /\ timers' = timers \ pending /\ Settle(pending, "closed")

OnClose(s) ==
    /\ sock[s] \in {"open", "closing", "failed"}
    /\ sock' = [sock EXCEPT ![s] = "closed"]
    /\ RejectPending
    /\ frame' = [c \in Call |-> IF via[c] = s THEN "gone" ELSE frame[c]]
    /\ UNCHANGED <<ws, opening, resolver, rejector, id, nextRequestId,
                   pongListeners, by, via>>

\* close: the socket's callbacks stay in place.
Close ==
    /\ ws # Null
    /\ sock' = [sock EXCEPT ![ws] = CASE @ = "connecting" -> "aborted"
                                      [] @ = "open" -> "closing"
                                      [] OTHER -> @]
    /\ ws' = Null
    /\ UNCHANGED <<opening, resolver, rejector, callVars, wireVars>>

-----------------------------------------------------------------------------
\* mintRequestId; the clock in front of the counter adds nothing to it.
MintRequestId(c) ==
    /\ nextRequestId' = nextRequestId + 1
    /\ id' = [id EXCEPT ![c] = nextRequestId + 1]

\* A request method, and sendAndAwait up to await signMessage.
Request(c) ==
    /\ c \in Requests /\ IsNext(c, {r \in Requests : call[r] # "new"}, Requests)
    /\ MintRequestId(c)
    /\ call' = [call EXCEPT ![c] = IF IsOpen THEN "signing" ELSE "failed"]
    /\ UNCHANGED <<socketVars, pending, timers, pongListeners, by, wireVars>>

\* this.ws.send, on the socket there is by now.
SendThrows == ws = Null \/ sock[ws] = "connecting"

Transmit(c) ==
    /\ frame' = [frame EXCEPT ![c] = IF IsOpen THEN "sent" ELSE "none"]
    /\ via' = [via EXCEPT ![c] = IF IsOpen THEN ws ELSE Null]

\* The executor after await signMessage.  A throw rejects the promise and
\* leaves the entry and its timer behind.
SendRequest(c) ==
    /\ c \in Requests /\ call[c] = "signing"
    /\ pending' = {p \in pending : id[p] # id[c]} \cup {c}
    /\ timers' = timers \cup {c}
    /\ call' = [call EXCEPT ![c] = IF SendThrows THEN "failed" ELSE "waiting"]
    /\ Transmit(c)
    /\ UNCHANGED <<socketVars, id, nextRequestId, pongListeners, by>>

\* The timer of a request.
TimeOut(c) ==
    /\ c \in timers
    /\ timers' = timers \ {c}
    /\ pending' = {p \in pending : id[p] # id[c]}
    /\ Settle({c}, "timed_out")
    /\ UNCHANGED <<socketVars, id, nextRequestId, pongListeners, by, wireVars>>

\* Fault: a ping goes through the pending map, like a request.
PingPending(c) ==
    /\ c \in Pings /\ IsNext(c, {p \in Pings : call[p] # "new"}, Pings)
    /\ call' = [call EXCEPT ![c] = IF IsOpen THEN "signing" ELSE "failed"]
    /\ pending' = IF IsOpen THEN pending \cup {c} ELSE pending
    /\ UNCHANGED <<socketVars, id, nextRequestId, timers, pongListeners, by,
                   wireVars>>

\* ping: the listener is in place before signAndSend looks at the socket.
Ping(c) ==
    /\ c \in Pings /\ IsNext(c, {p \in Pings : call[p] # "new"}, Pings)
    /\ call' = [call EXCEPT ![c] = IF IsOpen THEN "signing" ELSE "failed"]
    /\ pongListeners' = IF IsOpen THEN pongListeners \cup {c} ELSE pongListeners
    /\ UNCHANGED <<socketVars, id, nextRequestId, pending, timers, by, wireVars>>

\* signAndSend after await signMessage; the ping may be settled by now.
SendPing(c) ==
    /\ c \in Pings /\ frame[c] = "none" /\ call[c] \notin {"new", "failed"}
    /\ frame' = [frame EXCEPT ![c] = IF IsOpen THEN "sent" ELSE "gone"]
    /\ via' = [via EXCEPT ![c] = IF IsOpen THEN ws ELSE Null]
    /\ IF SendThrows
       THEN Settle({c}, "failed") /\ pongListeners' = pongListeners \ {c}
       ELSE /\ call' = [call EXCEPT ![c] = IF @ = "signing" THEN "waiting" ELSE @]
            /\ UNCHANGED pongListeners
    /\ UNCHANGED <<socketVars, id, nextRequestId, pending, timers, by>>

\* The timer of a ping, which is never cleared and looks for the listener.
PingTimeOut(c) ==
    /\ c \in pongListeners
    /\ pongListeners' = pongListeners \ {c}
    /\ Settle({c}, "timed_out")
    /\ UNCHANGED <<socketVars, id, nextRequestId, pending, timers, by, wireVars>>

-----------------------------------------------------------------------------
\* Fault: the timer of an answered request goes on running.
ClearTimerNot(found) == UNCHANGED timers

ClearTimer(found) == timers' = timers \ found

\* Fault: replies are taken to come in the order of the requests.
AwaitingOldest(c) == {p \in pending : \A q \in pending : id[p] <= id[q]}

\* The entry that the request id of the reply to c selects.
Awaiting(c) == {p \in pending : id[p] = id[c]}

\* handleIncoming, for the broker's reply to c: the result it was asked for or
\* an error, under its request id.  The pending request with that id, if any,
\* is taken out and settled; a pong resolves every ping that waits.
OnMessage(c) ==
    LET found == Awaiting(c)
        settled == IF c \in Pings THEN pongListeners ELSE found
    IN /\ frame[c] = "sent" /\ sock[via[c]] \in {"open", "closing"}
       /\ \E how \in {"resolved"} \cup (IF c \in Pings THEN {} ELSE {"refused"}) :
            Settle(settled, how)
       /\ by' = [p \in Call |-> IF p \in settled /\ call[p] \notin Settled
                                THEN c ELSE by[p]]
       /\ IF c \in Pings
          THEN pongListeners' = {} /\ UNCHANGED <<pending, timers>>
          ELSE /\ pending' = pending \ found
               /\ ClearTimer(found)
               /\ UNCHANGED pongListeners
       /\ frame' = [frame EXCEPT ![c] = "gone"]
       /\ UNCHANGED <<socketVars, id, nextRequestId, via>>

-----------------------------------------------------------------------------
\* The application has used what the model gives it and nothing is under way.
Finished ==
    /\ \A c \in Call : call[c] \in Settled
    /\ timers = {} /\ UNCHANGED clientVars

ClientNext ==
    \/ Close
    \/ \E s \in Socket : Connect(s) \/ OnOpen(s) \/ OnError(s) \/ OnClose(s)
    \/ \E c \in Call : \/ Request(c) \/ SendRequest(c) \/ TimeOut(c)
                       \/ Ping(c) \/ SendPing(c) \/ PingTimeOut(c)
                       \/ OnMessage(c)
    \/ Finished

(***************************************************************************)
(* Continuations and timers run: JavaScript's event loop does not starve   *)
(* them.  Nothing obliges a socket to open or a broker to answer.          *)
(***************************************************************************)
ClientSpec ==
    /\ ClientInit /\ [][ClientNext]_clientVars
    /\ \A c \in Call : /\ WF_clientVars(SendRequest(c)) /\ WF_clientVars(TimeOut(c))
                       /\ WF_clientVars(SendPing(c)) /\ WF_clientVars(PingTimeOut(c))

-----------------------------------------------------------------------------
\* Sockets, promises, the pending map and the wire are well typed.
ClientTypeOK ==
    /\ ws \in Socket \cup {Null}
    /\ sock \in [Socket -> {"unused", "connecting", "aborted", "open",
                         "closing", "failed", "closed"}]
    /\ opening \in [Socket -> {"none", "waiting", "resolved", "rejected"}]
    /\ resolver \in Socket \cup {Null} /\ rejector \in Socket \cup {Null}
    /\ call \in [Call -> {"new", "signing", "waiting"} \cup Settled]
    /\ id \in [Call -> Nat] /\ nextRequestId \in Nat
    /\ pending \subseteq Requests /\ timers \subseteq Requests
    /\ pongListeners \subseteq Pings
    /\ frame \in [Call -> {"none", "sent", "gone"}]
    /\ via \in [Call -> Socket \cup {Null}] /\ by \in [Call -> Call \cup {Null}]

(***************************************************************************)
(* A request settles with the broker's reply to that very request, late or *)
(* not, whatever timed out, was closed or was asked on another socket      *)
(* before.                                                                 *)
(***************************************************************************)
OwnReply ==
    \A c \in Requests : call[c] \in {"resolved", "refused"} => by[c] = c

(***************************************************************************)
(* connect settles with the first event of its socket, or of an older one, *)
(* unless a later connect has taken its callbacks: a promise that waits on *)
(* a socket past that event was overtaken.                                 *)
(***************************************************************************)
ConnectSettles ==
    \A s \in Socket :
        opening[s] = "waiting" /\ sock[s] \in {"open", "failed", "closed"}
            => \E t \in Socket : t > s /\ sock[t] # "unused"

(***************************************************************************)
(* A timer runs exactly for the requests in the pending map, also when the *)
(* send threw after the entry was made: no timer is left to fire for a     *)
(* settled request, and no entry is left that nothing will remove.         *)
(***************************************************************************)
TimerPerEntry == timers = pending

(***************************************************************************)
(* Every call settles: a request or a ping whose socket was closed, lost   *)
(* or replaced while it was being signed or while it waited included.      *)
(***************************************************************************)
CallsSettle ==
    \A c \in Call : call[c] # "new" ~> call[c] \in Settled
=============================================================================
