# A TLA+ development of the HashedNetworks broker

The broker (`src/src/*.rs`) is a Rust server on tokio's multi-threaded runtime.
Clients connect over WebSocket, register an Ed25519 key, find each other by key
or by handle, exchange signaling payloads, watch each other's presence and fall
back to a relay. This directory models the parts of it that are concurrent, timed
or fail halfway, and the TypeScript client at the other end of the wire. It checks
the models with TLC on small instances, and proves the most important properties
with TLAPS for every value of the constants.

## 1. Inventory

| Component | State | Operations | Interacts with |
|---|---|---|---|
| Session task, `serve_socket` (server.rs) | position in the code, locals, clone of its sender | register, message pump, one handler per message, cleanup | all below |
| Writer task and channel (server.rs:101-118) | `mpsc` channel of 64 messages | receive and write to the socket, end | every task that sends to the client |
| Peer registry (registry.rs) | `by_pubkey`, `handle_to_pubkey` (DashMaps) | insert, remove, get, is_online, online_set | every session |
| Presence manager (presence.rs) | `subscriptions`, `watchers` (DashMaps) | subscribe, unsubscribe, clear_subscriber, broadcast | registry, channels |
| Relay sessions (relay.rs) | `sessions` (DashMap) | request, accept, forward, drop_sessions_for | registry, channels, quota |
| Relay quota (relay.rs) | per key: token bucket, daily window, under a mutex | try_consume, and forward's frames charged to it | forward |
| Signaling limiter (signaling.rs) | per key: a governor limiter (DashMap) | limiter_for, check | relay_signal |
| Handle claims (handles.rs, db.rs, migrations) | tables `handles`, `peers` | claim, resolve | registration, lookup_handle |
| Teams (teams.rs, db.rs) | tables `teams`, `team_members` | announce, members | session task |
| Authentication (auth.rs, protocol.rs) | none | verify_signed_message, check_timestamp | session task |
| Metrics (metrics.rs) | counters and gauges | inc, dec, add, sub | session task |
| Reflection, errors, start-up (stun.rs, error.rs, main.rs) | none | formatting, set-up | |
| TypeScript client (clients/typescript) | sockets, stored connect callbacks, pending requests with timers, pings | connect, close, requests, ping, socket events, timeouts | the broker, over the wire |

What is hard in this code:

* **Interleaving.** An operation on one DashMap key is atomic; nothing larger is
  unless a guard is held. `insert`, `remove`, `unsubscribe`, `clear_subscriber`,
  `drop_sessions_for` and `limiter_for` are sequences of such operations.
* **Several connections of one key.** Registry entry, subscriptions, relay
  sessions, quota and limiter belong to the key, while each connection cleans up
  for itself.
* **Awaits.** A handler reads a map, then awaits room in another client's channel
  and goes on with what it read.
* **Termination.** A session awaits its writer, the writer waits for the last
  clone of the sender, and other sessions hold such clones while they send.
* **Transactions.** `claim_handle` runs at READ COMMITTED with checks made by
  SELECT; a statement may fail, and the answer of a commit may be lost.
  `announce` is four statements with no transaction at all, and checks a signature
  after the first.
* **Time.** The bucket is refilled lazily and the daily window reset lazily. A
  message is accepted if its timestamp is close to the clock, by a subtraction that
  may wrap, and no message is remembered.
* **Callbacks.** The client looks at its socket, awaits a signature and sends on
  whatever socket there is then; timers, late replies and the events of an old
  socket run in between.

What makes each component correct, as properties: the registry leads only to live
sessions (`RegistryEntriesLive`), leads to a connected client
(`ConnectedPeersOnline`, `OnlineUnlessOverlapped`) and agrees with the handles table
(`HandleIndexOwned`); the presence indexes agree and contain no ghost
(`IndexesAgree`, `NoGhostWatcher`, `WatchersConnected`); a watcher is told what
happens (`WatcherTold`, `WatcherToldLast`); relay frames need consent and sessions
do not outlive their initiator (`RelayConsent`,
`RelaySessionsAttended`); limits limit (`PeakRate`, `TwoDaysWorth`, `DeliveredRate`,
`RacedRate`); the timestamp window is what it says and bounds resending
(`WindowExact`, `ResendBound`); a claim is honoured (`ClaimHonoured`,
`PeersHandleOwned`, `OneHandlePerKey`, `TableSpec`); a team keeps its admin and its
members are vouched for (`AdminKept`, `MemberVouched`, `AdminSigned`,
`MembersRecorded`, `AnnounceHonoured`); a client's calls settle, with their own replies (`CallsSettle`,
`OwnReply`, `ConnectSettles`, `TimerPerEntry`); sessions end (`SessionsEnd`).

## 2. Modules

```
BrokerBase ──┬── PeerRegistry ────┐
             ├── PresenceManager ─┼── Broker ──┬── MCBroker
             └── RelayManager ────┘            └── BrokerProofs ──┬── BrokerSafety ── WatchProofs ──┬── BrokerTheorems
                                                                  └── RelayProofs ──────────────────┘
PresenceManager ── MCPresence
KeyClock ──┬── PeerQuota ── MCQuota
           └── SignalLimiter ── MCLimiter      (SignalLimiter also extends ReplayWindow)
BrokerClient ──┬── MCClient
               └── ClientProofs
EdgeProofs: theorems about PeerQuota and SignalLimiter
Database ──┬── HandleClaims ── MCHandleClaims  (HandleClaims implements HandleTable)
           └── Teams ── MCTeams
DatabaseProofs: theorems about HandleClaims and Teams
BrokerTheorems also uses HandleTable
```

A definition whose comment begins with `Fault:` is a mistake one could make in the
definition that follows it; substituted for it, it makes a property fail. Faults
are not used by any specification.

### Broker and its three parts

`Broker` composes the registry, the presence manager and the relay sessions with
the session and writer tasks. Correspondence with the code:

| Model | Code |
|---|---|
| `Conn` | a WebSocket connection, its session task, its writer task, its channel |
| `pc[c]` | where the task stands: `first` (server.rs:120), `claim` (180), `index`, `insert` (226), `announce`/`online` (239), `pump` (245), `online_set` (448), `open`, `accept_init`, `accept_resp`, `forward` (inside relay.rs), `remove`, `unindex_check`, `unindex` (249), `clear` (251), `drop` (252), `withdraw`/`offline` (253), `drain` (257), `closed` |
| `out[c]` | the sends the code of the task still has to make, in order |
| `loc[c]` | the locals a handler keeps across an await or between map operations |
| `call[c]`, `guard` | the presence call the task is inside of, and the `subscriptions` entry it has locked |
| `chan[c]`, `writer[c]`, `socket[c]` | the outbound channel, the writer task, the client's socket |
| `owner`, `claimed` | the handles table, `handle_claimed` |
| `told`, `last`, `consents`, `overlapped` | history variables, read by properties only: what clients were told, who accepted a relay session, which connections were registered when another session of their key ran `registry.remove` |

Granularity. One action is what a task does between two points at which another
task can interfere: a DashMap operation, or a channel send. `registry.insert` is
`InsertIndex` then `InsertPeer`; `registry.remove` is `RemovePeer`, `CheckIndex`,
`RemoveIndex`; `broadcast` is `Snapshot`, then per watcher `NotifyWatcher` and
`Send`; `drop_sessions_for` is one `CollectSession` per session and one
`RemoveSession` per collected id. Updates of gauges are part of the action next to
them in the code.

Abstractions, each of which keeps every behaviour of the code:

* Peer lists of a message are sets; a duplicate in a list repeats an idempotent
  map operation. (The gauge counts list entries, duplicates too; nothing reads it.)
* Iterations over a map or a set visit elements in any order.
* A message that fails to parse, to verify, or to pass a limit is a choice of the
  environment; so is a database error.
* The answers to `ping`, a second `register` and the team messages differ only in
  content and are the action `Answer`; what a team message does to the database is
  in `Teams`.
* `lookup_handle` reads the table and the registry in one step. Its answer goes to
  the asking client only and no property depends on it.
* A session that returns before registering passes through `drain`, waiting for
  its writer, also where the code returns without waiting. Nobody can observe it.
* A clone of a PeerHandle that a lookup holds while it asks the database, or
  `accept` during its second send, is not counted by `SenderAlive`. Such a clone
  only delays the end of a writer task, which the model may delay anyway.
* A handle claim is the atomic step that `HandleTable` describes; that
  `claim_handle` implements it is checked and proved (see HandleClaims), and so is
  proved that the broker's registrations implement it (`BrokerClaims`).
* Message fields are those that some handler or property tells apart.

### PeerQuota

One key's quota, and the frames that `forward` charges to it on the connections of
that key. A tick is the time in which one byte is refilled, so a second is
`BytesPerSecond` ticks, and tokens are exact where the code has an `f64`.
`try_consume` runs under a mutex and is one action, `Charge`; the frame is then in
flight until `HandOver` or `PeerOffline`. Both limits of a key use `KeyClock`: the
history variable `from` is an arbitrary tick, `accepted` and `relayed` count from
there, and so an invariant about them is one about every stretch of time.

### HandleClaims and HandleTable

`HandleClaims` is `handles::claim`: the upsert of the peers row, then the
statements of `claim_handle` one by one, for tasks that claim any handle for any
key as often as they like. Postgres is external and modelled by what the
migrations make it do: the primary key on `handles.handle` makes an INSERT wait
for an uncommitted row and fail on a committed one, the foreign key takes a
FOR KEY SHARE lock on the peers row, and the UPDATE of the unique column
`peers.handle` takes FOR UPDATE. Any statement may fail, and the answer of the
commit may be lost. `HandleTable` is the abstract specification: a table in which
a claim takes effect in one step and an owner never changes.

### Teams

`Teams` is `teams::announce`. `UpsertTeam` writes the `teams` row and then compares
the signature, `UpsertAnnouncer` writes the `peers` row, `AddTeamMember` the
`team_members` row; each statement commits on its own, may fail without effect
(`StatementError`) and may take effect and have its answer lost (the disjuncts that
end in `Fail(s, "error")`). A signature is the triple of the key that made it, the
team and the member; `Covers` is what `verify_detached` over `admin_signed_bytes`
accepts. Clients may use any signature over ids they have chosen or were told, by
any key; ids that the database draws are unknown until `announce` returns them.
`overruled` is history: the admins that announcements named for a team that had
another one. `teams.rs:19-24` strips the prefix `ed25519:` of the member's key before
it is signed, while the rows are keyed by the string as sent, so one key has several
spellings and may have several rows; the model takes a key and its spelling as one,
and no property turns on the difference.

### ReplayWindow and SignalLimiter

`ReplayWindow` is `check_timestamp` with two's-complement subtraction of width
`2 * Half`. `SignalLimiter` is the limiter of one key, shared by its connections,
for signals that pass this check: the lookup and the insert of `limiter_for` are
two actions. governor's limiter is external: `Burst` cells, one of which comes back
per tick. `stamp` is the timestamp of one signal that may arrive again and again;
`resent` counts how often it is let through.

### BrokerClient

`BrokerClient` is `client.ts`. An action is what JavaScript runs without giving up
control: a method up to its first await (`Connect`, `Close`, `Request`, `Ping`), a
continuation after `signMessage` (`SendRequest`, `SendPing`), a timer (`TimeOut`,
`PingTimeOut`) or an event of a socket (`OnOpen`, `OnError`, `OnClose`,
`OnMessage`).

| Model | Code |
|---|---|
| `ws`, `sock` | `this.ws`, and the readyState of every socket made so far |
| `opening`, `resolver`, `rejector` | the promises `connect` returned, `connectedResolver`, `connectedRejector` |
| `pending`, `timers` | the `pending` map and the timeouts its entries hold |
| `pongListeners` | the pings that wait for a pong |
| `call`, `id` | the promise of each call and its request id |
| `frame`, `via` | the request or its reply on the wire, and the socket that carries it |
| `by` | history: whose reply settled a call |

Calls and sockets are numbered in the order of their use. The sockets are external:
a socket may fail or close at any time, one that is still connecting throws on
`send`, one that is closing still delivers. A reply may come at any time while its
socket lives, before or after its timeout, or never. The application's listeners
are left out; they are called and keep nothing in the client.

## 3. Runs

| Run | Instance | Checks |
|---|---|---|
| MCReconnect | 2 connections of one key, a handle, database, 1 query, signal or presence message each, channel of 1 | `TypeOK`, `NoGhostWatcher`, `RegistryEntriesLive`, `WatchersConnected`, `OnlineUnlessOverlapped`, `HandleIndexOwned` |
| MCRelay | 2 keys, 1 session id, 2 relay or presence messages by one and 1 relay message by the other, channel of 1, fairness | `RelayConsent`, `RelaySessionsAttended`, `WatcherTold`, `SessionsEnd` |
| MCQuota | 2 connections, bucket 2, allowance 3, frames up to 2, day of 6 ticks, 10 ticks | `QuotaTypeOK`, `PeakRate`, `TwoDaysWorth`, `DeliveredRate` |
| MCLimiter | 2 connections, burst 1, drift 1, integers of 16 values, 6 ticks | `LimiterTypeOK`, `RacedRate`, `WindowExact`, `ResendBound` |
| MCClaims | 3 sessions, 2 keys, 2 handles | `ClaimTypeOK`, `ClaimHonoured`, `PeersHandleOwned`, `TableSpec` (refinement) |
| MCTeams | 2 sessions, 2 keys, 1 chosen and 1 drawn team id | `TeamTypeOK`, `MemberVouched`, `MembersRecorded`, `AnnounceHonoured`, `AdminKept` |
| MCClient | 2 requests, 1 ping, 2 sockets, fairness | `ClientTypeOK`, `OwnReply`, `ConnectSettles`, `TimerPerEntry`, `CallsSettle` |

Five runs show a disagreement between the code and what the repository says of it
(the quotations are in `PROJECT.json`):

| Run | Property | What happens |
|---|---|---|
| MCPresenceRace | `IndexesAgree` | an emptied watcher set is removed after another task has put a watcher into it: that subscriber hears nothing |
| MCOnline | `ConnectedPeersOnline` | the old session of a reconnected key removes the new connection's registry entry |
| MCStale | `WatcherToldLast` | the initial update, made from an older state, is queued after the broadcast |
| MCClaimsRace | `OneHandlePerKey` | two concurrent claims of one key both commit |
| MCTeamsAdmin | `AdminSigned` | an announcement for an existing team names another admin and carries that key's signature: the broker verifies it under the named key and stores the member, while the `teams` row keeps its admin |

Two of them have a counterpart that holds. `OnlineUnlessOverlapped` (MCReconnect)
says when `ConnectedPeersOnline` fails: only for a connection that was registered
while another session of its key ran `registry.remove`. `MemberVouched` (MCTeams)
says what a member's row is worth although `AdminSigned` fails: the signature covers
that team and that key, and was made by the team's admin or by a key that an
announcement named in the admin's place.

Read off the code while modelling, and not given a run of their own: the daily
window is fixed and reset lazily, where relay.rs:15 says "rolling 24 h" (what it is
worth is `TwoDaysWorth`); two connections of a key may get a limiter each, where
signaling.rs:18 says "Per-peer" (what it is worth is `RacedRate`); a relay session
may be inserted after its responder has cleaned up, and stays until the initiator
ends; the gauge `presence_subscriptions` moves by list lengths and not on
disconnect, where metrics.rs:56 says "active presence watchers"; an announcement
without a team id cannot succeed, because the signature would have to cover the id
the database is about to draw; a refused announcement creates or renames the team;
a timestamp near the end of an i64 is refused with the other one of the two errors;
`close()` of the client clears no listeners, where client.ts:141 says it does, and
the close event of an old socket rejects the requests made on its successor.

What the properties leave open. `RelayConsent` does not forbid that `accept` answers
`PeerOffline` and leaves the session active, since its responder did accept.
`HandleIndexOwned` forbids a wrong entry of the index, not a missing one: a key that
registers again between the check and the removal of `registry.remove` loses its
entry. `ConnectSettles` exempts a connect that a later one has overtaken, which the
code leaves unsettled, and no client property calls a rejection undeserved.

Bounds. Each race listed in `PROJECT.json` is one of two tasks, and two tasks are
what the instances have. A channel of one or two messages is full as soon as a send
is pending, which is when the order of sends matters; 64 would need 64 messages to
get there. One session id suffices for the relay, since no operation relates two
sessions. `MaxRequests` bounds the messages of a client and `Requests` says
of each connection which kinds it sends; two are enough to subscribe and unsubscribe,
or to request and forward, and the responder needs one to accept. In MCReconnect both
connections have the same key, so a claim fails there because a statement of it
fails and not because another key owns the handle; `HandleIndexOwned` for several keys that want
one handle rests on its proof. MCReconnect and MCRelay are the large ones, with 1.5
million and 330 thousand distinct states. The quota's clock passes a reset of the window, and the bucket is
smaller than the allowance, as in the code. The limiter's integers are wide enough
for the clock and its window and narrow enough for differences to wrap; a cell
comes back every second (`Second = 1`) where the code has 0.6 seconds. Two sockets
are one reconnection, which is what an old socket's late events need; two requests
are what a reply to the wrong one needs. The broker's symmetries are not used: its
connections and keys are told apart by `PubkeyOf`; nor are the client's, whose calls
and sockets are ordered. MCQuota, MCLimiter, MCClaims, MCTeams and MCPresenceRace
use symmetry over sets whose elements nothing tells apart; none of them checks
liveness.

`Terminated` lets the broker model stop when all its connections have come and
gone, and `Finished` the client when its calls are settled. Deadlock is checked in
every run.

## 4. Fairness

`FairSpec` assumes weak fairness of each session task, of the end of each writer
task, of reading the end of a stream before the first frame, and of `Deliver`.
The first three are tokio's: a task that is ready is polled. The last says that
clients read what they are sent. The code sets no timeout on a write, so without
it a client that stops reading blocks the sessions that send to it; this is an
assumption on clients that `SessionsEnd` needs. Nothing obliges a client to
register, to send or to close.

`ClientSpec` assumes weak fairness of continuations and timers, which the event loop
runs. Nothing obliges a socket to open, to fail or to close, or a broker to answer:
`CallsSettle` rests on the timers alone.

## 5. Proofs

All theorems hold for every value of the constants that satisfies the named
assumptions: any sets of keys, connections, handles, session ids, teams, requests and
sockets, any assignment of keys to connections, any rates. Most of the assumptions
say that `None` is not one of the values (`NoneAssumption`, `HandleAssumption`,
`SidAssumption`, `SessionAssumption`, `ClockAssumption`, `DatabaseAssumption`,
`ClaimAssumption`, `TeamAssumption`). `ClockAssumption` also says that a key has
finitely many connections, which the bounds that count them need. `BrokerAssumption` says that the peer lists of
messages have a length (`Cardinality(peers) \in Nat`), `QuotaAssumption` and
`WindowAssumption` give the limits their types, `LimiterAssumption` keeps the clock
and its window below the end of an i64, which it reaches in the year 292 277 026 596,
and `ClientAssumption` says that requests, pings and sockets are numbers.

`BrokerProofs` has the theorems about the presence manager on its own, says what
the operators of `Broker` return and what moving one task changes, and proves the
types of the start, presence and answer actions.
`BrokerSafety` has the step lemmas about the registry, the handle index, the
watchers and the cleanup, `WatchProofs` those about what watchers are told, and
`RelayProofs` those about relay frames; `BrokerSafety` and `RelayProofs` also prove
the types of their own actions. `BrokerTheorems` combines them into the theorems
about `Spec`.

| Theorem | Says | Argument |
|---|---|---|
| `BrokerProofs!PresenceNoGhost` | `NoGhostWatcher` always | inductive with the type invariant: `clear_subscriber` takes the entry and puts its targets in `todo` in one step, and no other step takes a target off a subscriber without taking the subscriber off the target's watchers |
| `BrokerTheorems!TypeCorrect` | `TypeOK` always | inductive because it contains `LocalsOK`: the locals a label reads are set whenever a task is there |
| `BrokerTheorems!RegistryLive` | `RegistryEntriesLive` always | inductive with `TypeOK`: an entry is written by a connection for its own key on its way into `Registered`, which it leaves only by clearing that key's entry |
| `BrokerTheorems!RelayAttention` | `RelaySessionsAttended` always | inductive with `TypeOK`: `request` inserts while its own connection is `Registered`; a session the iterator has passed was collected or is not the initiator's |
| `BrokerTheorems!Consent` | `RelayConsent` always | strengthened by `ActiveConsented` (an active session was accepted), `ForwardingConsented` (a task about to forward saw such a session) and `RegistryEntriesLive` (the recipient's connection has the right key) |
| `BrokerTheorems!BrokerPresence` | `Spec => PresenceSpec` | every step of the broker is a presence step of one task or leaves the presence manager alone |
| `BrokerTheorems!BrokerNoGhost` | `NoGhostWatcher` always, in the broker | `PresenceNoGhost` through that refinement |
| `BrokerTheorems!WatchersStay` | `WatchersConnected` always | `WatchInv`: a presence call is made for the task's own key while it is registered or cleaning up (`CallsOwn`), and a key with subscriptions has a connection that will still clear them (`SubscribersHere`); with `NoGhostWatcher` the same holds of watchers |
| `BrokerTheorems!WatchersTold` | `WatcherTold` always | `ToldInv`, see below |
| `BrokerTheorems!BrokerClaims` | `Spec` implements `HandleTable`, with `Granted` for its answers | only `ClaimHandle` touches the table or `claimed`, and every disjunct of it is a grant, with or without its answer, or a stutter |
| `BrokerTheorems!IndexOwned` | `HandleIndexOwned` always | `IndexInv`: also, a task about to write the index owns the handle; an owner never changes, so the index may be written and removed in any order |
| `BrokerTheorems!OverlapsOnly` | `OnlineUnlessOverlapped` always, with any number of connections per key | `OnlineInv`: an entry is taken away only by a `registry.remove`, which records every other connection of the key that is registered then; a connection that registers later puts the entry back. It contains `SessionsOnline`, which says for a key with one connection that the entry is that connection |
| `EdgeProofs!QuotaTypeCorrect`, `QuotaPeak`, `QuotaDays` | `QuotaTypeOK`, `PeakRate`, `TwoDaysWorth` always | `BucketInv` counts what the bucket could still grant as spent; `WindowInv` says that less than a day before the current window at most one allowance was used |
| `EdgeProofs!QuotaDelivered` | `DeliveredRate` always | `DeliveryInv`: what was handed over and what is in flight is at most what was accepted and one frame per connection; the bytes in flight are the cardinality of a set (`OwedBy`), so that no sum is needed |
| `EdgeProofs!LimiterTypeCorrect` | `LimiterTypeOK` always | inductive as it stands |
| `EdgeProofs!LimiterRaced` | `RacedRate` always | `EntryInv` and `RaceInv`, see below |
| `EdgeProofs!ResendsBounded` | `ResendBound` always | `ResendInv`: `RaceInv` counted from the first tick of the timestamp window; after its last tick only the copies that were already verified remain, at most one per connection |
| `EdgeProofs!TimestampWindow` | `WindowExact` always | the clock is at least `MaxDrift` below the end of the integers and not negative, so a difference that wraps is negative and far below `-MaxDrift` |
| `ClientProofs!ClientTypeCorrect`, `OwnReplies`, `TimersMatch` | `ClientTypeOK`, `OwnReply`, `TimerPerEntry` always | `RequestInv`: ids are at most the counter and differ between requests that were made, so a reply's id selects its own request; a request enters the map once, after signing |
| `ClientProofs!ConnectsSettle` | `ConnectSettles` always | `ConnectInv`: sockets are used in order, a waiting connect is the one stored or a later one exists, and the stored one's socket has had no event |
| `DatabaseProofs!ClaimTypeCorrect`, `ClaimsHonoured`, `PeersHandlesOwned` | `ClaimTypeOK`, `ClaimHonoured`, `PeersHandleOwned` always | strengthened by `OneInserts` and `InsertsFree`: an uncommitted row's handle is nobody else's, committed or not |
| `DatabaseProofs!ClaimsRefineTable` | `ClaimSpec => TableSpec` | step simulation under the same invariant |
| `DatabaseProofs!TeamTypeCorrect`, `MembersVouched`, `MembersHaveRows`, `AnnouncesHonoured` | `TeamTypeOK`, `MemberVouched`, `MembersRecorded`, `AnnounceHonoured` always | `TeamInv`: an announcement past the check holds a signature that covers its team and key under an admin that is the team's or was named in vain (`NamedAdmin`), and past `upsert_peer` its key has a row; what was named stays named (`NamesKept`) |
| `DatabaseProofs!TeamAdminKept` | `TeamSpec => AdminKept` | the only statement that writes `teams` keeps the admin of an existing row |

What watchers are told. `WatcherTold` is about moments when no task has anything
left to say; to be inductive it must also hold of the moments in between. `ToldInv`
says of every connected watcher of `t`, the only connection of its key, that one of
four things is true of the present state of `t`: the watcher was told since it last
changed; its subscribe handler has yet to read the registry entry of `t`; the update
is among the sends of some task; or a task of `t` has yet to look the watcher up
(it has changed the registry and not yet taken the snapshot of its broadcast, or the
watcher is among those left to visit). Three facts carry it through the steps.
`UpdateInv`: a task with an update among its sends ignores failed sends, so none is
given up for another, and the update is about its own key or answers its own client.
`SubscribeInv`: subscribe adds watchers only of peers whose entry its handler reads
next. `SessionsOnline`: the broadcast's lookup of the watcher finds the watcher's
connection, which is why it must be the only one of its key. TLC checked the four as
invariants, on instances made for this purpose and not kept, with two connections of the
watched peer and with subscribers that unsubscribe and signal, before they were
proved.

What a race for the limiter is worth. An insert that replaces a stored limiter hands
out a fresh burst, and leaves one message to each connection that has looked the old
one up and not yet checked it. `RaceInv` counts the cells of the stored limiter and
these connections as already spent (`Promised`), and bounds the sum by the number of
connections that are not on their way to insert: the `n`-th of them to arrive there
adds a burst and at most `n - 1` checks of the limiter it replaces, and `Races(n)` is
twice what this adds up to. Once a limiter is stored nobody new sets out to insert
one, so the number only grows.

Only model-checked: `SessionsEnd` and `CallsSettle`, because liveness under fairness
is beyond the prover; and the five properties that fail.

## 6. Not modelled

Cryptography, key and signature parsing, canonical JSON, message serialisation,
address reflection, error texts, metrics other than the two gauges, HTTP routes,
process start and shutdown, and the smoke client are left out: they have no shared
state and no protocol of their own. `team_lookup`, `get_team` and `resolve` only
read. The client's listener sets are the application's. Session ids are random and
assumed distinct. A crash of the broker loses all in-memory state by design
(relay.rs:17) and needs no recovery; to a client it is a socket that closes, and to
the tables a statement that fails or whose answer is lost, both of which are
modelled.

The client and the broker are not composed. The client's module gives the broker the
freedom to answer a request at any time or never, and the broker's module gives
clients the freedom to send any message, so each covers the other.

## 7. Plan

Every safety property that a passing run checks is a theorem. What remains worth
doing: to state under which interleavings of clients `IndexesAgree` and
`WatcherToldLast` do hold, and to prove that.
