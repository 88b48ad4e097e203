--------------------------- MODULE PresenceManager ---------------------------
(***************************************************************************)
(* The two presence indexes of src/presence.rs:                            *)
(*                                                                         *)
(*   subscriptions : subscriber -> the peers it watches                    *)
(*   watchers      : peer -> the subscribers that watch it                 *)
(*                                                                         *)
(* Both are DashMaps: one operation on one key is atomic, and nothing      *)
(* larger is unless a guard is held.  subscribe and unsubscribe hold the   *)
(* guard of subscriptions[subscriber] for their whole loop (guard below);  *)
(* clear_subscriber holds none.  A call is therefore an action that starts *)
(* it followed by one action per target, and the removal of a watcher set  *)
(* that became empty is one more, because the code drops the set's guard   *)
(* before it calls watchers.remove.                                        *)
(*                                                                         *)
(* DashMap guards lock a shard, not a key.  Two keys of one shard exclude  *)
(* each other for longer than the model says; every order of steps the     *)
(* program can take is one the model can take.                             *)
(***************************************************************************)
EXTENDS BrokerBase

VARIABLES
    subscriptions,  \* [Peer -> a set of peers, or None]
    watchers,       \* [Peer -> a set of peers, or None]
    guard,          \* the task that holds subscriptions[s] locked, or None
    call            \* the presence call each session task is inside of

presenceVars == <<subscriptions, watchers, guard, call>>

\* A call: the loop has the targets in todo left; reap is the target whose
\* empty watcher set is to be removed next.
CallOf(op, who, todo, reap) ==
    [op |-> op, who |-> who, todo |-> todo, reap |-> reap]

Idle == CallOf("idle", None, {}, None)

Call == {Idle} \cup [op : {"subscribe", "unsubscribe", "clear"},
                      who : Peer,
                      todo : SUBSET Peer,
                      reap : Peer \cup {None}]

\* The set stored under a key, empty when the key is absent.
SetOf(index, p) == IF index[p] = None THEN {} ELSE index[p]

WatchersOf(t) == SetOf(watchers, t)

SubscriptionsOf(s) == SetOf(subscriptions, s)

PresenceInit ==
    /\ subscriptions = [s \in Peer |-> None]
    /\ watchers = [t \in Peer |-> None]
    /\ guard = [s \in Peer |-> None]
    /\ call = [k \in Conn |-> Idle]

-----------------------------------------------------------------------------
(***************************************************************************)
(* Task k leaves todo and reap behind in its call; a call with nothing     *)
(* left returns, and drops the guard it holds.                             *)
(***************************************************************************)
Continue(k, todo, reap) ==
    IF todo = {} /\ reap = None
    THEN /\ call' = [call EXCEPT ![k] = Idle]
         /\ guard' = [s \in Peer |-> IF guard[s] = k THEN None ELSE guard[s]]
    ELSE /\ call' = [call EXCEPT
                       ![k] = CallOf(call[k].op, call[k].who, todo, reap)]
         /\ UNCHANGED guard

\* A call that has work to do starts; lock says whether it keeps the guard.
Enter(k, op, s, todo, lock) ==
    /\ call' = [call EXCEPT ![k] = CallOf(op, s, todo, None)]
    /\ guard' = IF lock THEN [guard EXCEPT ![s] = k] ELSE guard

\* subscribe: subscriptions.entry(subscriber).or_default() locks the entry.
BeginSubscribe(k, s, targets) ==
    /\ call[k] = Idle
    /\ guard[s] = None
    /\ subscriptions' = [subscriptions EXCEPT ![s] = SubscriptionsOf(s)]
    /\ IF targets = {} THEN UNCHANGED <<call, guard>>
       ELSE Enter(k, "subscribe", s, targets, TRUE)
    /\ UNCHANGED watchers

\* unsubscribe: nothing to do without an entry for the subscriber.
BeginUnsubscribe(k, s, targets) ==
    /\ call[k] = Idle
    /\ guard[s] = None
    /\ IF subscriptions[s] = None \/ targets = {} THEN UNCHANGED <<call, guard>>
       ELSE Enter(k, "unsubscribe", s, targets, TRUE)
    /\ UNCHANGED <<subscriptions, watchers>>

\* clear_subscriber: takes the entry out, and keeps no guard.
BeginClear(k, s) ==
    /\ call[k] = Idle
    /\ guard[s] = None
    /\ subscriptions' = [subscriptions EXCEPT ![s] = None]
    /\ IF SubscriptionsOf(s) = {} THEN UNCHANGED <<call, guard>>
       ELSE Enter(k, "clear", s, SubscriptionsOf(s), FALSE)
    /\ UNCHANGED watchers

\* Fault: subs.insert is left out.
SubscribeTargetForgets(k) ==
    /\ call[k].op = "subscribe"
    /\ \E t \in call[k].todo :
         /\ watchers' = [watchers EXCEPT ![t] = WatchersOf(t) \cup {call[k].who}]
         /\ Continue(k, call[k].todo \ {t}, None)
    /\ UNCHANGED subscriptions

\* One iteration of subscribe's loop.
SubscribeTarget(k) ==
    LET s == call[k].who IN
    /\ call[k].op = "subscribe"
    /\ \E t \in call[k].todo :
         /\ subscriptions' = [subscriptions EXCEPT ![s] = SubscriptionsOf(s) \cup {t}]
         /\ watchers' = [watchers EXCEPT ![t] = WatchersOf(t) \cup {s}]
         /\ Continue(k, call[k].todo \ {t}, None)

\* The subscriptions entry after unsubscribe handled t; clear has taken it out.
SubscriptionAfter(k, t) ==
    IF call[k].op = "unsubscribe"
    THEN [subscriptions EXCEPT ![call[k].who] = SubscriptionsOf(call[k].who) \ {t}]
    ELSE subscriptions

\* What is left of the watcher set of t once s is out of it.
WithoutWatcher(t, s) ==
    IF watchers[t] = None THEN None ELSE watchers[t] \ {s}

\* One iteration of the loop of unsubscribe and of clear_subscriber, up to
\* the point where the watcher set's guard is dropped.
UnwatchTarget(k) ==
    /\ call[k].op \in {"unsubscribe", "clear"}
    /\ call[k].reap = None
    /\ \E t \in call[k].todo :
         LET left == WithoutWatcher(t, call[k].who) IN
         /\ subscriptions' = SubscriptionAfter(k, t)
         /\ watchers' = [watchers EXCEPT ![t] = left]
         /\ Continue(k, call[k].todo \ {t}, IF left = {} THEN t ELSE None)

\* watchers.remove(t), for a set that was empty when its guard was dropped.
ReapTarget(k) ==
    /\ call[k].reap # None
    /\ watchers' = [watchers EXCEPT ![call[k].reap] = None]
    /\ Continue(k, call[k].todo, None)
    /\ UNCHANGED subscriptions

PresenceStep(k) == SubscribeTarget(k) \/ UnwatchTarget(k) \/ ReapTarget(k)

-----------------------------------------------------------------------------
(***************************************************************************)
(* The manager on its own, driven by session tasks that may act for any    *)
(* key: two connections of one key share a subscriptions entry.            *)
(***************************************************************************)
PresenceNext ==
    \E k \in Conn :
        \/ \E s \in Peer, targets \in SUBSET Peer : BeginSubscribe(k, s, targets)
        \/ \E s \in Peer, targets \in SUBSET Peer : BeginUnsubscribe(k, s, targets)
        \/ \E s \in Peer : BeginClear(k, s)
        \/ PresenceStep(k)

PresenceSpec == PresenceInit /\ [][PresenceNext]_presenceVars

-----------------------------------------------------------------------------
\* The two indexes, the guards and the calls in progress are well typed.
PresenceTypeOK ==
    /\ subscriptions \in [Peer -> {None} \cup SUBSET Peer]
    /\ watchers \in [Peer -> {None} \cup SUBSET Peer]
    /\ guard \in [Peer -> Conn \cup {None}]
    /\ call \in [Conn -> Call]

\* Task k is inside clear_subscriber for s and has yet to visit t.
Clearing(k, s, t) ==
    call[k].op = "clear" /\ call[k].who = s /\ t \in call[k].todo

(***************************************************************************)
(* A peer is listed as a watcher only while it is subscribed, or while a   *)
(* clear_subscriber call that will still visit that watcher set is under   *)
(* way.  So broadcast never keeps addressing a subscriber whose            *)
(* subscriptions are gone, however the calls of different connections,     *)
(* two of the same key included, interleave.                               *)
(***************************************************************************)
NoGhostWatcher ==
    \A t \in Peer : \A s \in WatchersOf(t) :
        t \in SubscriptionsOf(s) \/ \E k \in Conn : Clearing(k, s, t)

(***************************************************************************)
(* While no presence call is under way, the indexes are inverse to each    *)
(* other: the subscriber of a peer is one of its watchers, so that         *)
(* broadcast reaches it, and the other way round.                          *)
(***************************************************************************)
IndexesAgree ==
    (\A k \in Conn : call[k] = Idle) =>
        \A s, t \in Peer : t \in SubscriptionsOf(s) <=> s \in WatchersOf(t)
=============================================================================
