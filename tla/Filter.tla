------------------------------- MODULE Filter ---------------------------------
(***************************************************************************)
(* The filter protocol of a light node (sdk/src/filter): Filter keeps a     *)
(* Subscription per pubsub topic, which asks service nodes to push the      *)
(* messages of its content topics, pings them, and looks for others when    *)
(* they fail. One pubsub topic is modelled, with every Subscription that is *)
(* made for it one after the other: a stopped one may still wait for        *)
(* answers while the next one works with the same service nodes.            *)
(*                                                                         *)
(* Everything that awaits is a CALL, a record of what the code still holds  *)
(* in its local variables: the peers were read before an await and are used *)
(* after it. The service nodes are not part of this repository; of them it  *)
(* is assumed that they answer a ping with an error when they keep no       *)
(* subscription of this node, and that a request ends.                      *)
(***************************************************************************)
EXTENDS Naturals, FiniteSets, FiniteSetsExt

CONSTANTS
    Peers,              \* service nodes of the pubsub topic
    Silent,             \* those of them that accept connections and answer nothing
    Decoders,
    ContentTopic,       \* [Decoders -> content topics]
    NumPeersToUse,      \* numPeersToUse, of the filter and of the peer manager
    PingsBeforeRenewed, \* pingsBeforePeerRenewed
    Overlapping,        \* whether the application calls before its last call returned
    MaxSubscriptions, MaxCalls, MaxOperations, MaxFaults \* bounds

ASSUME BoundsAssumption ==
    /\ MaxSubscriptions \in Nat /\ MaxCalls \in Nat
    /\ MaxOperations \in Nat /\ MaxFaults \in Nat

VARIABLES
    subscription,  \* subscriptions.get(pubsubTopic), 0 for none
    subs,          \* [Ids -> the state of the Subscription]
    calls,         \* [Slots -> a suspended call]
    lasting,       \* slots of calls under way since the last pings of their Subscription
    connected,     \* peers with a connection
    locked,        \* lockedPeers of the peer manager
    served,        \* [Peers -> content topics the peer pushes to this node]
    overlooked,    \* peers whose connection was told and ignored
    operations, faults  \* how many calls of the application, and failures, so far

vars == <<subscription, subs, calls, lasting, connected, locked, served, overlooked,
          operations, faults>>

Topics == {ContentTopic[d] : d \in Decoders}
Ids    == 1..MaxSubscriptions
Slots  == 1..MaxCalls

\* What a call waits for is its kind: "peers", answers to "subscribe",
\* "unsubscribe", "unsubscribeAll", "ping" or "renew", or what is known of a peer
\* that did "connect" or "disconnect"; "done" when it is there. Then it is to
\* "return", to "set" the subscription, to "end" or "clear" it, or to go on as
\* the "interval" does; "nothing" follows when one of its requests has rejected.
\* waiting: the peers that have not answered, or those that getPeers has seen;
\* marked: the peers there were before (prevPeers), or the peers to replace.
Call(kind, id, topics, new, only, waiting, marked, then) ==
    [kind |-> kind, id |-> id, topics |-> topics, new |-> new, only |-> only,
     waiting |-> waiting, marked |-> marked, then |-> then]
Done(id, then) == Call("done", id, {}, FALSE, FALSE, {}, {}, then)
NoCall == Done(0, "return")

Unused == [phase |-> "unused", callbacks |-> {}, toSubscribe |-> {}, toUnsubscribe |-> {},
           peers |-> {}, failures |-> [p \in Peers |-> 0], received |-> {},
           heard |-> [d \in Decoders |-> 0]]

Init ==
    /\ subscription = 0
    /\ subs = [s \in Ids |-> Unused]
    /\ calls = [i \in Slots |-> NoCall] /\ lasting = {}
    /\ connected \in SUBSET Peers
    /\ locked = {} /\ overlooked = {}
    /\ served = [p \in Peers |-> {}]
    /\ operations = 0 /\ faults = 0

TopicsOf(sub) == {ContentTopic[d] : d \in sub.callbacks}
Free          == {i \in Slots : calls[i] = NoCall}
Started(s)    == subs[s].phase = "started"

\* The call in slot i goes on as another, or returns; a new one takes a free slot.
GoOn(i, call) ==
    LET returns == call.kind = "done" /\ call.then = "return" IN
    /\ calls' = [calls EXCEPT ![i] = IF returns THEN NoCall ELSE call]
    /\ lasting' = IF returns THEN lasting \ {i} ELSE lasting
Begin(call) == \E i \in Free : (\A j \in Free : i <= j) /\ GoOn(i, call)

-----------------------------------------------------------------------------
\* attemptSubscribe up to its first await, by a Subscription in state sub: the
\* topics, the peers it has and the connections are read. AttemptWithNewTopics
\* takes only topics that were not asked for yet.
AttemptWithNewTopics(s, sub, new, only, then) ==
    IF sub.toSubscribe = {} THEN Done(s, then)
    ELSE Call("peers", s, sub.toSubscribe, new, only, connected, sub.peers, then)
attemptSubscribe(s, sub, new, only, then) ==
    LET topics == IF new THEN sub.toSubscribe ELSE TopicsOf(sub)
    IN  IF topics = {} THEN Done(s, then)
        ELSE Call("peers", s, topics, new, only, connected, sub.peers, then)

\* attemptUnsubscribe up to its first await. All topics are left at once.
attemptUnsubscribe(s, sub, new, then) ==
    LET topics == IF new THEN sub.toUnsubscribe ELSE TopicsOf(sub)
    IN  IF topics = {} THEN Done(s, then)
        ELSE Call(IF new THEN "unsubscribe" ELSE "unsubscribeAll",
                  s, topics, new, FALSE, sub.peers, {}, then)

\* What getPeers of the peer manager returns of the peers it has seen: those it
\* has locked come first. It locks what it returns.
getPeers(seen) ==
    LET held == seen \cap locked
        wanted == Min({NumPeersToUse, Cardinality(seen)})
    IN  IF Cardinality(held) >= wanted THEN kSubset(wanted, held)
        ELSE {held \cup more : more \in kSubset(wanted - Cardinality(held), seen \ held)}

\* Peers are added while there are fewer than numPeersToUse.
WithAdded(peers, chosen) ==
    LET room == IF Cardinality(peers) >= NumPeersToUse THEN 0
                ELSE NumPeersToUse - Cardinality(peers)
        new  == chosen \ peers
    IN  {peers \cup more : more \in kSubset(Min({room, Cardinality(new)}), new)}

\* attemptSubscribe after getPeers.
Subscribing(i) ==
    LET c == calls[i] IN
    /\ c.kind = "peers"
    /\ \E chosen \in getPeers(c.waiting) :
          /\ locked' = locked \cup chosen
          /\ \E peers \in WithAdded(subs[c.id].peers, chosen) :
                LET used == IF c.only THEN peers \ c.marked ELSE peers
                IN  /\ subs' = [subs EXCEPT ![c.id].peers = peers]
                    /\ GoOn(i, IF c.only /\ used = {} THEN Done(c.id, c.then)
                               ELSE [c EXCEPT !.kind = "subscribe", !.waiting = used,
                                              !.marked = {}])
    /\ UNCHANGED <<subscription, connected, served, overlooked, operations, faults>>

-----------------------------------------------------------------------------
\* What a request asks of the service node p.
Applied(c, p) ==
    [served EXCEPT ![p] = CASE c.kind = "subscribe"      -> @ \cup c.topics
                            [] c.kind = "unsubscribe"    -> @ \ c.topics
                            [] c.kind = "renew"          -> @ \ c.topics
                            [] c.kind = "unsubscribeAll" -> {}]

Reachable(p) == p \in connected \ Silent

\* The request of call i to p ends. A request to a peer that is gone, or that
\* answers nothing, fails; the stream of another may break, before the request
\* or after it. An answer to subscribe that cannot be decoded rejects, as may an
\* unsubscribeAll that fails, and what would follow is left out.
Rejects(c, p) == c.kind = "unsubscribeAll" \/ (c.kind = "subscribe" /\ Reachable(p))

Request(i, p) ==
    LET c == calls[i] IN
    /\ c.kind \in {"subscribe", "unsubscribe", "renew", "unsubscribeAll"} /\ p \in c.waiting
    /\ \/ /\ Reachable(p)
          /\ served' = Applied(c, p)
          /\ GoOn(i, [c EXCEPT !.waiting = @ \ {p}])
          /\ UNCHANGED faults
       \/ /\ IF Reachable(p) THEN faults < MaxFaults /\ faults' = faults + 1
             ELSE UNCHANGED faults
          /\ \/ UNCHANGED served
             \/ Reachable(p) /\ served' = Applied(c, p)
          /\ \E then \in {c.then} \cup (IF Rejects(c, p) THEN {"nothing"} ELSE {}) :
                GoOn(i, [c EXCEPT !.waiting = @ \ {p}, !.then = then])
    /\ UNCHANGED <<subscription, subs, connected, locked, overlooked, operations>>

\* A ping of call i to p ends. An answer that cannot be decoded is not counted as
\* a failure: it rejects, and the whole round with it.
Ping(i, p) ==
    LET c == calls[i]
        failures == subs[c.id].failures[p] + 1
    IN
    /\ c.kind = "ping" /\ p \in c.waiting
    /\ \/ /\ Reachable(p) /\ served[p] # {}
          /\ subs' = [subs EXCEPT ![c.id].failures[p] = 0]
          /\ GoOn(i, [c EXCEPT !.waiting = @ \ {p}])
          /\ UNCHANGED faults
       \/ /\ IF Reachable(p) /\ served[p] # {} THEN faults < MaxFaults /\ faults' = faults + 1
             ELSE UNCHANGED faults
          /\ subs' = [subs EXCEPT ![c.id].failures[p] = failures]
          /\ GoOn(i, [c EXCEPT !.waiting = @ \ {p},
                               !.marked = IF failures < PingsBeforeRenewed THEN @
                                          ELSE @ \cup {p}])
       \/ /\ Reachable(p) /\ faults < MaxFaults /\ faults' = faults + 1
          /\ GoOn(i, [c EXCEPT !.waiting = @ \ {p}, !.then = "nothing"])
          /\ UNCHANGED subs
    /\ UNCHANGED <<subscription, connected, locked, served, overlooked, operations>>

-----------------------------------------------------------------------------
\* stop: the attempt to unsubscribe takes the topics before the callbacks are
\* dropped. disposePeers clears the peers after the answers.
Stopped(sub) == [sub EXCEPT !.phase = "stopped", !.callbacks = {}, !.received = {},
                            !.heard = [d \in Decoders |-> 0]]
Stopping(s)  == attemptUnsubscribe(s, subs[s], FALSE, "clear")

\* All answers of call i are there: what follows the await.
Finish(i) ==
    LET c   == calls[i]
        sub == subs[c.id]
    IN
    /\ c # NoCall /\ c.waiting = {} /\ c.then # "nothing"
    /\ \/ /\ c.kind = "subscribe"
          /\ subs' = IF c.new THEN [subs EXCEPT ![c.id].toSubscribe = {}] ELSE subs
          /\ GoOn(i, Done(c.id, c.then))
          /\ UNCHANGED subscription
       \/ /\ c.kind \in {"unsubscribe", "unsubscribeAll"}
          /\ subs' = IF c.new THEN [subs EXCEPT ![c.id].toUnsubscribe = {}] ELSE subs
          /\ GoOn(i, Done(c.id, c.then))
          /\ UNCHANGED subscription
       \* peers that did not answer their pings are dropped, and told so
       \/ /\ c.kind = "ping"
          /\ subs' = [subs EXCEPT ![c.id].peers = @ \ c.marked,
                                  ![c.id].failures = [p \in Peers |->
                                      IF p \in c.marked THEN 0 ELSE @[p]]]
          /\ GoOn(i, IF c.marked = {} THEN NoCall
                     ELSE Call("renew", c.id, TopicsOf(sub), FALSE, TRUE,
                               c.marked, {}, "return"))
          /\ UNCHANGED subscription
       \/ /\ c.kind = "renew"
          /\ GoOn(i, attemptSubscribe(c.id, sub, FALSE, TRUE, "return"))
          /\ UNCHANGED <<subs, subscription>>
       \* subscribe of Filter, after add
       \/ /\ c.kind = "done" /\ c.then = "set"
          /\ subscription' = c.id
          /\ GoOn(i, NoCall)
          /\ UNCHANGED subs
       \* unsubscribe of Filter, after remove
       \/ /\ c.kind = "done" /\ c.then = "end"
          /\ LET stops == sub.callbacks = {} IN
             /\ subscription' = IF stops THEN 0 ELSE subscription
             /\ subs' = IF stops /\ Started(c.id) THEN [subs EXCEPT ![c.id] = Stopped(sub)]
                        ELSE subs
             /\ GoOn(i, IF stops /\ Started(c.id) THEN Stopping(c.id) ELSE NoCall)
       \/ /\ c.kind = "done" /\ c.then = "clear"
          /\ subs' = [subs EXCEPT ![c.id].peers = {},
                                  ![c.id].failures = [p \in Peers |-> 0]]
          /\ GoOn(i, NoCall)
          /\ UNCHANGED subscription
       \* the interval, after its attempt to subscribe
       \/ /\ c.kind = "done" /\ c.then = "interval"
          /\ GoOn(i, IF sub.toUnsubscribe = {} THEN NoCall
                     ELSE attemptUnsubscribe(c.id, sub, TRUE, "return"))
          /\ UNCHANGED <<subs, subscription>>
    /\ UNCHANGED <<connected, locked, served, overlooked, operations, faults>>

\* A rejected call is over: subscribe of Filter does not make its Subscription
\* known, attemptSubscribe keeps its new topics, a round of pings replaces no
\* peer, disposePeers clears nothing.
Reject(i) ==
    /\ calls[i].then = "nothing" /\ calls[i].waiting = {}
    /\ GoOn(i, NoCall)
    /\ UNCHANGED <<subscription, subs, connected, locked, served, overlooked, operations, faults>>

-----------------------------------------------------------------------------
\* The timers of a Subscription. The interval of a second may fire while a call of
\* the application waits for the same topics; what the interval itself began has
\* ended when it fires next (a bound). Pings are sent once a minute, whatever calls
\* are under way: only a call that was under way at the last round has ended when
\* the next begins (a bound).
Interval(s) ==
    /\ Started(s)
    /\ subs[s].toSubscribe \cup subs[s].toUnsubscribe # {}
    /\ \A i \in Slots :
          calls[i].id = s /\ calls[i].then \in {"return", "interval"} => ~calls[i].new
    /\ Begin(IF subs[s].toSubscribe # {} THEN attemptSubscribe(s, subs[s], TRUE, FALSE, "interval")
             ELSE attemptUnsubscribe(s, subs[s], TRUE, "return"))
    /\ UNCHANGED <<subscription, subs, connected, locked, served, overlooked, operations, faults>>

KeepAlive(s) ==
    LET own == {i \in Slots : calls[i].id = s} IN
    /\ Started(s) /\ subs[s].peers # {}
    /\ own \cap lasting = {}
    /\ \E i \in Free :
          /\ \A j \in Free : i <= j
          /\ calls' = [calls EXCEPT ![i] =
                          Call("ping", s, {}, FALSE, FALSE, subs[s].peers, {}, "return")]
          /\ lasting' = lasting \cup own \cup {i}
    /\ UNCHANGED <<subscription, subs, connected, locked, served, overlooked, operations, faults>>

-----------------------------------------------------------------------------
\* A peer connects or goes: every started Subscription is told, and awaits
\* whether the peer is of its pubsub topic. A service node may forget the
\* subscriptions of a node that goes.
Tell(kind, p) ==
    LET told == {s \in Ids : Started(s)} IN
    \E placed \in [told -> Free] :
        /\ \A s, t \in told : s < t => placed[s] < placed[t]
        /\ \A s \in told, i \in Free : i < placed[s] => \E t \in told : placed[t] = i
        /\ calls' = [i \in Slots |->
              IF \E s \in told : placed[s] = i
              THEN Call(kind, CHOOSE s \in told : placed[s] = i, {}, FALSE, FALSE, {}, {p}, "return")
              ELSE calls[i]]
        /\ UNCHANGED lasting

Connect(p) ==
    /\ p \notin connected
    /\ connected' = connected \cup {p}
    /\ Tell("connect", p)
    /\ UNCHANGED <<subscription, subs, locked, served, overlooked, operations, faults>>

Disconnect(p) ==
    /\ p \in connected /\ faults < MaxFaults
    /\ faults' = faults + 1
    /\ connected' = connected \ {p}
    /\ served' \in {served, [served EXCEPT ![p] = {}]}
    /\ Tell("disconnect", p)
    /\ UNCHANGED <<subscription, subs, locked, overlooked, operations>>

\* onPeerConnected and onPeerDisconnected after their await: the peer is ignored when
\* isPeerOnPubsub says no, because of what its shards in the peer store were then, or
\* because the peer store failed. (A peer that always has other shards is none of
\* Peers: getPeers does not give it either.)
Overlook(i) ==
    /\ calls[i].kind \in {"connect", "disconnect"} /\ faults < MaxFaults
    /\ faults' = faults + 1
    /\ overlooked' = overlooked \cup calls[i].marked
    /\ GoOn(i, NoCall)
    /\ UNCHANGED <<subscription, subs, connected, locked, served, operations>>

onPeerConnected(i) ==
    LET c == calls[i] IN
    /\ c.kind = "connect"
    /\ GoOn(i, IF c.marked \subseteq subs[c.id].peers THEN NoCall
               ELSE attemptSubscribe(c.id, subs[c.id], FALSE, TRUE, "return"))
    /\ UNCHANGED <<subscription, subs, connected, locked, served, overlooked, operations, faults>>

onPeerDisconnected(i) ==
    LET c   == calls[i]
        sub == [subs[c.id] EXCEPT !.peers = @ \ c.marked]
    IN
    /\ c.kind = "disconnect"
    /\ subs' = [subs EXCEPT ![c.id] = sub]
    /\ GoOn(i, IF sub = subs[c.id] THEN NoCall
               ELSE attemptSubscribe(c.id, sub, FALSE, TRUE, "return"))
    /\ UNCHANGED <<subscription, connected, locked, served, overlooked, operations, faults>>

\* A service node restarts, and keeps the connection but no subscription.
Forget(p) ==
    /\ served[p] # {} /\ faults < MaxFaults
    /\ faults' = faults + 1
    /\ served' = [served EXCEPT ![p] = {}]
    /\ UNCHANGED <<subscription, subs, calls, lasting, connected, locked, overlooked, operations>>

-----------------------------------------------------------------------------
\* Calls of the application. One that awaits each of its calls has none pending.
Calling ==
    /\ operations < MaxOperations
    /\ Overlapping \/ \A i \in Slots : calls[i].then \notin {"set", "end"}
    /\ operations' = operations + 1

\* addSingle: a topic is new when no decoder has it.
Added(sub, d) ==
    [sub EXCEPT !.toSubscribe = IF ContentTopic[d] \in TopicsOf(sub) THEN @
                                ELSE @ \cup {ContentTopic[d]},
                !.callbacks = @ \cup {d}]

\* removeSingle: a topic is left when no decoder has it any more.
Removed(sub, d) ==
    LET left == [sub EXCEPT !.callbacks = @ \ {d}]
    IN  [left EXCEPT !.toUnsubscribe = IF ContentTopic[d] \in TopicsOf(left) THEN @
                                       ELSE @ \cup {ContentTopic[d]}]

\* Filter.subscribe: start of a new Subscription asks nothing, as it has no
\* topic yet. It is put in subscriptions only after add.
subscribe(d) ==
    /\ Calling
    /\ \E s \in Ids :
          /\ IF subscription # 0 THEN s = subscription
             ELSE subs[s].phase = "unused" /\ \A t \in Ids : t < s => subs[t].phase # "unused"
          /\ LET sub == Added([subs[s] EXCEPT !.phase = IF @ = "unused" THEN "started" ELSE @], d)
             IN  /\ Begin(IF sub.toSubscribe = {} THEN Done(s, "set")
                          ELSE attemptSubscribe(s, sub, TRUE, FALSE, "set"))
                 /\ subs' = [subs EXCEPT ![s] = sub]
    /\ UNCHANGED <<subscription, connected, locked, served, overlooked, faults>>

unsubscribe(d) ==
    /\ Calling
    /\ subscription # 0
    /\ LET sub == Removed(subs[subscription], d)
       IN  /\ Begin(IF sub.toUnsubscribe = {} THEN Done(subscription, "end")
                    ELSE attemptUnsubscribe(subscription, sub, TRUE, "end"))
           /\ subs' = [subs EXCEPT ![subscription] = sub]
    /\ UNCHANGED <<subscription, connected, locked, served, overlooked, faults>>

unsubscribeAll ==
    /\ Calling
    /\ subscription # 0
    /\ subscription' = 0
    /\ IF Started(subscription)
       THEN /\ subs' = [subs EXCEPT ![subscription] = Stopped(@)]
            /\ Begin(Stopping(subscription))
       ELSE UNCHANGED <<subs, calls, lasting>>
    /\ UNCHANGED <<connected, locked, served, overlooked, faults>>

-----------------------------------------------------------------------------
\* isMessageReceived. NotRemembered forgets to add the message.
NotRemembered(sub, t) == sub
Remembered(sub, t) == [sub EXCEPT !.received = @ \cup {t}]

\* A callback that has heard a message twice counts no further.
invoke(s, t) ==
    LET sub == subs[s]
        heard(d) == IF d \in sub.callbacks /\ ContentTopic[d] = t THEN Min({2, sub.heard[d] + 1})
                    ELSE sub.heard[d]
    IN
    /\ t \notin sub.received
    /\ subs' = [subs EXCEPT ![s] =
                   [Remembered(sub, t) EXCEPT !.heard = [d \in Decoders |-> heard(d)]]]

\* A service node pushes the message of topic t: onIncomingMessage.
Push(p, t) ==
    /\ p \in connected /\ t \in served[p]
    /\ subscription # 0 /\ invoke(subscription, t)
    /\ UNCHANGED <<subscription, calls, lasting, connected, locked, served, overlooked,
                   operations, faults>>

CallStep(i) ==
    \/ Subscribing(i)
    \/ \E p \in Peers : Request(i, p) \/ Ping(i, p)
    \/ Finish(i) \/ Reject(i)
    \/ onPeerConnected(i) \/ onPeerDisconnected(i) \/ Overlook(i)

Next ==
    \/ \E i \in Slots : CallStep(i)
    \/ \E s \in Ids : Interval(s) \/ KeepAlive(s)
    \/ \E p \in Peers : Connect(p) \/ Disconnect(p) \/ Forget(p)
    \/ \E d \in Decoders : subscribe(d) \/ unsubscribe(d)
    \/ unsubscribeAll
    \/ \E p \in Peers, t \in Topics : Push(p, t)

\* What was begun ends, and the timers of a Subscription that runs fire.
Fairness ==
    /\ \A i \in Slots : WF_vars(CallStep(i))
    /\ \A s \in Ids : WF_vars(Interval(s)) /\ WF_vars(KeepAlive(s))

Spec == Init /\ [][Next]_vars /\ Fairness

-----------------------------------------------------------------------------
\* From the start of a Subscription to its stop, a decoder's callback hears a
\* message once, however many service nodes push it, however often, and whatever
\* decoders are added and removed meanwhile, within the minute it is remembered
\* (isMessageReceived, addSingle). A callback given to two decoders, or to the
\* Subscription made after a stop, hears it again.
HeardOnce == \A s \in Ids, d \in Decoders : subs[s].heard[d] <= 1

\* Once the application, the connections and the service nodes are quiet, what is
\* subscribed gets served for good by one of the peers in use, whatever requests
\* of this and of earlier Subscriptions overtook each other, whichever peer was
\* added when it had just gone, and whatever a service node has forgotten (the
\* interval, the pings, onPeerConnected, onPeerDisconnected). It takes a peer that was
\* not ignored when it connected, as nothing looks for that one again, and that no
\* other Subscription runs: one whose subscribe was rejected keeps its timers, is not
\* known to the filter, and may leave the topics of a service node in use again and
\* again.
Wanted ==
    /\ subscription # 0 /\ subs[subscription].callbacks # {}
    /\ \A s \in Ids : Started(s) => s = subscription
    /\ connected \ (Silent \cup overlooked) # {}
Served ==
    /\ subscription # 0
    /\ \E p \in subs[subscription].peers \cap connected : served[p] # {}
EventuallyServed == <>[]Wanted => <>[]Served
=============================================================================
