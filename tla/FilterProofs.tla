----------------------------- MODULE FilterProofs -----------------------------
(***************************************************************************)
(* A callback of the filter hears a message once. For any service nodes,    *)
(* decoders and content topics, any number of Subscriptions and of calls    *)
(* that overlap, and an application that awaits its calls or does not.      *)
(***************************************************************************)
EXTENDS Filter, TLAPS

-----------------------------------------------------------------------------
(* The invariant                                                           *)

\* While a Subscription runs, it remembers what its callbacks have heard.
Remembers(sub) ==
    /\ sub.heard \in [Decoders -> {0, 1}]
    /\ \A d \in Decoders : sub.heard[d] = 1 => ContentTopic[d] \in sub.received

\* A record with the fields of a Subscription.
IsSubscription(sub) ==
    sub \in [phase : {sub.phase}, callbacks : {sub.callbacks},
            toSubscribe : {sub.toSubscribe}, toUnsubscribe : {sub.toUnsubscribe},
            peers : {sub.peers}, failures : {sub.failures},
            received : {sub.received}, heard : {sub.heard}]

Sound(sub) == IsSubscription(sub) /\ Remembers(sub)

HeardIsReceived ==
    /\ subs = [s \in Ids |-> subs[s]]
    /\ \A s \in Ids : Sound(subs[s])

-----------------------------------------------------------------------------
(* Subscriptions                                                           *)

\* What a step changes of a Subscription besides the messages.
LEMMA OtherData ==
    ASSUME NEW sub, Sound(sub), NEW v, NEW w
    PROVE  /\ Sound([sub EXCEPT !.phase = v])
           /\ Sound([sub EXCEPT !.toSubscribe = v])
           /\ Sound([sub EXCEPT !.toUnsubscribe = v])
           /\ Sound([sub EXCEPT !.peers = v])
           /\ Sound([sub EXCEPT !.failures = v])
           /\ Sound([sub EXCEPT !.peers = v, !.failures = w])
           /\ Sound([sub EXCEPT !.toSubscribe = v, !.callbacks = w])
           /\ Sound([sub EXCEPT !.callbacks = v])
BY DEF Sound, IsSubscription, Remembers

LEMMA AddedIsSound ==
    ASSUME NEW sub, Sound(sub), NEW d
    PROVE  Sound(Added(sub, d))
BY OtherData DEF Added

LEMMA RemovedIsSound ==
    ASSUME NEW sub, Sound(sub), NEW d
    PROVE  Sound(Removed(sub, d))
<1> DEFINE left == [sub EXCEPT !.callbacks = @ \ {d}]
<1>1. Sound(left)
      BY OtherData
<1> DEFINE topics == IF ContentTopic[d] \in TopicsOf(left) THEN left.toUnsubscribe
                     ELSE left.toUnsubscribe \cup {ContentTopic[d]}
<1>2. Removed(sub, d) = [left EXCEPT !.toUnsubscribe = topics]
      BY DEF Removed
<1> HIDE DEF left, topics
<1>3. Sound([left EXCEPT !.toUnsubscribe = topics])
      BY <1>1, OtherData
<1> QED
    BY <1>2, <1>3

\* stop forgets what was heard with what was received.
LEMMA StoppedIsSound ==
    ASSUME NEW sub, Sound(sub)
    PROVE  Sound(Stopped(sub))
<1> DEFINE none == [d \in Decoders |-> 0]
           new == [sub EXCEPT !.phase = "stopped", !.callbacks = {}, !.received = {},
                              !.heard = none]
<1>1. none \in [Decoders -> {0, 1}] /\ \A d \in Decoders : none[d] = 0
      OBVIOUS
<1>2. Stopped(sub) = new
      BY DEF Stopped
<1> HIDE DEF none
<1>3. IsSubscription(new) /\ new.heard = none
      BY DEF Sound, IsSubscription
<1> HIDE DEF new
<1> QED
    BY <1>1, <1>2, <1>3 DEF Sound, Remembers

\* A step changes one Subscription.
LEMMA OneChanges ==
    ASSUME HeardIsReceived, NEW s, NEW new, subs' = [subs EXCEPT ![s] = new],
           s \in Ids => Sound(new)
    PROVE  HeardIsReceived'
<1>1. subs' = [t \in Ids |-> IF t = s THEN new ELSE subs[t]]
      BY DEF HeardIsReceived
<1>2. \A t \in Ids : Sound(subs[t])
      BY DEF HeardIsReceived
<1>3. \A t \in Ids : subs'[t] = IF t = s THEN new ELSE subs[t]
      BY <1>1
<1>4. \A t \in Ids : Sound(subs'[t])
      BY <1>2, <1>3
<1>5. subs' = [t \in Ids |-> subs'[t]]
      BY <1>1
<1> QED
    BY <1>4, <1>5 DEF HeardIsReceived

LEMMA NoneChanges ==
    ASSUME HeardIsReceived, UNCHANGED subs
    PROVE  HeardIsReceived'
BY DEF HeardIsReceived

-----------------------------------------------------------------------------
(* Steps of calls                                                          *)

LEMMA SubscribingStep ==
    ASSUME HeardIsReceived, NEW i \in Slots, Subscribing(i)
    PROVE  HeardIsReceived'
<1> DEFINE s == calls[i].id
<1>1. PICK peers : subs' = [subs EXCEPT ![s] = [subs[s] EXCEPT !.peers = peers]]
      BY DEF Subscribing
<1>2. s \in Ids => Sound([subs[s] EXCEPT !.peers = peers])
      BY OtherData DEF HeardIsReceived
<1> QED
    BY <1>1, <1>2, OneChanges

LEMMA PingStep ==
    ASSUME HeardIsReceived, NEW i \in Slots, NEW p \in Peers, Ping(i, p)
    PROVE  HeardIsReceived'
<1> DEFINE s == calls[i].id
<1>1. CASE UNCHANGED subs
      BY <1>1, NoneChanges
<1>2. CASE ~UNCHANGED subs
      <2>1. PICK n : subs' = [subs EXCEPT ![s] = [subs[s] EXCEPT !.failures =
                                                     [subs[s].failures EXCEPT ![p] = n]]]
            BY <1>2 DEF Ping
      <2>2. s \in Ids => Sound([subs[s] EXCEPT !.failures =
                                   [subs[s].failures EXCEPT ![p] = n]])
            BY OtherData DEF HeardIsReceived
      <2> QED
          BY <2>1, <2>2, OneChanges
<1> QED
    BY <1>1, <1>2

LEMMA FinishStep ==
    ASSUME HeardIsReceived, NEW i \in Slots, Finish(i)
    PROVE  HeardIsReceived'
<1> DEFINE s   == calls[i].id
           sub == subs[s]
           toReplace == [p \in Peers |-> IF p \in calls[i].marked THEN 0 ELSE sub.failures[p]]
           none == [p \in Peers |-> 0]
<1>1. s \in Ids => Sound(sub)
      BY DEF HeardIsReceived
<1>2. \/ UNCHANGED subs
      \/ subs' = [subs EXCEPT ![s] = [sub EXCEPT !.toSubscribe = {}]]
      \/ subs' = [subs EXCEPT ![s] = [sub EXCEPT !.toUnsubscribe = {}]]
      \/ subs' = [subs EXCEPT ![s] = [sub EXCEPT !.peers = @ \ calls[i].marked,
                                                 !.failures = toReplace]]
      \/ subs' = [subs EXCEPT ![s] = Stopped(sub)]
      \/ subs' = [subs EXCEPT ![s] = [sub EXCEPT !.peers = {}, !.failures = none]]
      BY DEF Finish
<1>3. s \in Ids =>
        /\ Sound([sub EXCEPT !.toSubscribe = {}])
        /\ Sound([sub EXCEPT !.toUnsubscribe = {}])
        /\ Sound([sub EXCEPT !.peers = @ \ calls[i].marked, !.failures = toReplace])
        /\ Sound(Stopped(sub))
        /\ Sound([sub EXCEPT !.peers = {}, !.failures = none])
      BY <1>1, OtherData, StoppedIsSound
<1> HIDE DEF toReplace, none
<1> QED
    BY <1>2, <1>3, OneChanges, NoneChanges

LEMMA DisconnectedStep ==
    ASSUME HeardIsReceived, NEW i \in Slots, onPeerDisconnected(i)
    PROVE  HeardIsReceived'
<1> DEFINE s == calls[i].id
           left == [subs[s] EXCEPT !.peers = @ \ calls[i].marked]
<1>1. subs' = [subs EXCEPT ![s] = left]
      BY DEF onPeerDisconnected
<1>2. s \in Ids => Sound(left)
      BY OtherData DEF HeardIsReceived
<1> HIDE DEF left
<1> QED
    BY <1>1, <1>2, OneChanges

LEMMA CallSteps ==
    ASSUME HeardIsReceived, NEW i \in Slots, CallStep(i)
    PROVE  HeardIsReceived'
<1>1. ASSUME NEW p \in Peers, Request(i, p) PROVE UNCHANGED subs
      BY <1>1 DEF Request
<1>2. Reject(i) \/ onPeerConnected(i) \/ Overlook(i) => UNCHANGED subs
      BY DEF Reject, onPeerConnected, Overlook
<1> QED
    BY <1>1, <1>2, NoneChanges, SubscribingStep, PingStep, FinishStep, DisconnectedStep
    DEF CallStep

-----------------------------------------------------------------------------
(* The application and the messages                                        *)

LEMMA ApplicationStep ==
    ASSUME HeardIsReceived, NEW d \in Decoders, subscribe(d) \/ unsubscribe(d)
    PROVE  HeardIsReceived'
<1>1. CASE subscribe(d)
      <2> DEFINE begun(s) == [subs[s] EXCEPT !.phase = IF @ = "unused" THEN "started" ELSE @]
      <2>1. PICK s \in Ids : subs' = [subs EXCEPT ![s] = Added(begun(s), d)]
            BY <1>1 DEF subscribe
      <2>2. Sound(begun(s))
            BY OtherData DEF HeardIsReceived
      <2> HIDE DEF begun
      <2> QED
          BY <2>1, <2>2, AddedIsSound, OneChanges
<1>2. CASE unsubscribe(d)
      <2>1. subs' = [subs EXCEPT ![subscription] = Removed(subs[subscription], d)]
            BY <1>2 DEF unsubscribe
      <2> QED
          BY <2>1, RemovedIsSound, OneChanges DEF HeardIsReceived
<1> QED
    BY <1>1, <1>2

LEMMA UnsubscribeAllStep ==
    ASSUME HeardIsReceived, unsubscribeAll
    PROVE  HeardIsReceived'
<1>1. \/ UNCHANGED subs
      \/ subs' = [subs EXCEPT ![subscription] = Stopped(subs[subscription])]
      BY DEF unsubscribeAll
<1> QED
    BY <1>1, StoppedIsSound, OneChanges, NoneChanges DEF HeardIsReceived

LEMMA OneIsLeast == Min({2, 0 + 1}) = 1
BY DEF Min

\* A message that is not remembered has been heard by none of its callbacks.
LEMMA PushStep ==
    ASSUME HeardIsReceived, NEW p \in Peers, NEW t \in Topics, Push(p, t)
    PROVE  HeardIsReceived'
<1> DEFINE s == subscription
           old == subs[s]
           heard == [d \in Decoders |-> IF d \in old.callbacks /\ ContentTopic[d] = t
                                        THEN Min({2, old.heard[d] + 1}) ELSE old.heard[d]]
           new == [[old EXCEPT !.received = @ \cup {t}] EXCEPT !.heard = heard]
<1>1. t \notin old.received /\ subs' = [subs EXCEPT ![s] = new]
      BY DEF Push, invoke, Remembered
<1>2. SUFFICES ASSUME s \in Ids, Sound(old)
               PROVE  Sound(new)
      <2> HIDE DEF new
      <2> QED
          BY <1>1, OneChanges DEF HeardIsReceived
<1>3. ASSUME NEW d \in Decoders
      PROVE  heard[d] \in {0, 1} /\ (heard[d] = 1 => ContentTopic[d] \in old.received \cup {t})
      <2>1. old.heard[d] \in {0, 1} /\ (old.heard[d] = 1 => ContentTopic[d] \in old.received)
            BY <1>2 DEF Sound, Remembers
      <2>2. CASE ContentTopic[d] = t
            <3>1. old.heard[d] = 0
                  BY <1>1, <2>1, <2>2
            <3> QED
                BY <2>2, <3>1, OneIsLeast
      <2>3. CASE ContentTopic[d] # t
            BY <2>1, <2>3
      <2> QED
          BY <2>2, <2>3
<1>4. heard \in [Decoders -> {0, 1}]
      BY <1>3
<1> HIDE DEF heard
<1> QED
    BY <1>2, <1>3, <1>4 DEF Sound, IsSubscription, Remembers

-----------------------------------------------------------------------------
(* Every step, and the theorem                                             *)

LEMMA HeardInitially == Init => HeardIsReceived
<1>1. Sound(Unused)
      BY DEF Unused, Sound, IsSubscription, Remembers
<1> QED
    BY <1>1 DEF Init, HeardIsReceived

LEMMA FilterStep == HeardIsReceived /\ [Next]_vars => HeardIsReceived'
<1> SUFFICES ASSUME HeardIsReceived, [Next]_vars
             PROVE  HeardIsReceived'
    OBVIOUS
<1>1. ASSUME NEW s \in Ids, Interval(s) \/ KeepAlive(s) PROVE UNCHANGED subs
      BY <1>1 DEF Interval, KeepAlive
<1>2. ASSUME NEW p \in Peers, Connect(p) \/ Disconnect(p) \/ Forget(p) PROVE UNCHANGED subs
      BY <1>2 DEF Connect, Disconnect, Forget
<1>3. CASE UNCHANGED vars
      BY <1>3, NoneChanges DEF vars
<1> QED
    BY <1>1, <1>2, <1>3, NoneChanges, CallSteps, ApplicationStep, UnsubscribeAllStep, PushStep
    DEF Next

\* Between the start and the stop of a Subscription each of its callbacks hears a
\* message once, however many service nodes push it, whatever is subscribed and
\* left meanwhile, and whether or not the application awaits its calls
\* (isMessageReceived).
THEOREM CallbacksHearOnce == Spec => []HeardOnce
<1>1. HeardIsReceived => HeardOnce
      BY DEF HeardIsReceived, Sound, Remembers, HeardOnce
<1> QED
    BY <1>1, HeardInitially, FilterStep, PTL DEF Spec
=============================================================================
