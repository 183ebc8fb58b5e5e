----------------------------- MODULE MCComponents -----------------------------
(***************************************************************************)
(* An instance of Components for TLC.                                      *)
(***************************************************************************)
EXTENDS Components

CONSTANTS
    a, b, c, d,                       \* message ids
    me, peer,                         \* participants
    alice, bob, topic, pubsub, another, \* keys and topics
    n1, n2,                           \* remote nodes
    root, west, east, leaf1, leaf2   \* subdomains

-----------------------------------------------------------------------------
\* LocalHistory: a retry may change the stamp of an id; different ids may have one
\* stamp. A batch may be longer than the history.
Rank == [i \in {a, b, c, d} |->
           CASE i = a -> 1 [] i = b -> 2 [] i = c -> 3 [] i = d -> 4]

Stamped == {[id |-> a, lamport |-> 1], [id |-> a, lamport |-> 2],
            [id |-> b, lamport |-> 1], [id |-> b, lamport |-> 3],
            [id |-> c, lamport |-> 2], [id |-> d, lamport |-> 3]}

-----------------------------------------------------------------------------
\* RepairManager: the sender of c is absent on the wire. Different messages are due
\* at different times; the original sender answers at once.
Three == {[id |-> a, sender |-> me], [id |-> b, sender |-> peer],
          [id |-> c, sender |-> NoSender]}

RequestDelay(p, i) == IF i = b THEN 0 ELSE 1
ResponseDelay(p, sender, i) == IF p = sender THEN 0 ELSE 1
SingleGroup(p, sender, i) == TRUE

-----------------------------------------------------------------------------
\* MessageFlow: an SDS message of each kind; one of content that only the overhead of
\* encryption makes too big, and one that is too big for light push and for the size
\* field of an encrypted message.
Sds(fields) == fields @@ [senderId |-> "a", messageId |-> "m", channelId |-> "c"]
SomeSdsMessages ==
    {[sds |-> Sds([lamportTimestamp |-> Zero, content |-> "x",
                   causalHistory |-> <<[messageId |-> "h", retrievalHint |-> "r"]>>]),
      size |-> 300],
     [sds |-> Sds([content |-> "x"]), size |-> 1048400],
     [sds |-> Sds([lamportTimestamp |-> "1", bloomFilter |-> Zero]), size |-> 200],
     [sds |-> Sds([lamportTimestamp |-> "1", content |-> "x"]), size |-> 20000000]}

Size(encoder, size) == size + IF encoder.scheme = "none" THEN 100 ELSE 400

Enc(scheme, key, signer, meta) ==
    [scheme |-> scheme, key |-> key, signer |-> signer, meta |-> meta,
     contentTopic |-> topic, pubsubTopic |-> pubsub, ephemeral |-> Zero]
SomeEncoders ==
    {Enc("none", another, Undefined, Undefined), Enc("none", another, Undefined, Zero),
     Enc("symmetric", bob, Undefined, another), Enc("ecies", bob, alice, Undefined)}

Dec(scheme, key) == [scheme |-> scheme, key |-> key, contentTopic |-> topic]
SomeDecoders ==
    {Dec("none", another), Dec("symmetric", bob), Dec("symmetric", alice), Dec("ecies", bob)}

-----------------------------------------------------------------------------
\* HealthIndicator: one peer has two connections.
SomeLinks == {<<n1, 1>>, <<n1, 2>>, <<another, 1>>}

-----------------------------------------------------------------------------
\* Metadata: a list with a number of too many bits and without a cluster, a bit
\* vector, an answer that cannot be encoded, and a record of one peer.
ShardAnswers ==
    n1 :> {[clusterId |-> NoInfo, shards |-> <<7>>], [clusterId |-> 5, shards |-> <<2, 0>>]}
    @@ n2 :> {[clusterId |-> 1, shards |-> <<0, 3>>], [clusterId |-> 1, shards |-> <<3>>]}
ShardRecords == n1 :> {[clusterId |-> 1, shards |-> <<2>>]} @@ n2 :> {}

-----------------------------------------------------------------------------
\* RemotePeers
Speaks == n1 :> {"store"} @@ n2 :> {"lightPushV2"}

-----------------------------------------------------------------------------
\* BootstrapDiscovery: two branches that name each other, and a node on each; one
\* has no addresses.
Record(type, next, node, dialable) ==
    [type |-> type, next |-> next, node |-> node, waku2 |-> TRUE, dialable |-> dialable]
SomeRecords ==
    root :> Record("root", {west}, Nobody, FALSE)
    @@ west  :> Record("branch", {east, leaf1}, Nobody, FALSE)
    @@ east :> Record("branch", {west, leaf2}, Nobody, FALSE)
    @@ leaf1 :> Record("record", {}, n1, TRUE)
    @@ leaf2 :> Record("record", {}, n2, FALSE)

\* PeerExchange: n1 answers itself, with the one shards or the other.
SomeAnswers == {{[peer |-> n1, shards |-> 1]}, {[peer |-> n1, shards |-> 2]}}
=============================================================================
